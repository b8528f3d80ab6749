----------------------------- MODULE ClientsProofs -----------------------------
(***************************************************************************)
(* Theorems about the parts of the clients: the loops and the search of    *)
(* the status monitor, the queries of a lite client, the sessions of the   *)
(* HTTP clients, the requests of their balancer and the retries of these,  *)
(* the pages of a history, and get-methods through the three libraries.    *)
(* Each has an inductive invariant of its own.                             *)
(***************************************************************************)
EXTENDS HttpBalancer, TransactionPages, LiteQueries, StatusMonitor, ArchiveDepth,
        GetMethods, FiniteSetTheorems, DataLemmas

(* The loops and stop(): how far stop() has come says which loops it still *)
(* waits for, and a loop that is neither made nor cancelled under stop()   *)
(* has yet to take its first turn.                                         *)
Quiet(l) == loop[l] \in {"none", "turn", "ended"}

StopPhases ==
  /\ stopper \in {"none", "cancelling", "closing", "returned"}
  /\ stopSet = (stopper # "none")
  /\ run = "before" => cancelled = {} /\ \A l \in Loops : loop[l] = "none"
  /\ stopper # "cancelling" => cancelled = {}
  /\ stopper # "none" => \A l \in Loops : l \in cancelled \/ Quiet(l)

MonitorInv == MonitorTypeOK /\ StopPhases /\ StopLeavesNothing

LEMMA MonitorInitHolds == MonitorInit => MonitorInv
<1> SUFFICES ASSUME MonitorInit PROVE MonitorInv
  OBVIOUS
<1>1. MonitorTypeOK
  <2>1. since \in 0..Interval
    BY MonitorAssumption DEF MonitorInit
  <2>2. refused \in BOOLEAN
    BY Zenon DEF MonitorInit
  <2> QED BY <2>1, <2>2 DEF MonitorInit, MonitorTypeOK, Loops
<1>2. StopPhases /\ StopLeavesNothing
  BY DEF MonitorInit, StopPhases, StopLeavesNothing
<1> QED BY <1>1, <1>2 DEF MonitorInv

LEMMA MonitorTypeStep == MonitorTypeOK /\ [MonitorNext]_monitor => MonitorTypeOK'
<1> SUFFICES ASSUME MonitorTypeOK, [MonitorNext]_monitor PROVE MonitorTypeOK'
  OBVIOUS
<1> USE MonitorAssumption DEF MonitorTypeOK, Loops, At
<1>1. CASE StartUpdateLoops \/ RunEnds
  BY <1>1 DEF StartUpdateLoops, RunEnds
<1>2. CASE LiteConnectEnds \/ DhtConnectEnds
  BY <1>2 DEF LiteConnectEnds, DhtConnectEnds, ConnectEnds
<1>3. CASE LosesServer
  BY <1>3 DEF LosesServer
<1>4. ASSUME NEW l \in Loops, LoopTurn(l) PROVE MonitorTypeOK'
  <2>1. /\ EnsureConnected(l) \in {"connect", "update", "sleep"}
        /\ EnsureConnected(l) = "connect" => l = "fast"
    BY DEF EnsureConnected
  <2> QED BY <1>4, <2>1 DEF LoopTurn
<1>5. ASSUME NEW l \in Loops, LiteUpdateEnds(l) \/ DhtUpdateEnds(l) PROVE MonitorTypeOK'
  <2>1. /\ loop' = [loop EXCEPT ![l] = "sleep"]
        /\ UNCHANGED <<kind, run, stopSet, stopper, cancelled, client, since, refused>>
    BY <1>5 DEF LiteUpdateEnds, DhtUpdateEnds, UpdateEnds
  <2> QED BY <2>1
<1>6. ASSUME NEW l \in Loops, SleepEnds(l) PROVE MonitorTypeOK'
  BY <1>6 DEF SleepEnds
<1>7. ASSUME NEW l \in Loops, CancelArrives(l) PROVE MonitorTypeOK'
  BY <1>7 DEF CancelArrives
<1>8. CASE Stop \/ CloseClients \/ ClientsClosed
  BY <1>8 DEF Stop, CloseClients, ClientsClosed
<1>9. CASE UNCHANGED monitor
  BY <1>9 DEF monitor
<1> QED BY <1>1, <1>2, <1>3, <1>4, <1>5, <1>6, <1>7, <1>8, <1>9 DEF MonitorNext

LEMMA MonitorStep == MonitorInv /\ [MonitorNext]_monitor => MonitorInv'
<1> SUFFICES ASSUME MonitorInv, [MonitorNext]_monitor PROVE StopPhases' /\ StopLeavesNothing'
  BY MonitorTypeStep DEF MonitorInv
<1> USE DEF MonitorInv, MonitorTypeOK, StopPhases, StopLeavesNothing, Quiet, Loops, At
<1>1. CASE StartUpdateLoops \/ RunEnds
  BY <1>1 DEF StartUpdateLoops, RunEnds
<1>2. CASE LiteConnectEnds \/ DhtConnectEnds
  BY <1>2 DEF LiteConnectEnds, DhtConnectEnds, ConnectEnds
<1>3. CASE LosesServer
  BY <1>3 DEF LosesServer
<1>4. ASSUME NEW l \in Loops, LoopTurn(l) PROVE StopPhases' /\ StopLeavesNothing'
  BY <1>4 DEF LoopTurn
<1>5. ASSUME NEW l \in Loops, LiteUpdateEnds(l) \/ DhtUpdateEnds(l)
      PROVE  StopPhases' /\ StopLeavesNothing'
  BY <1>5 DEF LiteUpdateEnds, DhtUpdateEnds, UpdateEnds
<1>6. ASSUME NEW l \in Loops, SleepEnds(l) PROVE StopPhases' /\ StopLeavesNothing'
  BY <1>6 DEF SleepEnds
<1>7. ASSUME NEW l \in Loops, CancelArrives(l) PROVE StopPhases' /\ StopLeavesNothing'
  BY <1>7 DEF CancelArrives
<1>8. CASE Stop
  BY <1>8 DEF Stop
<1>9. CASE CloseClients \/ ClientsClosed
  BY <1>9 DEF CloseClients, ClientsClosed, Gathered
<1>10. CASE UNCHANGED monitor
  BY <1>10 DEF monitor
<1> QED BY <1>1, <1>2, <1>3, <1>4, <1>5, <1>6, <1>7, <1>8, <1>9, <1>10 DEF MonitorNext

(* When stop() of the status monitor returns, no update loop is at work or *)
(* will ever connect, and its client is closed, unless its close() raised. *)
THEOREM StopAlwaysLeavesNothing == MonitorSpec => []StopLeavesNothing
<1>1. MonitorInit => MonitorInv
  BY MonitorInitHolds
<1>2. MonitorInv /\ [MonitorNext]_monitor => MonitorInv'
  BY MonitorStep
<1>3. MonitorInv => StopLeavesNothing
  BY DEF MonitorInv
<1> QED BY <1>1, <1>2, <1>3, PTL DEF MonitorSpec
------------------------------------------------------------------------------
(* The search for the archive's depth: what it has found is there, and, if *)
(* no probe failed, what it has not looked at begins right above it.       *)
DepthTypes ==
  /\ age \in Nat /\ depth \in Nat /\ depth <= age
  /\ cached = <<>> \/ \E days \in Nat : cached = <<days>>
  /\ searching \in BOOLEAN /\ missed \in BOOLEAN /\ pruned \in BOOLEAN
  /\ left \in Nat /\ best \in Nat /\ right \in Int

SearchNarrows ==
  ~pruned =>
    /\ cached # <<>> => cached[1] <= depth
    /\ searching => best <= depth /\ left <= best + 1 /\ (~missed => depth <= right)

KeepsFound == searching /\ cached # <<>> => cached[1] <= best /\ best <= left

DepthInv == DepthTypes /\ SearchNarrows /\ KeepsFound

LEMMA DepthStep == DepthInv /\ [DepthNext]_archive => DepthInv'
<1> SUFFICES ASSUME DepthInv, [DepthNext]_archive
             PROVE  DepthTypes' /\ SearchNarrows' /\ KeepsFound'
  BY DEF DepthInv
<1> USE DEF DepthInv, DepthTypes, SearchNarrows, KeepsFound
<1>1. CASE FindArchiveDepth
  <2>1. left' \in Nat /\ best' = left' /\ (~pruned => left' <= depth)
    BY <1>1 DEF FindArchiveDepth
  <2>2. UNCHANGED <<age, depth, cached, pruned>> /\ right' = age /\ ~missed' /\ missed' \in BOOLEAN
        /\ searching' = TRUE
    BY <1>1 DEF FindArchiveDepth
  <2>3. DepthTypes'
    BY <2>1, <2>2
  <2>4. age' = age /\ depth' = depth /\ cached' = cached /\ pruned' = pruned
    BY <2>2
  <2>5. ~pruned => best' <= depth /\ left' <= best' + 1 /\ depth <= right'
    <3>1. age \in Nat /\ depth \in Nat /\ depth <= age /\ right' = age
      BY <2>2
    <3>2. best' \in Nat /\ left' \in Nat
      BY <2>1
    <3>3. ~pruned => best' <= depth
      BY <2>1
    <3>4. left' <= best' + 1
      <4>1. \A n \in Nat : n <= n + 1
        OBVIOUS
      <4>2. left' <= left' + 1
        BY <3>2, <4>1
      <4> QED BY <2>1, <4>2
    <3>5. depth <= right'
      BY <3>1
    <3> QED BY <3>3, <3>4, <3>5
  <2>6. ~pruned => (cached # <<>> => cached[1] <= depth)
    OBVIOUS
  <2>7. SearchNarrows'
    BY <2>4, <2>5, <2>6
  <2>8. KeepsFound'
    <3>1. cached # <<>> => best' = cached[1] /\ left' = cached[1] /\ cached[1] \in Nat
      BY <1>1 DEF FindArchiveDepth
    <3> QED BY <2>4, <3>1
  <2> QED BY <2>3, <2>7, <2>8
<1>2. CASE Probe
  <2> DEFINE mid == (left + right) \div 2
  <2>1. searching /\ left <= right /\ mid \in Nat /\ left <= mid /\ mid <= right
    BY <1>2 DEF Probe, GoesOn
  <2>2. PICK answered \in BOOLEAN :
          IF answered /\ mid <= depth
          THEN best' = mid /\ left' = mid + 1 /\ UNCHANGED <<right, missed>>
          ELSE /\ right' = mid - 1
               /\ missed' = (missed \/ ~answered)
               /\ UNCHANGED <<left, best>>
    BY <1>2 DEF Probe
  <2> HIDE DEF mid
  <2>3. UNCHANGED <<age, depth, cached, searching, pruned>>
    BY <1>2 DEF Probe
  <2>4. CASE answered /\ mid <= depth
    BY <2>1, <2>2, <2>3, <2>4
  <2>5. CASE ~(answered /\ mid <= depth)
    <3>1. /\ right' = mid - 1 /\ missed' = (missed \/ ~answered)
          /\ UNCHANGED <<left, best>>
      BY <2>2, <2>5
    <3>2. DepthTypes'
      BY <2>1, <2>3, <3>1
    <3>3. ~missed' => ~missed /\ depth <= right'
      <4>1. ~missed' => ~missed /\ answered
        BY <3>1
      <4> QED BY <2>1, <2>5, <3>1, <4>1
    <3>4. SearchNarrows'
      BY <2>1, <2>3, <3>1, <3>3
    <3>5. KeepsFound'
      BY <2>3, <3>1
    <3> QED BY <3>2, <3>4, <3>5
  <2> QED BY <2>4, <2>5
<1>3. CASE DepthFoundOut
  BY <1>3 DEF DepthFoundOut
<1>4. CASE DayPasses
  BY <1>4 DEF DayPasses
<1>5. CASE Prune
  BY <1>5 DEF Prune
<1>6. CASE UNCHANGED archive
  BY <1>6 DEF archive
<1> QED BY <1>1, <1>2, <1>3, <1>4, <1>5, <1>6 DEF DepthNext

(* A search of which no probe failed finds the archive's depth; one with   *)
(* failed probes finds no more than that, and no less than the search      *)
(* before it; until the archive is pruned.                                 *)
THEOREM DepthAlwaysFound == DepthSpec => []DepthFound
<1>1. DepthInit => DepthInv
  <2> SUFFICES ASSUME DepthInit PROVE DepthInv
    OBVIOUS
  <2>1. age \in Nat /\ depth \in Nat /\ depth <= age
    BY DepthAssumption DEF DepthInit
  <2>2. DepthTypes
    <3>1. searching \in BOOLEAN /\ missed \in BOOLEAN /\ pruned \in BOOLEAN
      BY Zenon DEF DepthInit
    <3> QED BY <2>1, <3>1 DEF DepthInit, DepthTypes
  <2>3. SearchNarrows /\ KeepsFound
    BY DEF DepthInit, SearchNarrows, KeepsFound
  <2> QED BY <2>2, <2>3 DEF DepthInv
<1>2. DepthInv /\ [DepthNext]_archive => DepthInv'
  BY DepthStep
<1>3. DepthInv => DepthFound
  BY DEF DepthInv, DepthTypes, SearchNarrows, KeepsFound, DepthFound, GoesOn
<1> QED BY <1>1, <1>2, <1>3, PTL DEF DepthSpec
------------------------------------------------------------------------------
(* The queries of a lite client.  While no two refresh() overlap, one that *)
(* is under way began without a reference and there is still none, and the *)
(* updater waits for the block after the reference: so it only moves on.   *)
(* Two can overlap only before there is a reference, when no answer has    *)
(* been about one, and none counts until their overlap is over.            *)
QueriesTypes ==
  /\ height \in Nat /\ last \in Nat /\ updaterSent \in Nat
  /\ waitsFor \in [Readers -> {"idle", "refresh", "query", "lost"}]
  /\ sentAt \in [Readers -> Nat] /\ readAt \in [Readers -> Nat] /\ floor \in [Readers -> Nat]

OneRefresh ==
  /\ AnyRefresh => last = 0
  /\ \A r, s \in Readers : waitsFor[r] = "refresh" /\ waitsFor[s] = "refresh" => r = s
  /\ updater = "refresh" => \A r \in Readers : waitsFor[r] # "refresh"
  /\ updater = "query" => last # 0 /\ updaterSent = last + 1

BehindReference ==
  \A r \in Readers : floor[r] <= last /\ (readAt[r] # 0 => readAt[r] >= floor[r])

NoFloor == \A r \in Readers : floor[r] = 0

QueriesInv ==
  /\ QueriesTypes
  /\ IF overlap THEN NoFloor ELSE OneRefresh /\ BehindReference

LEMMA QueriesTypesStep == QueriesTypes /\ [QueriesNext]_queries => QueriesTypes'
<1> SUFFICES ASSUME QueriesTypes, [QueriesNext]_queries PROVE QueriesTypes'
  OBVIOUS
<1> USE DEF QueriesTypes
<1>1. ASSUME NEW r \in Readers, NEW m \in LiteMethods, NEW tooMany \in BOOLEAN,
             Call(r, m, tooMany)
      PROVE  QueriesTypes'
  <2>1. UNCHANGED <<height, last, updaterSent>>
    BY <1>1 DEF Call
  <2>2. \/ \E how \in {"NotConnectedError", "ClientError"} : EndsCall(r, how, 0)
        \/ /\ waitsFor' = [waitsFor EXCEPT ![r] = "refresh"]
           /\ sentAt' = [sentAt EXCEPT ![r] = height] /\ UNCHANGED <<readAt, floor>>
        \/ \E b \in Nat : SendsQuery(r, b)
    BY <1>1 DEF Call
  <2> QED BY <2>1, <2>2 DEF EndsCall, SendsQuery
<1>2. ASSUME NEW r \in Readers, Refreshed(r) PROVE QueriesTypes'
  <2>1. last' \in Nat
    BY <1>2 DEF Refreshed, Since
  <2> QED BY <1>2, <2>1 DEF Refreshed, SendsQuery
<1>3. ASSUME NEW r \in Readers, Answered(r) \/ Fails(r) PROVE QueriesTypes'
  BY <1>3 DEF Answered, Fails, EndsCall
<1>4. CASE UpdaterTurn
  BY <1>4 DEF UpdaterTurn, tasks
<1>5. CASE UpdaterAnswered
  <2>1. last' \in Nat
    BY <1>5 DEF UpdaterAnswered, Since
  <2> QED BY <1>5, <2>1 DEF UpdaterAnswered, tasks
<1>6. CASE UpdaterFails \/ GoesOnline \/ NewBlock
  BY <1>6 DEF UpdaterFails, GoesOnline, NewBlock, tasks
<1>7. CASE LosesConnection
  BY <1>7 DEF LosesConnection
<1>8. CASE UNCHANGED queries
  BY <1>8 DEF queries, tasks
<1> QED BY <1>1, <1>2, <1>3, <1>4, <1>5, <1>6, <1>7, <1>8 DEF QueriesNext

(* An overlap begins without a reference, and ends with nobody asking for  *)
(* one.                                                                    *)
LEMMA OverlapsApart ==
  ASSUME QueriesInv, [QueriesNext]_queries, overlap \/ overlap'
  PROVE  IF overlap' THEN NoFloor' ELSE OneRefresh' /\ BehindReference'
<1> USE DEF QueriesInv, QueriesTypes, NoFloor
<1>1. NoFloor
  <2>1. CASE overlap
    BY <2>1
  <2>2. CASE ~overlap
    <3>1. AnyRefresh
      <4>1. ASSUME NEW r \in Readers, NEW m \in LiteMethods, NEW tooMany \in BOOLEAN,
                   Call(r, m, tooMany)
            PROVE  AnyRefresh
        BY <2>2, <4>1 DEF Call
      <4>2. CASE UpdaterTurn
        BY <2>2, <4>2 DEF UpdaterTurn
      <4>3. ASSUME NEW r \in Readers, Refreshed(r) \/ Answered(r) \/ Fails(r) PROVE FALSE
        BY <2>2, <4>3 DEF Refreshed, Answered, Fails, OverlapLasts
      <4>4. CASE UpdaterAnswered \/ UpdaterFails \/ LosesConnection
        BY <2>2, <4>4 DEF UpdaterAnswered, UpdaterFails, LosesConnection, OverlapLasts
      <4>5. CASE GoesOnline \/ NewBlock
        BY <2>2, <4>5 DEF GoesOnline, NewBlock
      <4>6. CASE UNCHANGED queries
        BY <2>2, <4>6 DEF queries
      <4> QED BY <4>1, <4>2, <4>3, <4>4, <4>5, <4>6 DEF QueriesNext
    <3> QED BY <2>2, <3>1 DEF OneRefresh, BehindReference
  <2> QED BY <2>1, <2>2
<1>2. NoFloor'
  <2>1. ASSUME NEW r \in Readers, NEW m \in LiteMethods, NEW tooMany \in BOOLEAN,
               Call(r, m, tooMany)
        PROVE  UNCHANGED floor
    <3>1. \/ \E how \in {"NotConnectedError", "ClientError"} : EndsCall(r, how, 0)
          \/ UNCHANGED floor
      BY <2>1 DEF Call, SendsQuery
    <3> QED BY <3>1 DEF EndsCall
  <2>2. ASSUME NEW r \in Readers, Answered(r) PROVE NoFloor'
    <3>1. overlap
      BY <2>2 DEF Answered
    <3> QED BY <1>1, <2>2, <3>1 DEF Answered, EndsCall
  <2>3. ASSUME NEW r \in Readers, Fails(r) PROVE UNCHANGED floor
    BY <2>3 DEF Fails, EndsCall
  <2>4. ASSUME NEW r \in Readers, Refreshed(r) PROVE UNCHANGED floor
    BY <2>4 DEF Refreshed, SendsQuery
  <2>5. CASE UpdaterTurn \/ UpdaterAnswered \/ UpdaterFails \/ LosesConnection
    <3>1. UNCHANGED floor
      BY <2>5 DEF UpdaterTurn, UpdaterAnswered, UpdaterFails, LosesConnection, tasks
    <3> QED BY <1>1, <3>1
  <2>6. CASE GoesOnline \/ NewBlock \/ UNCHANGED queries
    BY <2>6 DEF GoesOnline, NewBlock, tasks, queries
  <2> QED BY <1>1, <2>1, <2>2, <2>3, <2>4, <2>5, <2>6 DEF QueriesNext
<1>3. ASSUME ~overlap' PROVE ~Asking'
  <2>1. overlap
    BY <1>3
  <2>2. ASSUME NEW r \in Readers, NEW m \in LiteMethods, NEW tooMany \in BOOLEAN,
               Call(r, m, tooMany)
        PROVE  FALSE
    BY <1>3, <2>1, <2>2 DEF Call
  <2>3. ASSUME NEW r \in Readers, Refreshed(r) \/ Answered(r) \/ Fails(r) PROVE ~Asking'
    BY <1>3, <2>1, <2>3 DEF Refreshed, Answered, Fails, OverlapLasts
  <2>4. CASE \/ UpdaterTurn \/ UpdaterAnswered \/ UpdaterFails \/ GoesOnline \/ LosesConnection
             \/ NewBlock \/ UNCHANGED queries
    BY <1>3, <2>1, <2>4 DEF UpdaterTurn, UpdaterAnswered, UpdaterFails, GoesOnline,
                            LosesConnection, NewBlock, OverlapLasts, queries
  <2> QED BY <2>2, <2>3, <2>4 DEF QueriesNext
<1>4. QueriesTypes'
  BY QueriesTypesStep
<1>5. CASE overlap'
  BY <1>2, <1>5
<1>6. CASE ~overlap'
  <2>1. OneRefresh'
    BY <1>3, <1>6 DEF Asking, AnyRefresh, OneRefresh
  <2>2. BehindReference'
    BY <1>2, <1>4 DEF BehindReference
  <2> QED BY <1>6, <2>1, <2>2
<1> QED BY <1>5, <1>6

LEMMA QueriesStep == QueriesInv /\ [QueriesNext]_queries => QueriesInv'
<1> SUFFICES ASSUME QueriesInv, [QueriesNext]_queries, ~overlap, ~overlap'
             PROVE  OneRefresh' /\ BehindReference'
  BY QueriesTypesStep, OverlapsApart DEF QueriesInv
<1>1. QueriesTypes /\ QueriesTypes'
  BY QueriesTypesStep DEF QueriesInv
<1>2. ~overlap
  OBVIOUS
<1>3. OneRefresh /\ BehindReference
  BY <1>2 DEF QueriesInv
<1> USE <1>1, <1>3 DEF QueriesTypes, OneRefresh, BehindReference, AnyRefresh
<1>4. ASSUME NEW r \in Readers, NEW m \in LiteMethods, NEW tooMany \in BOOLEAN,
             Call(r, m, tooMany)
      PROVE  OneRefresh' /\ BehindReference'
  <2>1. CASE ~online \/ tooMany
    <3>1. UNCHANGED <<last, updater, updaterSent>>
      BY <1>4 DEF Call
    <3>2. \E how \in {"NotConnectedError", "ClientError"} : EndsCall(r, how, 0)
      BY <1>4, <2>1 DEF Call
    <3>3. /\ waitsFor' = [waitsFor EXCEPT ![r] = "idle"]
          /\ readAt' = [readAt EXCEPT ![r] = 0] /\ floor' = floor
      BY <3>2 DEF EndsCall
    <3> QED BY <3>1, <3>3
  <2>2. CASE online /\ ~tooMany /\ NeedsRefresh(m)
    <3>1. ~AnyRefresh
      BY <1>4, <2>2 DEF Call
    <3> QED BY <1>4, <2>2, <3>1 DEF Call, NeedsRefresh
  <2>3. CASE online /\ ~tooMany /\ ~NeedsRefresh(m)
    BY <1>4, <2>3 DEF Call, SendsQuery
  <2> QED BY <2>1, <2>2, <2>3
<1>5. ASSUME NEW r \in Readers, Refreshed(r) PROVE OneRefresh' /\ BehindReference'
  <2>1. last = 0 /\ \A s \in Readers : floor[s] = 0
    BY <1>5 DEF Refreshed
  <2>2. /\ waitsFor' = [waitsFor EXCEPT ![r] = "query"]
        /\ readAt' = [readAt EXCEPT ![r] = last'] /\ UNCHANGED <<floor, updater, updaterSent>>
    BY <1>5 DEF Refreshed, SendsQuery
  <2>3. updater # "refresh" /\ updater # "query"
    BY <1>5, <2>1 DEF Refreshed
  <2>4. \A s \in Readers : waitsFor'[s] # "refresh"
    BY <1>5, <2>2 DEF Refreshed
  <2>5. OneRefresh'
    BY <2>2, <2>3, <2>4
  <2>6. BehindReference'
    BY <2>1, <2>2
  <2> QED BY <2>5, <2>6
<1>6. ASSUME NEW r \in Readers, Answered(r) PROVE OneRefresh' /\ BehindReference'
  BY <1>6 DEF Answered, EndsCall
<1>7. ASSUME NEW r \in Readers, Fails(r) PROVE OneRefresh' /\ BehindReference'
  BY <1>7 DEF Fails, EndsCall
<1>8. CASE UpdaterTurn
  <2>1. updater' = "refresh" => ~AnyRefresh
    BY <1>8 DEF UpdaterTurn
  <2> QED BY <1>8, <2>1 DEF UpdaterTurn, tasks
<1>9. CASE UpdaterAnswered
  <2>1. last' >= last
    BY <1>9 DEF UpdaterAnswered, Since
  <2> QED BY <1>9, <2>1 DEF UpdaterAnswered, tasks
<1>10. CASE UpdaterFails \/ GoesOnline \/ NewBlock
  BY <1>10 DEF UpdaterFails, GoesOnline, NewBlock, tasks
<1>11. CASE LosesConnection
  BY <1>11 DEF LosesConnection
<1>12. CASE UNCHANGED queries
  BY <1>12 DEF queries, tasks
<1> QED BY <1>4, <1>5, <1>6, <1>7, <1>8, <1>9, <1>10, <1>11, <1>12 DEF QueriesNext

(* No query of a task is about an older block than one it has had an       *)
(* answer about, except while two refresh() and what overtakes them are    *)
(* under way.                                                              *)
THEOREM ReadsAlwaysGoForward == QueriesSpec => []ReadsGoForward
<1>1. QueriesInit => QueriesInv
  BY DEF QueriesInit, QueriesInv, QueriesTypes, OneRefresh, BehindReference, AnyRefresh
<1>2. QueriesInv /\ [QueriesNext]_queries => QueriesInv'
  BY QueriesStep
<1>3. QueriesInv => ReadsGoForward
  BY DEF QueriesInv, BehindReference, ReadsGoForward
<1> QED BY <1>1, <1>2, <1>3, PTL DEF QueriesSpec
------------------------------------------------------------------------------
(* The sessions: a task is in one queue, once, from when it waits until it *)
(* leaves, and one that closes a session holds its lock.                   *)
Waiting(u, c) == \E i \in DOMAIN lock[c] : lock[c][i] = u

Queues ==
  /\ stage \in [Tasks -> {"idle", "connect", "close", "closing"}]
  /\ lock \in [Clients -> Seq(Tasks)]
  /\ \A c \in Clients : NoneTwice(lock[c])
  /\ \A u \in Tasks, c, d \in Clients : Waiting(u, c) /\ Waiting(u, d) => c = d
  /\ \A u \in Tasks : stage[u] # "idle" <=> \E c \in Clients : Waiting(u, c)

ClosesAtHead ==
  /\ session \in [Clients -> {"none", "given", "open", "closed"}]
  /\ \A u \in Tasks, c \in Clients :
       Waiting(u, c) /\ stage[u] = "closing" => lock[c][1] = u /\ session[c] = "closed"

TransportInv == Queues /\ ClosesAtHead /\ NoSessionLost

LEMMA LeaveFacts ==
  ASSUME Queues, NEW u \in Tasks, NEW c \in Clients, Waiting(u, c), Leave(u, c)
  PROVE  /\ Queues'
         /\ \A v \in Tasks, d \in Clients : Waiting(v, d)' => Waiting(v, d) /\ v # u
         /\ \A d \in Clients : lock[d] # <<>> /\ lock[d][1] # u => lock'[d][1] = lock[d][1]
<1> DEFINE rest == Without(lock[c], u)
<1>1. lock[c] \in Seq(Tasks) /\ NoneTwice(lock[c])
  BY DEF Queues
<1>2. /\ rest \in Seq(Tasks) /\ NoneTwice(rest)
      /\ \A i \in DOMAIN rest : rest[i] # u /\ \E j \in DOMAIN lock[c] : rest[i] = lock[c][j]
      /\ \A j \in DOMAIN lock[c] : lock[c][j] # u => \E i \in DOMAIN rest : rest[i] = lock[c][j]
      /\ lock[c] # <<>> /\ lock[c][1] # u => rest[1] = lock[c][1]
  BY <1>1, WithoutFacts
<1> HIDE DEF rest
<1>3. /\ lock' = [lock EXCEPT ![c] = rest] /\ stage' = [stage EXCEPT ![u] = "idle"]
  BY DEF Leave, rest
<1>4. lock'[c] = rest /\ \A d \in Clients \ {c} : lock'[d] = lock[d]
  BY <1>3 DEF Queues
<1>5. ASSUME NEW v \in Tasks, NEW d \in Clients
      PROVE  Waiting(v, d)' <=> Waiting(v, d) /\ v # u
  <2>1. CASE d = c
    BY <1>2, <1>4, <2>1 DEF Waiting
  <2>2. CASE d # c
    <3>1. Waiting(v, d)' <=> Waiting(v, d)
      BY <1>4, <2>2 DEF Waiting
    <3>2. ~Waiting(u, d)
      BY <2>2 DEF Queues
    <3> QED BY <3>1, <3>2
  <2> QED BY <2>1, <2>2
<1>6. lock' \in [Clients -> Seq(Tasks)] /\ \A d \in Clients : NoneTwice(lock'[d])
  BY <1>2, <1>3, <1>4 DEF Queues
<1>7. /\ stage' \in [Tasks -> {"idle", "connect", "close", "closing"}]
      /\ stage'[u] = "idle" /\ \A v \in Tasks \ {u} : stage'[v] = stage[v]
  BY <1>3 DEF Queues
<1>8. Queues'
  <2>1. \A v \in Tasks, d, e \in Clients : Waiting(v, d)' /\ Waiting(v, e)' => d = e
    BY <1>5 DEF Queues
  <2>2. \A v \in Tasks : stage'[v] # "idle" <=> \E d \in Clients : Waiting(v, d)'
    BY <1>5, <1>7 DEF Queues
  <2> QED BY <1>6, <1>7, <2>1, <2>2 DEF Queues
<1>9. \A d \in Clients : lock[d] # <<>> /\ lock[d][1] # u => lock'[d][1] = lock[d][1]
  BY <1>2, <1>4
<1> QED BY <1>5, <1>8, <1>9

(* A task that joins a queue, at its end. *)
LEMMA JoinFacts ==
  ASSUME Queues, NEW u \in Tasks, NEW c \in Clients, stage[u] = "idle",
         NEW what \in {"connect", "close", "closing"},
         stage' = [stage EXCEPT ![u] = what], lock' = [lock EXCEPT ![c] = Append(@, u)]
  PROVE  /\ Queues'
         /\ \A v \in Tasks, d \in Clients : Waiting(v, d)' <=> Waiting(v, d) \/ (v = u /\ d = c)
         /\ \A d \in Clients : lock[d] # <<>> => lock'[d][1] = lock[d][1]
<1> DEFINE more == Append(lock[c], u)
<1>1. lock[c] \in Seq(Tasks) /\ NoneTwice(lock[c]) /\ ~Waiting(u, c)
  BY DEF Queues
<1>2. /\ more \in Seq(Tasks) /\ DOMAIN more = 1..Len(lock[c]) + 1
      /\ more[Len(lock[c]) + 1] = u /\ Len(lock[c]) \in Nat /\ DOMAIN lock[c] = 1..Len(lock[c])
      /\ \A i \in 1..Len(lock[c]) : more[i] = lock[c][i]
  BY <1>1
<1> HIDE DEF more
<1>3. lock'[c] = more /\ \A d \in Clients \ {c} : lock'[d] = lock[d]
  BY DEF Queues, more
<1>4. NoneTwice(more)
  <2>1. \A i, j \in 1..Len(lock[c]) : lock[c][i] = lock[c][j] => i = j
    BY <1>1, <1>2 DEF NoneTwice
  <2>2. \A i \in 1..Len(lock[c]) : lock[c][i] # u
    BY <1>1, <1>2 DEF Waiting
  <2>3. \A i \in DOMAIN more : i \in 1..Len(lock[c]) \/ i = Len(lock[c]) + 1
    BY <1>2
  <2>4. ASSUME NEW i \in DOMAIN more, NEW j \in DOMAIN more, more[i] = more[j] PROVE i = j
    BY <1>2, <2>1, <2>2, <2>3, <2>4
  <2> QED BY <2>4 DEF NoneTwice
<1>5. ASSUME NEW v \in Tasks, NEW d \in Clients
      PROVE  Waiting(v, d)' <=> Waiting(v, d) \/ (v = u /\ d = c)
  <2>1. CASE d = c
    <3>1. (\E i \in DOMAIN more : more[i] = v) <=> (\E i \in DOMAIN lock[c] : lock[c][i] = v) \/ v = u
      BY <1>2
    <3> QED BY <1>3, <2>1, <3>1 DEF Waiting
  <2>2. CASE d # c
    BY <1>3, <2>2 DEF Waiting
  <2> QED BY <2>1, <2>2
<1>6. lock' \in [Clients -> Seq(Tasks)] /\ \A d \in Clients : NoneTwice(lock'[d])
  <2>1. lock' = [lock EXCEPT ![c] = more]
    BY DEF more
  <2>2. lock' \in [Clients -> Seq(Tasks)]
    BY <1>2, <2>1 DEF Queues
  <2>3. ASSUME NEW d \in Clients PROVE NoneTwice(lock'[d])
    <3>1. NoneTwice(lock[d])
      BY DEF Queues
    <3> QED BY <1>3, <1>4, <3>1
  <2> QED BY <2>2, <2>3
<1>7. /\ stage' \in [Tasks -> {"idle", "connect", "close", "closing"}]
      /\ stage'[u] = what /\ \A v \in Tasks \ {u} : stage'[v] = stage[v]
  BY DEF Queues
<1>8. Queues'
  <2>1. \A v \in Tasks, d, e \in Clients : Waiting(v, d)' /\ Waiting(v, e)' => d = e
    BY <1>5 DEF Queues
  <2>2. \A v \in Tasks : stage'[v] # "idle" <=> \E d \in Clients : Waiting(v, d)'
    BY <1>5, <1>7 DEF Queues
  <2> QED BY <1>6, <1>7, <2>1, <2>2 DEF Queues
<1>9. \A d \in Clients : lock[d] # <<>> => lock'[d][1] = lock[d][1]
  BY <1>1, <1>2, <1>3
<1> QED BY <1>5, <1>8, <1>9

LEMMA TransportStep == TransportInv /\ [TransportNext]_transport => TransportInv'
<1> SUFFICES ASSUME TransportInv, [TransportNext]_transport PROVE TransportInv'
  OBVIOUS
<1>1. Queues /\ ClosesAtHead /\ NoSessionLost
  BY DEF TransportInv
<1>2. CASE UNCHANGED transport
  BY <1>1, <1>2
     DEF transport, TransportInv, Queues, ClosesAtHead, NoSessionLost, Waiting, NoneTwice
<1> SUFFICES ASSUME NEW u \in Tasks, NEW c \in Clients,
                    \/ Connect(u, c) \/ ConnectTurn(u, c) \/ Close(u, c)
                    \/ CloseTurn(u, c) \/ EndClose(u, c) \/ CancelTask(u, c)
             PROVE  TransportInv'
  BY <1>2 DEF TransportNext
(* What is left to show once the queues are known. *)
<1> DEFINE Closing == \E v \in Tasks : Waiting(v, c) /\ stage[v] = "closing"
<1>3. ASSUME NEW value \in {"none", "open", "closed"}, session' = [session EXCEPT ![c] = value],
             Queues',
             \A v \in Tasks, d \in Clients :
               Waiting(v, d)' /\ stage'[v] = "closing" =>
                 (Waiting(v, d) /\ stage[v] = "closing" /\ lock'[d][1] = lock[d][1])
                   \/ (d = c /\ value = "closed" /\ lock'[d][1] = v),
             Closing => value = "closed" \/ \A v \in Tasks : ~(Waiting(v, c)' /\ stage'[v] = "closing"),
             lost' \subseteq Borrowed
      PROVE  TransportInv'
  <2>1. session' \in [Clients -> {"none", "given", "open", "closed"}]
        /\ session'[c] = value /\ \A d \in Clients \ {c} : session'[d] = session[d]
    BY <1>1, <1>3 DEF ClosesAtHead
  <2>2. ASSUME NEW v \in Tasks, NEW d \in Clients, Waiting(v, d)', stage'[v] = "closing"
        PROVE  lock'[d][1] = v /\ session'[d] = "closed"
    BY <1>1, <1>3, <2>1, <2>2 DEF ClosesAtHead
  <2> QED BY <1>3, <2>1, <2>2 DEF TransportInv, ClosesAtHead, NoSessionLost
<1>4. ASSUME session' = session, lost' = lost, Queues',
             \A v \in Tasks, d \in Clients :
               Waiting(v, d)' /\ stage'[v] = "closing" =>
                 Waiting(v, d) /\ stage[v] = "closing" /\ lock'[d][1] = lock[d][1]
      PROVE  TransportInv'
  BY <1>1, <1>4 DEF TransportInv, ClosesAtHead, NoSessionLost
<1>5. ASSUME NEW what \in {"connect", "close"}, stage[u] = "idle", Queue(u, c, what)
      PROVE  TransportInv'
  <2>1. /\ Queues'
        /\ \A v \in Tasks, d \in Clients : Waiting(v, d)' <=> Waiting(v, d) \/ (v = u /\ d = c)
        /\ \A d \in Clients : lock[d] # <<>> => lock'[d][1] = lock[d][1]
    BY <1>1, <1>5, JoinFacts DEF Queue
  <2>2. stage'[u] = what /\ \A v \in Tasks \ {u} : stage'[v] = stage[v]
    BY <1>1, <1>5 DEF Queue, Queues
  <2>3. \A v \in Tasks, d \in Clients : Waiting(v, d) => lock[d] # <<>>
    BY DEF Waiting
  <2>4. session' = session /\ lost' = lost
    BY <1>5 DEF Queue
  <2> QED BY <1>4, <1>5, <2>1, <2>2, <2>3, <2>4
(* Only the holder of a lock may be closing. *)
<1>6. ASSUME Holds(u, c) PROVE Waiting(u, c) /\ lock[c][1] = u
  <2>1. lock[c] \in Seq(Tasks) /\ lock[c] # <<>> /\ Head(lock[c]) = u
    BY <1>1, <1>6 DEF Holds, Queues
  <2> QED BY <2>1 DEF Waiting
<1>7. lock[c] = <<>> => ~Closing
  BY DEF Waiting
<1>8. Holds(u, c) /\ stage[u] # "closing" => ~Closing
  BY <1>1, <1>6 DEF ClosesAtHead
<1> HIDE DEF Closing
<1>9. CASE Connect(u, c)
  <2>1. CASE Queue(u, c, "connect")
    BY <1>5, <1>9, <2>1 DEF Connect
  <2>2. CASE lock[c] = <<>> /\ EnsureSession(c) /\ UNCHANGED <<stage, lock>>
    <3>1. /\ session' = [session EXCEPT ![c] = "open"] /\ lost' = lost
      BY <1>9, <2>2 DEF Connect, EnsureSession, SetSession, Open
    <3>2. Queues' /\ \A v \in Tasks, d \in Clients : Waiting(v, d)' <=> Waiting(v, d)
      BY <1>1, <2>2 DEF Queues, Waiting, NoneTwice
    <3> QED BY <1>1, <1>3, <1>7, <2>2, <3>1, <3>2 DEF NoSessionLost
  <2> QED BY <1>9, <2>1, <2>2 DEF Connect
<1> DEFINE Left == Leave(u, c) /\ Waiting(u, c)
<1>10. ASSUME Left
       PROVE  /\ Queues'
              /\ \A v \in Tasks, d \in Clients :
                   Waiting(v, d)' /\ stage'[v] = "closing" =>
                     Waiting(v, d) /\ stage[v] = "closing" /\ lock'[d][1] = lock[d][1]
  <2>1. /\ Queues'
        /\ \A v \in Tasks, d \in Clients : Waiting(v, d)' => Waiting(v, d) /\ v # u
        /\ \A d \in Clients : lock[d] # <<>> /\ lock[d][1] # u => lock'[d][1] = lock[d][1]
    BY <1>1, <1>10, LeaveFacts
  <2>2. \A v \in Tasks \ {u} : stage'[v] = stage[v]
    BY <1>1, <1>10 DEF Leave, Queues
  <2>3. \A v \in Tasks, d \in Clients : Waiting(v, d) => lock[d] # <<>>
    BY DEF Waiting
  <2>4. \A v \in Tasks, d \in Clients :
          Waiting(v, d) /\ stage[v] = "closing" /\ v # u => lock[d][1] # u
    BY <1>1 DEF ClosesAtHead
  <2> QED BY <2>1, <2>2, <2>3, <2>4
<1> HIDE DEF Left
<1>11. CASE ConnectTurn(u, c)
  <2>1. Left /\ ~Closing
    BY <1>6, <1>8, <1>11 DEF ConnectTurn, Left
  <2>2. CASE Open(c)
    BY <1>4, <1>10, <1>11, <2>1, <2>2 DEF ConnectTurn, EnsureSession
  <2>3. CASE ~Open(c)
    <3>1. session' = [session EXCEPT ![c] = "open"] /\ lost' = lost
      BY <1>11, <2>3 DEF ConnectTurn, EnsureSession, SetSession, Open
    <3> QED BY <1>1, <1>3, <1>10, <2>1, <3>1 DEF NoSessionLost
  <2> QED BY <2>2, <2>3
<1>12. CASE CancelTask(u, c)
  <2>1. Left /\ session' = session /\ lost' = lost
    BY <1>12 DEF CancelTask, Left, Waiting
  <2> QED BY <1>4, <1>10, <2>1
<1>13. CASE EndClose(u, c)
  <2>1. Left /\ lock[c][1] = u /\ session[c] = "closed"
    BY <1>1, <1>6, <1>13 DEF EndClose, Left, ClosesAtHead
  <2>2. session' = [session EXCEPT ![c] = "none"] /\ lost' = lost
    BY <1>13, <2>1 DEF EndClose, SetSession
  <2>3. \A v \in Tasks : ~(Waiting(v, c)' /\ stage'[v] = "closing")
    <3>1. ASSUME NEW v \in Tasks, Waiting(v, c)', stage'[v] = "closing" PROVE FALSE
      <4>1. Waiting(v, c) /\ v # u
        BY <1>1, <1>13, <2>1, <3>1, LeaveFacts DEF Left
      <4>2. stage[v] = "closing"
        BY <1>10, <2>1, <3>1
      <4> QED BY <1>1, <2>1, <4>1, <4>2 DEF ClosesAtHead
    <3> QED BY <3>1
  <2> QED BY <1>1, <1>3, <1>10, <2>1, <2>2, <2>3 DEF NoSessionLost
(* close() that has the lock. *)
<1>14. ~(Owns(c) /\ Open(c)) /\ SetSession(c, "none") => lost' \subseteq Borrowed
  BY <1>1 DEF Owns, Open, SetSession, NoSessionLost
<1>15. CASE Close(u, c)
  <2>1. CASE lock[c] # <<>>
    BY <1>5, <1>15, <2>1 DEF Close
  <2>2. CASE lock[c] = <<>> /\ Owns(c) /\ Open(c)
    <3>1. /\ session' = [session EXCEPT ![c] = "closed"] /\ lost' = lost
          /\ stage' = [stage EXCEPT ![u] = "closing"]
          /\ lock' = [lock EXCEPT ![c] = <<u>> \o <<>>]
      BY <1>15, <2>2 DEF Close, BeginClose
    <3>2. <<u>> \o <<>> = Append(lock[c], u)
      BY <2>2
    <3>3. /\ Queues'
          /\ \A v \in Tasks, d \in Clients : Waiting(v, d)' <=> Waiting(v, d) \/ (v = u /\ d = c)
          /\ \A d \in Clients : lock[d] # <<>> => lock'[d][1] = lock[d][1]
      <4>1. lock' = [lock EXCEPT ![c] = Append(@, u)]
        BY <3>1, <3>2
      <4>2. stage[u] = "idle"
        BY <1>15 DEF Close
      <4> QED BY <1>1, <3>1, <4>1, <4>2, JoinFacts
    <3>4. lock'[c][1] = u /\ \A v \in Tasks \ {u} : stage'[v] = stage[v]
      BY <1>1, <2>2, <3>1, <3>2 DEF Queues
    <3>5. \A v \in Tasks, d \in Clients : Waiting(v, d) => lock[d] # <<>>
      BY DEF Waiting
    <3>6. ASSUME NEW v \in Tasks, NEW d \in Clients, Waiting(v, d)', stage'[v] = "closing"
          PROVE  \/ Waiting(v, d) /\ stage[v] = "closing" /\ lock'[d][1] = lock[d][1]
                 \/ d = c /\ lock'[d][1] = v
      <4>1. CASE Waiting(v, d)
        <5>1. v # u
          BY <1>1, <1>15, <4>1 DEF Close, Queues
        <5> QED BY <3>3, <3>4, <3>5, <3>6, <4>1, <5>1
      <4>2. CASE ~Waiting(v, d)
        BY <3>3, <3>4, <3>6, <4>2
      <4> QED BY <4>1, <4>2
    <3>7. lost' \subseteq Borrowed
      BY <1>1, <3>1 DEF NoSessionLost
    <3> QED BY <1>3, <3>1, <3>3, <3>6, <3>7
  <2>3. CASE lock[c] = <<>> /\ ~(Owns(c) /\ Open(c))
    <3>1. /\ SetSession(c, "none") /\ stage' = [stage EXCEPT ![u] = "idle"]
          /\ lock' = [lock EXCEPT ![c] = <<>>]
      BY <1>15, <2>3 DEF Close, BeginClose
    <3>2. stage' = stage /\ lock' = lock
      BY <1>1, <1>15, <2>3, <3>1 DEF Close, Queues
    <3>3. Queues' /\ \A v \in Tasks, d \in Clients : Waiting(v, d)' <=> Waiting(v, d)
      BY <1>1, <3>2 DEF Queues, Waiting, NoneTwice
    <3>4. session' = [session EXCEPT ![c] = "none"]
      BY <3>1 DEF SetSession
    <3> QED BY <1>3, <1>7, <1>14, <2>3, <3>1, <3>2, <3>3, <3>4
  <2> QED BY <2>1, <2>2, <2>3
<1>16. CASE CloseTurn(u, c)
  <2>1. stage[u] = "close" /\ Waiting(u, c) /\ lock[c][1] = u /\ ~Closing
    BY <1>6, <1>8, <1>16 DEF CloseTurn
  <2>2. lock[c] \in Seq(Tasks) /\ NoneTwice(lock[c]) /\ lock[c] # <<>> /\ Head(lock[c]) = u
    BY <1>1, <1>16 DEF CloseTurn, Holds, Queues
  <2>3. CASE Owns(c) /\ Open(c)
    <3>1. /\ session' = [session EXCEPT ![c] = "closed"] /\ lost' = lost
          /\ stage' = [stage EXCEPT ![u] = "closing"]
          /\ lock' = [lock EXCEPT ![c] = <<u>> \o Tail(lock[c])]
      BY <1>16, <2>3 DEF CloseTurn, BeginClose
    <3>2. lock' = lock
      <4>1. <<u>> \o Tail(lock[c]) = lock[c]
        BY <2>2
      <4> QED BY <1>1, <3>1, <4>1 DEF Queues
    <3>3. /\ stage' \in [Tasks -> {"idle", "connect", "close", "closing"}]
          /\ stage'[u] = "closing" /\ \A v \in Tasks \ {u} : stage'[v] = stage[v]
      BY <1>1, <3>1 DEF Queues
    <3>4. \A v \in Tasks, d \in Clients : Waiting(v, d)' <=> Waiting(v, d)
      BY <3>2 DEF Waiting
    <3>5. \A v \in Tasks : stage'[v] # "idle" <=> \E d \in Clients : Waiting(v, d)'
      BY <1>1, <2>1, <3>3, <3>4 DEF Queues
    <3>6. Queues'
      BY <1>1, <3>2, <3>3, <3>4, <3>5 DEF Queues, NoneTwice
    <3>7. \A d \in Clients : Waiting(u, d) => d = c
      BY <1>1, <2>1 DEF Queues
    <3> QED BY <1>1, <1>3, <2>1, <3>1, <3>2, <3>3, <3>4, <3>6, <3>7 DEF NoSessionLost
  <2>4. CASE ~(Owns(c) /\ Open(c))
    <3>1. /\ SetSession(c, "none") /\ stage' = [stage EXCEPT ![u] = "idle"]
          /\ lock' = [lock EXCEPT ![c] = Tail(lock[c])]
      BY <1>16, <2>4 DEF CloseTurn, BeginClose
    <3>2. Left
      <4>1. Without(lock[c], u) = Tail(lock[c])
        BY <2>2, WithoutHead
      <4> QED BY <2>1, <3>1, <4>1 DEF Left, Leave
    <3>3. session' = [session EXCEPT ![c] = "none"]
      BY <3>1 DEF SetSession
    <3> QED BY <1>3, <1>10, <1>14, <2>1, <2>4, <3>1, <3>2, <3>3
  <2> QED BY <2>3, <2>4
<1> QED BY <1>9, <1>11, <1>12, <1>13, <1>15, <1>16

(* A transport that makes its own sessions never lets go of an open one,   *)
(* for any number of clients and of tasks that connect, close or are       *)
(* cancelled.                                                              *)
THEOREM NoSessionEverLost == TransportSpec => []NoSessionLost
<1>1. TransportInit => TransportInv
  BY TransportAssumption
     DEF TransportInit, TransportInv, Queues, ClosesAtHead, NoSessionLost, Waiting, NoneTwice
<1>2. TransportInv /\ [TransportNext]_transport => TransportInv'
  BY TransportStep
<1>3. TransportInv => NoSessionLost
  BY DEF TransportInv
<1> QED BY <1>1, <1>2, <1>3, PTL DEF TransportSpec
------------------------------------------------------------------------------
(* The retries of one call. *)
LEMMA MinOfTwo ==
  ASSUME NEW a \in Nat, NEW b \in Nat
  PROVE  Min({a, b}) \in {a, b} /\ Min({a, b}) <= a /\ Min({a, b}) <= b
<1>1. \E x \in {a, b} : \A y \in {a, b} : x <= y
  <2>1. CASE a <= b
    BY <2>1
  <2>2. CASE ~(a <= b)
    BY <2>2
  <2> QED BY <2>1, <2>2
<1> QED BY <1>1 DEF Min

(* Another attempt is within what the rule it counts for allows, and its   *)
(* sleep ends before the timeout.                                          *)
LEMMA AfterErrorFacts ==
  ASSUME NEW rules, IsPolicy(rules), NEW soFar \in [DOMAIN rules -> Nat],
         \A i \in DOMAIN rules : soFar[i] < rules[i].max_retries,
         NEW timeout \in Nat, NEW spent \in Nat, NEW error,
         AfterError(rules, timeout, soFar, spent, error).verdict = "again"
  PROVE  LET after == AfterError(rules, timeout, soFar, spent, error)
         IN /\ after.counts \in [DOMAIN rules -> Nat]
            /\ \A i \in DOMAIN rules : after.counts[i] < rules[i].max_retries
            /\ after.delay \in Nat /\ spent + after.delay <= timeout
<1> DEFINE i == RuleFor(rules, error)
           n == soFar[i] + 1
           delay == DelayForAttempt(rules[i], n - 1)
           after == AfterError(rules, timeout, soFar, spent, error)
           matching == {j \in DOMAIN rules : Matches(rules[j], error)}
<1>1. /\ i # 0 /\ ~(n >= rules[i].max_retries) /\ ~PastDeadline(timeout, spent, delay)
      /\ after.counts = [soFar EXCEPT ![i] = n] /\ after.delay = delay
  BY Zenon DEF AfterError
<1>2. i \in DOMAIN rules
  <2>1. matching # {} /\ i = Min(matching)
    BY <1>1 DEF RuleFor
  <2> HIDE DEF i
  <2>2. matching \subseteq Nat /\ matching \subseteq DOMAIN rules
    BY DEF IsPolicy
  <2> HIDE DEF matching
  <2>3. \E x \in matching : \A y \in matching : x <= y
    BY <2>1, <2>2, LeastNat
  <2> QED BY <2>1, <2>2, <2>3 DEF Min
<1> HIDE DEF i
<1>3. /\ n \in Nat /\ n - 1 \in Nat /\ rules[i].max_retries \in Nat
      /\ rules[i].base_delay \in Nat /\ rules[i].max_delay \in Nat
  BY <1>2 DEF IsPolicy
<1> HIDE DEF n
<1>4. delay \in Nat
  <2> DEFINE grown == rules[i].base_delay * PowerOfTwo[n - 1]
             most == rules[i].max_delay
  <2>1. PowerOfTwo[n - 1] \in Nat
    BY <1>3, PowerOfTwoFacts
  <2>2. grown \in Nat /\ most \in Nat
    BY <1>3, <2>1
  <2>3. delay = Min({grown, most})
    BY DEF DelayForAttempt
  <2> HIDE DEF grown, most, delay
  <2> QED BY <2>2, <2>3, MinOfTwo
<1> HIDE DEF delay
<1>5. spent + delay <= timeout
  BY <1>1, <1>4 DEF PastDeadline
<1>6. [soFar EXCEPT ![i] = n] \in [DOMAIN rules -> Nat]
  BY <1>3
<1>7. ASSUME NEW j \in DOMAIN rules PROVE [soFar EXCEPT ![i] = n][j] < rules[j].max_retries
  BY <1>1, <1>2, <1>3
<1> QED BY <1>1, <1>4, <1>5, <1>6, <1>7
------------------------------------------------------------------------------
(* The requests over the HTTP balancer: which client one is with, the last *)
(* of those it has tried, of which no two in a row are one; its retries.   *)
RetryTypes ==
  /\ counts = [r \in Requests |-> counts[r]]
  /\ \A r \in Requests : counts[r] \in [IF on[r] = 0 THEN {} ELSE DOMAIN Policy[on[r]] -> Nat]
  /\ passed \in [Requests -> Nat] /\ pause \in [Requests -> Nat]

RequestTypes ==
  /\ pc \in [Requests -> InFlight \cup Ended] /\ on \in [Requests -> 0..NClients]
  /\ tried \in [Requests -> Seq(Clients)]
  /\ errors \in [Clients -> Nat] /\ cool \in [Clients -> Nat]

InTurn(at, calls) ==
  /\ at # 0 /\ calls # <<>> /\ calls[Len(calls)] = at
  /\ \A i \in 1..Len(calls) - 1 : calls[i] # calls[i + 1]
FailedBefore ==
  \A r \in Requests :
    /\ pc[r] \in InFlight => InTurn(on[r], tried[r])
    /\ pc[r] \notin InFlight => on[r] = 0 /\ tried[r] = <<>>

BalancerInv == RequestTypes /\ RetryTypes /\ FailedBefore /\ RetriesWithinPolicy

LEMMA CooldownFacts ==
  ASSUME NEW unit \in {1, 2}, NEW n \in Nat, n >= 1
  PROVE  Cooldown(unit, n) \in Nat /\ Cooldown(unit, n) > 0
<1> DEFINE grown == unit * PowerOfTwo[n - 1]
<1>1. PowerOfTwo[n - 1] \in Nat \ {0}
  BY PowerOfTwoFacts
<1>2. grown \in Nat /\ grown > 0 /\ MaxCool \in Nat /\ MaxCool > 0
  BY <1>1, BalancerAssumption
<1>3. Cooldown(unit, n) = Min({grown, MaxCool})
  BY DEF Cooldown
<1> HIDE DEF grown
<1>4. Cooldown(unit, n) \in {grown, MaxCool}
  BY <1>2, <1>3, MinOfTwo
<1> QED BY <1>2, <1>4

LEMMA EndFacts ==
  ASSUME BalancerInv, NEW r \in Requests, NEW how \in Ended, End(r, how),
         errors' \in [Clients -> Nat], cool' \in [Clients -> Nat]
  PROVE  BalancerInv'
<1> USE DEF BalancerInv, RequestTypes, RetryTypes, FailedBefore, RetriesWithinPolicy, End, Set
<1>1. RequestTypes'
  <2>1. 0 \in 0..NClients
    BY TransportAssumption
  <2> QED BY <2>1 DEF Ended
<1>2. /\ counts' = [q \in Requests |-> IF q = r THEN <<>> ELSE counts[q]]
      /\ on' = [on EXCEPT ![r] = 0] /\ pc' = [pc EXCEPT ![r] = how]
      /\ passed' = [passed EXCEPT ![r] = 0] /\ pause' = [pause EXCEPT ![r] = 0]
  OBVIOUS
<1>3. RetryTypes'
  <2>1. <<>> \in [{} -> Nat]
    OBVIOUS
  <2>2. passed' \in [Requests -> Nat] /\ pause' \in [Requests -> Nat]
    BY <1>2
  <2>3. counts' = [q \in Requests |-> counts'[q]]
    BY <1>2
  <2>4. ASSUME NEW q \in Requests
        PROVE  counts'[q] \in [IF on'[q] = 0 THEN {} ELSE DOMAIN Policy[on'[q]] -> Nat]
    BY <1>2, <2>1
  <2> QED BY <2>2, <2>3, <2>4
<1>4. FailedBefore'
  BY DEF InFlight, Ended
<1>5. RetriesWithinPolicy'
  <2>1. ASSUME NEW q \in Requests
        PROVE  /\ \A i \in DOMAIN counts'[q] : counts'[q][i] < Policy[on'[q]][i].max_retries
               /\ pc'[q] = "sleep" => passed'[q] + pause'[q] <= TotalTimeout
    <3>1. CASE q = r
      BY <1>2, <3>1 DEF Ended
    <3>2. CASE q # r
      BY <1>2, <3>2
    <3> QED BY <3>1, <3>2
  <2> QED BY <2>1
<1> QED BY <1>1, <1>3, <1>4, <1>5

LEMMA StillInTurn ==
  ASSUME NEW at, NEW calls \in Seq(Clients), NEW c \in Clients, c # at, c # 0,
         calls = <<>> \/ InTurn(at, calls)
  PROVE  InTurn(c, Append(calls, c))
<1> DEFINE more == Append(calls, c)
           k == Len(calls)
<1>1. /\ k \in Nat /\ Len(more) = k + 1 /\ more[k + 1] = c
      /\ \A i \in 1..k : more[i] = calls[i]
  OBVIOUS
<1>2. more # <<>>
  <2>1. Len(<<>>) = 0 /\ Len(more) # 0
    BY <1>1
  <2> QED BY <2>1
<1>3. calls # <<>> => calls[k] = at /\ \A i \in 1..k - 1 : calls[i] # calls[i + 1]
  BY DEF InTurn
<1>4. k >= 1 => calls # <<>>
  OBVIOUS
<1> HIDE DEF more, k
<1>5. ASSUME NEW i \in 1..k PROVE more[i] # more[i + 1]
  <2>1. calls # <<>>
    BY <1>1, <1>4
  <2>2. CASE i = k
    BY <1>1, <1>3, <2>1, <2>2
  <2>3. CASE i # k
    <3>1. i \in 1..k - 1 /\ i + 1 \in 1..k
      BY <1>1, <2>3
    <3> QED BY <1>1, <1>3, <2>1, <3>1
  <2> QED BY <2>2, <2>3
<1>6. Len(more) - 1 = k /\ more[Len(more)] = c
  BY <1>1
<1> QED BY <1>2, <1>5, <1>6 DEF InTurn, more

(* The next attempt of the failover loop is with another client. *)
LEMMA NextAttemptFacts ==
  ASSUME BalancerInv, NEW r \in Requests, NEW cl, NEW er, NextAttempt(r, cl, er),
         on[r] \notin Alive(cl), errors' \in [Clients -> Nat], cool' \in [Clients -> Nat]
  PROVE  /\ BalancerInv'
         /\ \A q \in Requests \ {r} : pc'[q] = pc[q]
         /\ pc'[r] = "exhausted" => Len(tried[r]) = NClients \/ Alive(cl) = {}
<1>1. CASE Len(tried[r]) = NClients \/ Alive(cl) = {}
  <2>1. End(r, "exhausted")
    BY <1>1 DEF NextAttempt
  <2>2. BalancerInv'
    BY <2>1, EndFacts DEF Ended
  <2> QED BY <1>1, <2>1, <2>2 DEF End, Set, BalancerInv, RequestTypes
<1>2. CASE ~(Len(tried[r]) = NClients \/ Alive(cl) = {})
  <2>1. PICK c \in Alive(cl) :
          /\ on' = Set(on, r, c) /\ tried' = Set(tried, r, Append(tried[r], c)) /\ Attempt(r, c)
          /\ counts' = Set(counts, r, FreshCounts(Policy[c]))
          /\ passed' = Set(passed, r, 0) /\ pause' = Set(pause, r, 0)
    BY <1>2 DEF NextAttempt
  <2>2. /\ c \in Clients /\ c # on[r] /\ c \in 1..NClients /\ c # 0 /\ NClients \in Nat
        /\ IsPolicy(Policy[c])
    BY TransportAssumption, BalancerAssumption DEF Alive, Clients
  <2>3. PICK where \in {"limiter", "sent"} : pc' = [pc EXCEPT ![r] = where]
    BY <2>1 DEF Attempt, Set
  <2> DEFINE fresh == FreshCounts(Policy[c])
  <2>4. /\ fresh \in [DOMAIN Policy[c] -> Nat]
        /\ \A i \in DOMAIN fresh : fresh[i] < Policy[c][i].max_retries
    BY <2>2 DEF FreshCounts, IsPolicy
  <2> HIDE DEF fresh
  <2>5. /\ on' = [on EXCEPT ![r] = c] /\ tried' = [tried EXCEPT ![r] = Append(tried[r], c)]
        /\ counts' = [q \in Requests |-> IF q = r THEN fresh ELSE counts[q]]
        /\ passed' = [passed EXCEPT ![r] = 0] /\ pause' = [pause EXCEPT ![r] = 0]
    BY <2>1 DEF BalancerInv, RetryTypes, Set, fresh
  <2> USE DEF BalancerInv, RequestTypes, RetryTypes, FailedBefore, RetriesWithinPolicy
  <2>6. RequestTypes'
    <3>1. Append(tried[r], c) \in Seq(Clients)
      BY <2>2
    <3> QED BY <2>2, <2>3, <2>5, <3>1 DEF InFlight
  <2>7. RetryTypes'
    <3>1. counts' = [q \in Requests |-> counts'[q]] /\ passed' \in [Requests -> Nat] /\ pause' \in [Requests -> Nat]
      BY <2>5
    <3>2. ASSUME NEW q \in Requests
          PROVE  counts'[q] \in [IF on'[q] = 0 THEN {} ELSE DOMAIN Policy[on'[q]] -> Nat]
      BY <2>2, <2>4, <2>5
    <3> QED BY <3>1, <3>2
  <2>8. FailedBefore'
    <3>1. ASSUME NEW q \in Requests, q # r
          PROVE  pc'[q] = pc[q] /\ on'[q] = on[q] /\ tried'[q] = tried[q]
      BY <2>3, <2>5, <3>1
    <3>2. /\ pc'[r] \in InFlight /\ on'[r] = c /\ tried'[r] = Append(tried[r], c)
          /\ tried[r] \in Seq(Clients)
      BY <2>3, <2>5 DEF InFlight
    <3>3. tried[r] = <<>> \/ InTurn(on[r], tried[r])
      OBVIOUS
    <3>4. InTurn(c, Append(tried[r], c))
      BY <2>2, <3>2, <3>3, StillInTurn
    <3>5. \A q \in Requests :
            /\ pc'[q] \in InFlight => InTurn(on'[q], tried'[q])
            /\ pc'[q] \notin InFlight => on'[q] = 0 /\ tried'[q] = <<>>
      BY <3>1, <3>2, <3>4
    <3> QED BY <3>5 DEF InTurn
  <2>9. RetriesWithinPolicy'
    <3>1. ASSUME NEW q \in Requests
          PROVE  /\ \A i \in DOMAIN counts'[q] : counts'[q][i] < Policy[on'[q]][i].max_retries
                 /\ pc'[q] = "sleep" => passed'[q] + pause'[q] <= TotalTimeout
      BY <2>2, <2>3, <2>4, <2>5
    <3> QED BY <3>1
  <2>10. \A q \in Requests \ {r} : pc'[q] = pc[q]
    BY <2>3
  <2>11. pc'[r] # "exhausted"
    BY <2>3
  <2> QED BY <2>6, <2>7, <2>8, <2>9, <2>10, <2>11
<1> QED BY <1>1, <1>2

(* A request that fails over to a client has put its own into a cooldown. *)
LEMMA FailOverFacts ==
  ASSUME BalancerInv, NEW r \in Requests, pc[r] \in InFlight, NEW limited \in BOOLEAN,
         FailOver(r, limited)
  PROVE  /\ BalancerInv'
         /\ \A q \in Requests \ {r} : pc'[q] = pc[q]
         /\ pc'[r] = "exhausted" => Len(tried[r]) = NClients \/ Alive(cool)' = {}
<1> DEFINE n == Min({errors[on[r]] + 1, MaxErrors})
           er == [errors EXCEPT ![on[r]] = n]
           cl == [cool EXCEPT ![on[r]] = Cooldown(IF limited THEN 2 ELSE 1, n)]
<1>1. /\ on[r] \in Clients /\ errors \in [Clients -> Nat] /\ cool \in [Clients -> Nat]
  BY DEF BalancerInv, RequestTypes, FailedBefore, InTurn, Clients
<1>2. n \in Nat /\ n >= 1
  <2> DEFINE more == errors[on[r]] + 1
  <2>1. more \in Nat /\ more >= 1 /\ MaxErrors \in Nat /\ MaxErrors >= 1
    BY <1>1, BalancerAssumption
  <2>2. n = Min({more, MaxErrors})
    OBVIOUS
  <2> HIDE DEF more, n
  <2>3. n \in {more, MaxErrors}
    BY <2>1, <2>2, MinOfTwo
  <2> QED BY <2>1, <2>3
<1>3. errors' = er /\ cool' = cl /\ NextAttempt(r, cl, er) /\ session' = session
  BY DEF FailOver, transport
<1> HIDE DEF n
<1>4. /\ Cooldown(IF limited THEN 2 ELSE 1, n) \in Nat
      /\ Cooldown(IF limited THEN 2 ELSE 1, n) > 0
  BY <1>2, CooldownFacts
<1>5. /\ er \in [Clients -> Nat] /\ cl \in [Clients -> Nat] /\ cl[on[r]] > 0
  BY <1>1, <1>2, <1>4
<1> HIDE DEF er, cl
<1>6. on[r] \notin Alive(cl)
  BY <1>5 DEF Alive
<1>7. Alive(cool)' = Alive(cl)
  BY <1>3 DEF Alive, Open
<1>8. errors' \in [Clients -> Nat] /\ cool' \in [Clients -> Nat]
  BY <1>3, <1>5
<1> QED BY <1>3, <1>6, <1>7, <1>8, NextAttemptFacts

LEMMA SucceedFacts ==
  ASSUME BalancerInv, NEW r \in Requests, pc[r] \in InFlight, Succeed(r)
  PROVE  BalancerInv'
<1>1. errors' \in [Clients -> Nat] /\ cool' \in [Clients -> Nat]
  BY DEF Succeed, MarkSuccess, BalancerInv, RequestTypes
<1>2. End(r, "ended") /\ "ended" \in Ended
  BY DEF Succeed, Ended
<1> QED BY <1>1, <1>2, EndFacts

(* A step in which a request only moves on with its client. *)
LEMMA StaysFacts ==
  ASSUME BalancerInv, NEW r \in Requests, pc[r] \in InFlight,
         NEW where \in {"limiter", "sent"}, pc' = [pc EXCEPT ![r] = where],
         UNCHANGED <<choice, on, tried, retries>>
  PROVE  BalancerInv'
<1> USE DEF BalancerInv, choice, retries
<1>1. RequestTypes'
  BY DEF RequestTypes, InFlight
<1>2. RetryTypes'
  BY DEF RetryTypes
<1>3. FailedBefore'
  BY DEF RequestTypes, FailedBefore, InFlight
<1>4. RetriesWithinPolicy'
  BY DEF RequestTypes, RetriesWithinPolicy
<1> QED BY <1>1, <1>2, <1>3, <1>4

LEMMA RetryFacts ==
  ASSUME BalancerInv, NEW r \in Requests, pc[r] \in InFlight, NEW error,
         AfterError(Policy[on[r]], TotalTimeout, counts[r], passed[r], error).verdict = "again",
         HttpError(r, error)
  PROVE  BalancerInv' /\ pc'[r] = "sleep" /\ \A q \in Requests \ {r} : pc'[q] = pc[q]
<1> DEFINE after == AfterError(Policy[on[r]], TotalTimeout, counts[r], passed[r], error)
<1> USE DEF BalancerInv
<1>1. /\ on[r] \in Clients /\ on[r] # 0 /\ IsPolicy(Policy[on[r]]) /\ TotalTimeout \in Nat
  BY BalancerAssumption DEF RequestTypes, FailedBefore, InTurn, Clients
<1>2. /\ counts[r] \in [DOMAIN Policy[on[r]] -> Nat] /\ passed[r] \in Nat
      /\ \A i \in DOMAIN Policy[on[r]] : counts[r][i] < Policy[on[r]][i].max_retries
  BY <1>1 DEF RetryTypes, RetriesWithinPolicy
<1>3. /\ after.counts \in [DOMAIN Policy[on[r]] -> Nat]
      /\ \A i \in DOMAIN Policy[on[r]] : after.counts[i] < Policy[on[r]][i].max_retries
      /\ after.delay \in Nat /\ passed[r] + after.delay <= TotalTimeout
  BY <1>1, <1>2, AfterErrorFacts
<1>4. /\ pc' = [pc EXCEPT ![r] = "sleep"] /\ counts' = [counts EXCEPT ![r] = after.counts]
      /\ pause' = [pause EXCEPT ![r] = after.delay]
      /\ UNCHANGED <<transport, choice, on, tried, passed>>
  BY DEF HttpError, Set
<1> HIDE DEF after
<1>5. counts' = [q \in Requests |-> IF q = r THEN after.counts ELSE counts[q]]
  BY <1>4 DEF RetryTypes
<1>6. RequestTypes'
  BY <1>4 DEF RequestTypes, InFlight, choice
<1>7. RetryTypes'
  <2>1. /\ counts' = [q \in Requests |-> counts'[q]] /\ passed' \in [Requests -> Nat]
        /\ pause' \in [Requests -> Nat]
    BY <1>3, <1>4, <1>5 DEF RetryTypes
  <2>2. ASSUME NEW q \in Requests
        PROVE  counts'[q] \in [IF on'[q] = 0 THEN {} ELSE DOMAIN Policy[on'[q]] -> Nat]
    BY <1>1, <1>3, <1>4, <1>5 DEF RetryTypes
  <2> QED BY <2>1, <2>2 DEF RetryTypes
<1>8. FailedBefore'
  BY <1>4 DEF RequestTypes, FailedBefore, InFlight
<1>9. RetriesWithinPolicy'
  <2>1. ASSUME NEW q \in Requests
        PROVE  /\ \A i \in DOMAIN counts'[q] : counts'[q][i] < Policy[on'[q]][i].max_retries
               /\ pc'[q] = "sleep" => passed'[q] + pause'[q] <= TotalTimeout
    <3>1. CASE q = r
      BY <1>3, <1>4, <1>5, <3>1 DEF RetryTypes
    <3>2. CASE q # r
      BY <1>4, <1>5, <3>2 DEF RetryTypes, RequestTypes, RetriesWithinPolicy
    <3> QED BY <3>1, <3>2
  <2> QED BY <2>1 DEF RetriesWithinPolicy
<1>10. pc'[r] = "sleep" /\ \A q \in Requests \ {r} : pc'[q] = pc[q]
  BY <1>4 DEF RequestTypes
<1> QED BY <1>6, <1>7, <1>8, <1>9, <1>10

(* Why a call gives up.                                                    *)
Exhausted(r) ==
  pc'[r] = "exhausted" /\ pc[r] # "exhausted" => Len(tried[r]) = NClients \/ Alive(cool)' = {}

LEMMA BalancerStep ==
  ASSUME BalancerInv, Next PROVE BalancerInv' /\ \A r \in Requests : Exhausted(r)
<1> DEFINE Goal == BalancerInv' /\ \A r \in Requests : Exhausted(r)
<1>1. ASSUME BalancerInv', NEW r \in Requests, pc'[r] = "exhausted" => Exhausted(r),
             \A q \in Requests \ {r} : pc'[q] = pc[q]
      PROVE  Goal
  BY <1>1 DEF Exhausted
<1>2. ASSUME NEW r \in Requests, End(r, "ended"), UNCHANGED <<errors, cool>> PROVE Goal
  <2>1. BalancerInv'
    <3>1. errors' \in [Clients -> Nat] /\ cool' \in [Clients -> Nat] /\ "ended" \in Ended
      BY <1>2 DEF BalancerInv, RequestTypes, Ended
    <3> QED BY <1>2, <3>1, EndFacts
  <2>2. pc'[r] # "exhausted" /\ \A q \in Requests \ {r} : pc'[q] = pc[q]
    BY <1>2 DEF End, Set, BalancerInv, RequestTypes
  <2> QED BY <1>1, <2>1, <2>2
<1>3. ASSUME NEW r \in Requests, NEW where \in {"limiter", "sent"}, pc[r] \in InFlight,
             pc' = [pc EXCEPT ![r] = where],
             UNCHANGED <<choice, on, tried, retries>>
      PROVE  Goal
  <2>1. BalancerInv'
    BY <1>3, StaysFacts
  <2>2. pc'[r] # "exhausted" /\ \A q \in Requests \ {r} : pc'[q] = pc[q]
    BY <1>3 DEF BalancerInv, RequestTypes
  <2> QED BY <1>1, <2>1, <2>2
<1>4. ASSUME NEW r \in Requests, pc[r] \in InFlight, NEW limited \in BOOLEAN, FailOver(r, limited)
      PROVE  Goal
  BY <1>1, <1>4, FailOverFacts DEF Exhausted
<1>5. ASSUME NEW r \in Requests, pc[r] \in InFlight, Succeed(r) PROVE Goal
  <2>1. BalancerInv'
    BY <1>5, SucceedFacts
  <2>2. pc'[r] # "exhausted" /\ \A q \in Requests \ {r} : pc'[q] = pc[q]
    BY <1>5 DEF Succeed, End, Set, BalancerInv, RequestTypes
  <2> QED BY <1>1, <2>1, <2>2
<1> HIDE DEF Goal
<1>6. CASE ClientsNext
  <2>1. UNCHANGED <<errors, cool, pc, on, tried, counts, passed, pause>>
    BY <1>6 DEF ClientsNext, choice, requests, retries
  <2>2. BalancerInv'
    BY <2>1 DEF BalancerInv, RequestTypes, RetryTypes, FailedBefore, RetriesWithinPolicy
  <2> QED BY <2>1, <2>2 DEF Goal, Exhausted
<1>7. ASSUME NEW r \in Requests, Request(r) PROVE Goal
  <2>1. pc[r] \in Ended /\ NextAttempt(r, cool, errors) /\ UNCHANGED <<transport, errors, cool>>
    BY <1>7 DEF Request
  <2>2. on[r] = 0 /\ errors' \in [Clients -> Nat] /\ cool' \in [Clients -> Nat]
    BY <2>1 DEF BalancerInv, RequestTypes, FailedBefore, Ended, InFlight
  <2>3. on[r] \notin Alive(cool)
    BY <2>2 DEF Alive, Clients
  <2>4. Alive(cool)' = Alive(cool)
    BY <2>1 DEF Alive, Open, transport
  <2>5. /\ BalancerInv' /\ \A q \in Requests \ {r} : pc'[q] = pc[q]
        /\ pc'[r] = "exhausted" => Len(tried[r]) = NClients \/ Alive(cool) = {}
    BY <2>1, <2>2, <2>3, NextAttemptFacts
  <2> QED BY <1>1, <2>4, <2>5 DEF Exhausted
<1>8. ASSUME NEW r \in Requests, TokenGranted(r) \/ Wake(r) PROVE Goal
  <2>1. pc[r] \in InFlight
    BY <1>8 DEF TokenGranted, Wake, InFlight
  <2>2. CASE End(r, "ended")
    BY <1>2, <1>8, <2>2 DEF TokenGranted, Wake, choice
  <2>3. CASE ~End(r, "ended")
    <3>1. \E where \in {"limiter", "sent"} : pc' = [pc EXCEPT ![r] = where]
      BY <1>8, <2>3 DEF TokenGranted, Wake, Attempt, Set
    <3>2. UNCHANGED <<choice, on, tried, retries>>
      BY <1>8, <2>3 DEF TokenGranted, Wake
    <3> QED BY <1>3, <2>1, <3>1, <3>2
  <2> QED BY <2>2, <2>3
<1>9. ASSUME NEW r \in Requests, TransportFails(r) PROVE Goal
  BY <1>4, <1>9 DEF TransportFails, InFlight
<1>10. ASSUME NEW r \in Requests, TimesOut(r) PROVE Goal
  BY <1>2, <1>10 DEF TimesOut, choice
<1>11. ASSUME NEW r \in Requests, NEW error, pc[r] = "sent", HttpError(r, error) PROVE Goal
  <2> DEFINE verdict == AfterError(Policy[on[r]], TotalTimeout, counts[r], passed[r], error).verdict
  <2>1. pc[r] \in InFlight /\ verdict \in {"raise", "limit", "again"}
    BY <1>11 DEF InFlight, AfterError
  <2>2. CASE verdict = "again"
    <3>1. BalancerInv' /\ pc'[r] = "sleep" /\ \A q \in Requests \ {r} : pc'[q] = pc[q]
      BY <1>11, <2>1, <2>2, RetryFacts
    <3> QED BY <1>1, <3>1
  <2>3. CASE verdict = "raise" /\ IsAnswer(Kind[on[r]], Operation[r], error)
    <3>1. Succeed(r)
      BY <1>11, <2>3 DEF HttpError
    <3> QED BY <1>5, <2>1, <3>1
  <2>4. CASE verdict = "raise" /\ ~IsAnswer(Kind[on[r]], Operation[r], error)
    <3>1. FailOver(r, error.code = 429)
      BY <1>11, <2>4 DEF HttpError
    <3> QED BY <1>4, <2>1, <3>1
  <2>5. CASE verdict = "limit"
    <3>1. FailOver(r, FALSE)
      BY <1>11, <2>5 DEF HttpError
    <3> QED BY <1>4, <2>1, <3>1
  <2> QED BY <2>1, <2>2, <2>3, <2>4, <2>5
<1>12. ASSUME NEW r \in Requests, Response(r) PROVE Goal
  <2>1. pc[r] = "sent" /\ pc[r] \in InFlight
    BY <1>12 DEF Response, InFlight
  <2>2. CASE \E error \in Raised : HttpError(r, error)
    BY <1>11, <2>1, <2>2
  <2>3. ASSUME NEW body \in Bodies,
               LET result == Result(Kind[on[r]], Operation[r], body)
               IN CASE result = "ok" -> Succeed(r)
                    [] result = "raised" -> Raise(r)
                    [] result = "provider_error" -> FailOver(r, FALSE)
        PROVE  Goal
    <3>1. Result(Kind[on[r]], Operation[r], body) \in {"ok", "raised", "provider_error"}
      BY DEF Result, TonapiClient, ToncenterClient, TonapiProvider, ToncenterProvider, ValidatedBy
    <3>2. Succeed(r) \/ Raise(r) \/ FailOver(r, FALSE)
      BY <2>3, <3>1
    <3>3. Raise(r) => End(r, "ended") /\ UNCHANGED <<errors, cool>>
      BY DEF Raise, choice
    <3> QED BY <1>2, <1>4, <1>5, <2>1, <3>2, <3>3
  <2> QED BY <1>12, <2>2, <2>3 DEF Response
<1>13. CASE Tick
  <2>1. /\ UNCHANGED <<errors, pc, on, tried, counts>>
        /\ cool' = [c \in Clients |-> Less(cool[c])] /\ pause' = [r \in Requests |-> Less(pause[r])]
        /\ \A r \in Requests : pc[r] = "sleep" => pause[r] > 0
    BY <1>13 DEF Tick
  <2>2. ASSUME NEW r \in Requests
        PROVE  passed'[r] \in Nat /\ passed'[r] <= passed[r] + 1
    <3> DEFINE more == passed[r] + 1
               top == TotalTimeout + 1
    <3>1. more \in Nat /\ top \in Nat /\ passed[r] \in Nat
      BY BalancerAssumption DEF BalancerInv, RetryTypes
    <3>2. passed'[r] = IF counts[r] = <<>> THEN 0 ELSE Min({more, top})
      BY <1>13 DEF Tick
    <3> HIDE DEF more, top
    <3>3. Min({more, top}) \in Nat /\ Min({more, top}) <= more
      BY <3>1, MinOfTwo
    <3>4. passed'[r] \in Nat /\ passed'[r] <= more
      BY <3>1, <3>2, <3>3
    <3> QED BY <3>4 DEF more
  <2>3. passed' \in [Requests -> Nat]
    <3>1. passed' = [r \in Requests |-> passed'[r]]
      BY <1>13 DEF Tick
    <3> QED BY <2>2, <3>1
  <2>4. cool' \in [Clients -> Nat] /\ pause' \in [Requests -> Nat]
    BY <2>1 DEF BalancerInv, RequestTypes, RetryTypes, Less
  <2>5. RequestTypes' /\ RetryTypes' /\ FailedBefore'
    BY <2>1, <2>3, <2>4 DEF BalancerInv, RequestTypes, RetryTypes, FailedBefore
  <2>6. RetriesWithinPolicy'
    <3>1. ASSUME NEW r \in Requests, pc[r] = "sleep"
          PROVE  passed'[r] + pause'[r] <= TotalTimeout
      <4>1. /\ pause[r] \in Nat /\ pause[r] > 0 /\ pause'[r] = pause[r] - 1 /\ passed[r] \in Nat
            /\ passed[r] + pause[r] <= TotalTimeout /\ TotalTimeout \in Nat
        BY <2>1, <3>1, BalancerAssumption
           DEF BalancerInv, RetryTypes, RetriesWithinPolicy, Less
      <4> QED BY <2>2, <4>1
    <3> QED BY <2>1, <3>1 DEF BalancerInv, RetriesWithinPolicy
  <2> QED BY <2>1, <2>5, <2>6 DEF Goal, BalancerInv, Exhausted
<1>14. Goal
  <2>1. \/ ClientsNext \/ Tick
        \/ \E r \in Requests : \/ Request(r) \/ (TokenGranted(r) \/ Wake(r)) \/ Response(r)
                               \/ TransportFails(r) \/ TimesOut(r)
    BY Zenon DEF Next
  <2>2. CASE ClientsNext \/ Tick
    BY <1>6, <1>13, <2>2 DEF Goal
  <2>3. ASSUME NEW r \in Requests,
               \/ Request(r) \/ (TokenGranted(r) \/ Wake(r)) \/ Response(r)
               \/ TransportFails(r) \/ TimesOut(r)
        PROVE  Goal
    BY <1>7, <1>8, <1>9, <1>10, <1>12, <2>3
  <2> QED BY <2>1, <2>2, <2>3
<1> QED BY <1>14 DEF Goal

LEMMA BalancerStutter == BalancerInv /\ UNCHANGED vars => BalancerInv'
BY DEF vars, choice, requests, retries, BalancerInv, RequestTypes, RetryTypes, FailedBefore,
       RetriesWithinPolicy

LEMMA BalancerInitHolds == Init => BalancerInv
<1> SUFFICES ASSUME Init PROVE BalancerInv
  OBVIOUS
<1>1. 0 \in 0..NClients /\ <<>> \in [{} -> Nat]
  BY TransportAssumption
<1>2. RequestTypes
  BY <1>1 DEF Init, RequestTypes, Ended
<1>3. RetryTypes
  BY <1>1 DEF Init, RetryTypes
<1>4. FailedBefore
  BY DEF Init, FailedBefore, InFlight
<1>5. RetriesWithinPolicy
  BY DEF Init, RetriesWithinPolicy
<1> QED BY <1>2, <1>3, <1>4, <1>5 DEF BalancerInv

LEMMA BalancerInvariant == Spec => []BalancerInv
<1>1. BalancerInv /\ [Next]_vars => BalancerInv'
  BY BalancerStep, BalancerStutter
<1> QED BY <1>1, BalancerInitHolds, PTL DEF Spec

(* However the errors of a call alternate between the rules of its policy, *)
(* no rule is tried more often than it allows, and no sleep ends after the *)
(* total timeout.                                                          *)
THEOREM RetriesStayWithinPolicy == Spec => []RetriesWithinPolicy
<1>1. BalancerInv => RetriesWithinPolicy
  BY DEF BalancerInv
<1> QED BY <1>1, BalancerInvariant, PTL

(* Of as many calls as there are clients, no two in a row of one client,   *)
(* that leave a client out, two are of one client, another in between.     *)
LEMMA CalledAgain ==
  ASSUME NEW calls \in Seq(Clients), Len(calls) = NClients,
         \A i \in 1..Len(calls) - 1 : calls[i] # calls[i + 1],
         NEW c \in Clients, \A i \in DOMAIN calls : calls[i] # c
  PROVE  \E i, j \in DOMAIN calls : i + 1 < j /\ calls[i] = calls[j]
<1>1. NClients \in Nat \ {0} /\ DOMAIN calls = 1..NClients
  BY TransportAssumption
<1>2. /\ IsFiniteSet(Clients) /\ Cardinality(Clients) = NClients
      /\ IsFiniteSet(Clients \ {c}) /\ Cardinality(Clients \ {c}) = NClients - 1
  <2>1. IsFiniteSet(1..NClients) /\ Cardinality(1..NClients) = NClients
    BY <1>1, FS_Interval
  <2> QED BY <2>1, FS_RemoveElement DEF Clients
<1>3. calls \in [Clients -> Clients \ {c}]
  <2>1. calls \in [1..NClients -> Clients]
    OBVIOUS
  <2>2. \A i \in 1..NClients : calls[i] \in Clients \ {c}
    BY <1>1, <2>1
  <2> QED BY <2>1, <2>2 DEF Clients
<1>4. PICK x, y \in Clients : x # y /\ calls[x] = calls[y]
  <2>1. Cardinality(Clients \ {c}) < Cardinality(Clients)
    BY <1>1, <1>2
  <2> DEFINE T == Clients \ {c}
  <2>2. IsFiniteSet(T) /\ Cardinality(T) < Cardinality(Clients) /\ calls \in [Clients -> T]
    BY <1>2, <1>3, <2>1
  <2> HIDE DEF T
  <2> QED BY <1>2, <2>2, FS_PigeonHole
<1>5. x \in 1..NClients /\ y \in 1..NClients
  BY DEF Clients
<1>6. CASE x < y
  <2>1. y # x + 1
    BY <1>1, <1>4, <1>5, <1>6
  <2>2. x + 1 < y
    BY <1>5, <1>6, <2>1
  <2> QED BY <1>1, <1>4, <1>5, <2>2
<1>7. CASE y < x
  <2>1. x # y + 1
    BY <1>1, <1>4, <1>5, <1>7
  <2>2. y + 1 < x
    BY <1>5, <1>7, <2>1
  <2> QED BY <1>1, <1>4, <1>5, <2>2
<1> QED BY <1>4, <1>5, <1>6, <1>7

(* However many clients there are, a call that gives up leaves no client   *)
(* that is connected and out of its cooldown and has not failed it, unless *)
(* one has failed it twice and another in between (clients/http/           *)
(* balancer.py, _with_failover()).                                         *)
THEOREM AlwaysGivesUpLast == Spec => GivesUpLast
<1>1. ASSUME BalancerInv, Next, NEW r \in Requests, pc'[r] = "exhausted", pc[r] # "exhausted"
      PROVE  \/ \A c \in Alive(cool)' : \E i \in DOMAIN tried[r] : tried[r][i] = c
             \/ \E i, j \in DOMAIN tried[r] : i + 1 < j /\ tried[r][i] = tried[r][j]
  <2>1. CASE Alive(cool)' = {}
    BY <2>1
  <2>2. CASE Len(tried[r]) = NClients
    <3>1. Alive(cool)' \subseteq Clients /\ tried[r] \in Seq(Clients)
      BY <1>1 DEF Alive, Clients, BalancerInv, RequestTypes
    <3>2. \A i \in 1..Len(tried[r]) - 1 : tried[r][i] # tried[r][i + 1]
      BY <1>1 DEF BalancerInv, FailedBefore, InTurn
    <3> QED BY <2>2, <3>1, <3>2, CalledAgain
  <2> QED BY <1>1, <2>1, <2>2, BalancerStep DEF Exhausted
<1>2. BalancerInv /\ [Next]_vars =>
        [\A r \in Requests : pc'[r] = "exhausted" /\ pc[r] # "exhausted"
           => \/ \A c \in Alive(cool)' : \E i \in DOMAIN tried[r] : tried[r][i] = c
              \/ \E i, j \in DOMAIN tried[r] : i + 1 < j /\ tried[r][i] = tried[r][j]]_vars
  BY <1>1
<1> QED BY <1>2, BalancerInvariant, PTL DEF Spec, GivesUpLast

(* What the balancer does to the sessions are steps of the transport: no   *)
(* request touches one.                                                    *)
THEOREM BalancerKeepsTransport == Spec => TransportSpec
<1>1. Init => TransportInit
  BY DEF Init
<1>2. [Next]_vars => [TransportNext]_transport
  <2>1. Next => TransportNext \/ UNCHANGED transport
    <3>1. ASSUME NEW r \in Requests, NEW limited, FailOver(r, limited) PROVE UNCHANGED transport
      BY <3>1 DEF FailOver
    <3>2. ASSUME NEW r \in Requests, NEW error, HttpError(r, error) PROVE UNCHANGED transport
      <4> DEFINE verdict ==
                   AfterError(Policy[on[r]], TotalTimeout, counts[r], passed[r], error).verdict
      <4>1. verdict \in {"raise", "limit", "again"}
        BY DEF AfterError
      <4> QED BY <3>1, <3>2, <4>1 DEF HttpError, Succeed
    <3>3. ASSUME NEW r \in Requests, Response(r) PROVE UNCHANGED transport
      <4>1. \A body \in Bodies :
              Result(Kind[on[r]], Operation[r], body) \in {"ok", "raised", "provider_error"}
        BY DEF Result, TonapiClient, ToncenterClient, TonapiProvider, ToncenterProvider, ValidatedBy
      <4> QED BY <3>1, <3>2, <3>3, <4>1 DEF Response, Succeed, Raise
    <3> QED BY <3>1, <3>3 DEF Next, ClientsNext, Request, TokenGranted, TransportFails, Wake,
                             TimesOut, Tick
  <2> QED BY <2>1 DEF vars
<1> QED BY <1>1, <1>2, PTL DEF Spec, TransportSpec
------------------------------------------------------------------------------
(* Histories, page by page.  The history from n on that is above lt, of    *)
(* what the call asks for, lies between Top(n) and Bottom(lt).             *)
Top(n) == IF n < asked.from THEN n ELSE asked.from
Bottom(lt) == IF lt < asked.to THEN asked.to ELSE lt

PagesTypeOK ==
  /\ newest \in Nat /\ known \in 0..newest /\ base \in 0..newest
  /\ asked \in Asks \cup BlockAsks
  /\ reading \in {"idle", "info", "page", "done", "failed"}
  /\ curr \in Nat /\ found \in Seq(Nat)

(* Before the first page. *)
NothingRead ==
  /\ reading \in {"idle", "info"} => curr = 0 /\ found = <<>>
  /\ reading = "info" => asked.client = "lite" /\ base <= known
  /\ reading = "page" /\ curr = 0 /\ asked.client # "block" => found = <<>> /\ asked.client # "lite"

(* Between pages: what was found is the history from where the call began  *)
(* down to where the next page begins.                                     *)
PagesJoin ==
  reading = "page" /\ asked.client \in {"lite", "toncenter"} =>
    /\ Len(found) < asked.limit
    /\ curr # 0 => \E n \in base..newest : curr <= n /\ found = Down(Top(n), Bottom(curr))

BlockPagesJoin ==
  reading = "page" /\ asked.client = "block" =>
    Len(found) <= base /\ found = [i \in 1..Len(found) |-> i]

PagesInv == PagesTypeOK /\ NothingRead /\ PagesJoin /\ BlockPagesJoin /\ HistoryComplete

(* Parts of the history. *)
LEMMA DownFacts ==
  ASSUME NEW n \in Nat, NEW m \in Nat
  PROVE  /\ Down(n, m) \in Seq(Nat) /\ Len(Down(n, m)) = IF n <= m THEN 0 ELSE n - m
         /\ \A i \in 1..n - m : Down(n, m)[i] = n + 1 - i
<1>1. CASE n <= m
  BY <1>1 DEF Down
<1>2. CASE ~(n <= m)
  <2>1. n - m \in Nat /\ \A i \in 1..n - m : n + 1 - i \in Nat
    BY <1>2
  <2>2. Down(n, m) \in [1..n - m -> Nat] /\ \A i \in 1..n - m : Down(n, m)[i] = n + 1 - i
    BY <1>2, <2>1 DEF Down
  <2> QED BY <1>2, <2>1, <2>2
<1> QED BY <1>1, <1>2

(* Two sequences are equal when their elements are. *)
LEMMA SameSequence ==
  ASSUME NEW s \in Seq(Nat), NEW t \in Seq(Nat), Len(s) = Len(t), \A i \in 1..Len(s) : s[i] = t[i]
  PROVE  s = t
OBVIOUS

LEMMA UptoFacts ==
  ASSUME NEW seq \in Seq(Nat), NEW k \in Nat
  PROVE  /\ Upto(seq, k) \in Seq(Nat) /\ Len(Upto(seq, k)) = IF Len(seq) <= k THEN Len(seq) ELSE k
         /\ \A i \in 1..Len(Upto(seq, k)) : Upto(seq, k)[i] = seq[i]
BY DEF Upto

(* The first limit transactions of a longer list are what a call gets. *)
LEMMA WindowFacts ==
  ASSUME asked \in Asks \cup BlockAsks, NEW n \in Nat
  PROVE  /\ Top(n) \in Nat /\ asked.to \in Nat /\ asked.limit \in Nat \ {0} /\ asked.from \in Nat \ {0}
         /\ \A s \in Seq(Nat) :
              /\ Len(s) = (IF Top(n) <= asked.to THEN 0
                           ELSE IF Top(n) - asked.to <= asked.limit THEN Top(n) - asked.to ELSE asked.limit)
              /\ \A i \in 1..Len(s) : s[i] = Top(n) + 1 - i
              => s = Window(n)
<1>1. /\ asked.to \in Nat /\ asked.limit \in Nat \ {0} /\ asked.from \in Nat \ {0} /\ Top(n) \in Nat
  BY PagesAssumption DEF Asks, BlockAsks, Top
<1> SUFFICES ASSUME NEW s \in Seq(Nat),
                    Len(s) = (IF Top(n) <= asked.to THEN 0
                              ELSE IF Top(n) - asked.to <= asked.limit THEN Top(n) - asked.to ELSE asked.limit),
                    \A i \in 1..Len(s) : s[i] = Top(n) + 1 - i
             PROVE  s = Window(n)
  BY <1>1
<1> DEFINE all == Down(Top(n), asked.to)
<1>2. /\ all \in Seq(Nat) /\ Len(all) = IF Top(n) <= asked.to THEN 0 ELSE Top(n) - asked.to
      /\ \A i \in 1..Top(n) - asked.to : all[i] = Top(n) + 1 - i
  BY <1>1, DownFacts
<1>3. Window(n) = Upto(all, asked.limit)
  BY DEF Window, Top
<1> HIDE DEF all
<1>4. /\ Window(n) \in Seq(Nat) /\ Len(Window(n)) = IF Len(all) <= asked.limit THEN Len(all) ELSE asked.limit
      /\ \A i \in 1..Len(Window(n)) : Window(n)[i] = all[i]
  <2> DEFINE limit == asked.limit
             w == Upto(all, limit)
  <2>1. all \in Seq(Nat) /\ limit \in Nat
    BY <1>1, <1>2
  <2> HIDE DEF limit
  <2>2. /\ w \in Seq(Nat) /\ Len(w) = IF Len(all) <= limit THEN Len(all) ELSE limit
        /\ \A i \in 1..Len(w) : w[i] = all[i]
    BY <2>1, UptoFacts
  <2> QED BY <1>3, <2>2 DEF limit
<1>5. Len(s) = Len(Window(n))
  BY <1>1, <1>2, <1>4
<1>6. ASSUME NEW i \in 1..Len(s) PROVE s[i] = Window(n)[i]
  <2>1. i \in 1..Len(Window(n))
    BY <1>5
  <2>2. i \in 1..Top(n) - asked.to
    <3> DEFINE top == Top(n)
               to == asked.to
               limit == asked.limit
               len == Len(all)
               l == Len(Window(n))
    <3>1. /\ top \in Nat /\ to \in Nat /\ limit \in Nat \ {0}
          /\ len = (IF top <= to THEN 0 ELSE top - to) /\ l = IF len <= limit THEN len ELSE limit
          /\ i \in 1..l
      BY <1>1, <1>2, <1>4, <2>1
    <3> HIDE DEF top, to, limit, len, l
    <3>2. i \in 1..top - to
      BY <3>1
    <3> QED BY <3>2 DEF top, to
  <2> QED BY <1>2, <1>4, <2>1, <2>2
<1> QED BY <1>1, <1>4, <1>5, <1>6, SameSequence

(* What the loop over a page leaves: the history down to the end of the    *)
(* page, or all of what the call asks for.                                 *)
PageEnd(txs) == ReadPage(txs)[Len(txs)]

LEMMA ReadPageFacts ==
  ASSUME asked \in Asks, NEW n \in Nat, NEW c \in Nat, c <= n,
         NEW txs \in Seq(Nat), Len(txs) <= c, \A i \in 1..Len(txs) : txs[i] = c + 1 - i,
         found = Down(Top(n), Bottom(c)), Len(found) < asked.limit
  PROVE  /\ PageEnd(txs).out \in Seq(Nat) /\ PageEnd(txs).over \in BOOLEAN
         /\ PageEnd(txs).over => PageEnd(txs).out = Window(n)
         /\ ~PageEnd(txs).over => /\ Len(PageEnd(txs).out) < asked.limit
                                  /\ PageEnd(txs).out = Down(Top(n), Bottom(c - Len(txs)))
<1> DEFINE d == Len(txs)
           top == Top(n)
           to == asked.to
           from == asked.from
           limit == asked.limit
           S == [out : Seq(Nat), over : BOOLEAN]
           first == [out |-> found, over |-> FALSE]
           next(i, x) == IF x.over \/ txs[i] > asked.from THEN x
                         ELSE IF txs[i] <= asked.to THEN [out |-> x.out, over |-> TRUE]
                         ELSE [out  |-> Append(x.out, txs[i]),
                               over |-> Len(x.out) + 1 >= asked.limit]
           Good(i, x) == /\ x \in S
                         /\ x.over => x.out = Window(n)
                         /\ ~x.over => /\ Len(x.out) < asked.limit
                                       /\ x.out = Down(top, Bottom(c - i))
<1>1. /\ d \in Nat /\ top \in Nat /\ asked.to \in Nat /\ asked.limit \in Nat \ {0}
      /\ asked.from \in Nat \ {0} /\ top <= n /\ top <= asked.from /\ top \in {n, asked.from}
  <2>1. /\ top \in Nat /\ asked.to \in Nat /\ asked.limit \in Nat \ {0} /\ asked.from \in Nat \ {0}
    BY WindowFacts
  <2> QED BY <2>1 DEF Top
<1>2. \A m \in Nat : Bottom(m) \in Nat /\ Bottom(m) = IF m < asked.to THEN asked.to ELSE m
  BY <1>1 DEF Bottom
<1>3. first \in S /\ Good(0, first)
  <2>1. found \in Seq(Nat)
    BY <1>1, <1>2, DownFacts
  <2> QED BY <1>1, <2>1
<1>4. ASSUME NEW i \in 1..d, NEW x \in S PROVE next(i, x) \in S
  <2>1. txs[i] \in Nat /\ x.out \in Seq(Nat) /\ x.over \in BOOLEAN
    BY <1>4
  <2>2. Append(x.out, txs[i]) \in Seq(Nat)
    BY <2>1
  <2> QED BY <2>1, <2>2, <1>4
<1>5. ASSUME NEW i \in 1..d, NEW x, Good(i - 1, x) PROVE Good(i, next(i, x))
  <2> DEFINE lt == c + 1 - i
             all == Down(top, Bottom(lt))
             below == Down(top, Bottom(lt - 1))
             m == Bottom(lt)
             k == Bottom(lt - 1)
  <2>1. /\ txs[i] = lt /\ lt \in Nat \ {0} /\ c - (i - 1) = lt /\ c - i = lt - 1 /\ lt - 1 \in Nat
        /\ lt <= n
    BY <1>1
  <2>2. x \in S /\ x.out \in Seq(Nat) /\ x.over \in BOOLEAN
    BY <1>5
  <2>3. next(i, x) \in S
    BY <1>4, <2>2
  <2>4. /\ m \in Nat /\ m = IF lt < to THEN to ELSE lt
        /\ k \in Nat /\ k = IF lt - 1 < to THEN to ELSE lt - 1
    BY <1>2, <2>1
  <2>5. /\ all \in Seq(Nat) /\ Len(all) = IF top <= m THEN 0 ELSE top - m
        /\ \A j \in 1..top - m : all[j] = top + 1 - j
    BY <1>1, <2>4, DownFacts
  <2>6. /\ below \in Seq(Nat) /\ Len(below) = IF top <= k THEN 0 ELSE top - k
        /\ \A j \in 1..top - k : below[j] = top + 1 - j
    BY <1>1, <2>4, DownFacts
  <2>7. \A s \in Seq(Nat) :
          /\ Len(s) = (IF top <= to THEN 0 ELSE IF top - to <= limit THEN top - to ELSE limit)
          /\ \A j \in 1..Len(s) : s[j] = top + 1 - j
          => s = Window(n)
    BY WindowFacts
  <2>8. /\ x.over \/ lt > from => next(i, x) = x
        /\ ~x.over /\ ~(lt > from) /\ lt <= to => next(i, x) = [out |-> x.out, over |-> TRUE]
        /\ ~x.over /\ ~(lt > from) /\ ~(lt <= to) =>
             next(i, x) = [out |-> Append(x.out, lt), over |-> Len(x.out) + 1 >= limit]
    <3> HIDE DEF lt
    <3> QED BY <2>1
  <2>9. /\ x.over => x.out = Window(n)
        /\ ~x.over => Len(x.out) < limit /\ x.out = all
    BY <1>5, <2>1
  <2> SUFFICES /\ next(i, x).over => next(i, x).out = Window(n)
               /\ ~next(i, x).over => Len(next(i, x).out) < limit /\ next(i, x).out = below
    BY <2>1, <2>3
  <2>10. /\ top \in Nat /\ to \in Nat /\ limit \in Nat \ {0} /\ from \in Nat \ {0}
         /\ top <= from /\ top \in {n, from} /\ n \in Nat
    BY <1>1
  <2> HIDE DEF lt, d, top, to, from, limit, all, below, m, k, next, S
  <2>11. CASE x.over
    BY <2>8, <2>9, <2>11
  <2>12. CASE ~x.over /\ lt > from
    <3>1. Len(all) = 0 /\ Len(below) = 0
      BY <2>1, <2>4, <2>5, <2>6, <2>10, <2>12
    <3>2. all = below
      BY <2>5, <2>6, <3>1, SameSequence
    <3> QED BY <2>2, <2>8, <2>9, <2>12, <3>2
  <2>13. CASE ~x.over /\ ~(lt > from) /\ lt <= to
    <3>1. m = to
      BY <2>1, <2>4, <2>10, <2>13
    <3>2. Len(all) < limit
      BY <2>9, <2>13
    <3>3. Len(all) = IF top <= to THEN 0 ELSE IF top - to <= limit THEN top - to ELSE limit
      BY <2>5, <2>10, <3>1, <3>2
    <3>4. \A j \in 1..Len(all) : all[j] = top + 1 - j
      BY <2>5, <2>10, <3>1
    <3>5. all = Window(n)
      BY <2>5, <2>7, <3>3, <3>4
    <3> QED BY <2>8, <2>9, <2>13, <3>5
  <2>14. CASE ~x.over /\ ~(lt > from) /\ ~(lt <= to)
    <3> DEFINE more == Append(all, lt)
               full == Len(all) + 1 >= limit
    <3>1. next(i, x) = [out |-> more, over |-> full] /\ Len(all) < limit
      BY <2>8, <2>9, <2>14
    <3>2. m = lt /\ k = lt - 1 /\ lt <= top
      BY <2>1, <2>4, <2>10, <2>14
    <3>3. Len(all) = top - lt
      BY <2>1, <2>5, <2>10, <3>2
    <3>4. more \in Seq(Nat) /\ Len(more) = Len(all) + 1
      BY <2>1, <2>5
    <3>5. Len(more) = top + 1 - lt
      BY <2>1, <2>10, <3>3, <3>4
    <3>6. ASSUME NEW j \in 1..Len(more) PROVE more[j] = top + 1 - j
      <4>1. CASE j = Len(all) + 1
        <5>1. more[j] = lt
          BY <2>1, <2>5, <4>1
        <5> QED BY <2>1, <2>10, <3>3, <4>1, <5>1
      <4>2. CASE j # Len(all) + 1
        <5>1. j \in 1..Len(all) /\ j \in 1..top - m
          BY <2>1, <2>10, <3>2, <3>3, <3>4, <4>2
        <5>2. more[j] = all[j]
          BY <2>1, <2>5, <5>1
        <5> QED BY <2>5, <5>1, <5>2
      <4> QED BY <4>1, <4>2
    <3> HIDE DEF more
    <3>7. CASE full
      <4>1. Len(more) = IF top <= to THEN 0 ELSE IF top - to <= limit THEN top - to ELSE limit
        BY <2>1, <2>10, <2>14, <3>1, <3>3, <3>5, <3>7
      <4>2. more = Window(n)
        BY <2>7, <3>4, <3>6, <4>1
      <4> HIDE DEF full
      <4> QED BY <3>1, <3>7, <4>2
    <3>8. CASE ~full
      <4>1. Len(more) < limit
        BY <2>1, <2>10, <3>3, <3>4, <3>8
      <4>2. Len(below) = Len(more)
        BY <2>1, <2>6, <2>10, <3>2, <3>5
      <4>3. \A j \in 1..Len(more) : more[j] = below[j]
        BY <2>1, <2>6, <2>10, <3>2, <3>5, <3>6
      <4>4. more = below
        BY <2>6, <3>4, <4>2, <4>3, SameSequence
      <4> HIDE DEF full
      <4> QED BY <3>1, <3>8, <4>1, <4>4
    <3> QED BY <3>7, <3>8
  <2> QED BY <2>11, <2>12, <2>13, <2>14
<1>6. PICK step : step = [i \in 1..d |-> [x \in S |-> next(i, x)]]
  OBVIOUS
<1>7. Steps(S, first, d, step)
  <2>1. step \in [1..d -> [S -> S]]
    <3> HIDE DEF S, d, next
    <3> QED BY <1>4, <1>6
  <2> QED BY <1>1, <1>3, <2>1 DEF Steps
<1>8. \E f : f = [i \in 0..d |-> IF i = 0 THEN first ELSE next(i, f[i - 1])]
  <2> HIDE DEF S, first, d, next
  <2>1. \E f \in [0..d -> S] : \A i \in 0..d : f[i] = IF i = 0 THEN first ELSE step[i][f[i - 1]]
    BY ONLY <1>7, StepRecursion
  <2>2. PICK f \in [0..d -> S] : \A i \in 0..d : f[i] = IF i = 0 THEN first ELSE step[i][f[i - 1]]
    BY <2>1
  <2>3. ASSUME NEW i \in 0..d PROVE f[i] = IF i = 0 THEN first ELSE next(i, f[i - 1])
    <3>1. CASE i = 0
      BY <2>2, <3>1
    <3>2. CASE i # 0
      <4>1. i \in 1..d /\ i - 1 \in 0..d
        BY <1>1, <3>2
      <4>2. f[i - 1] \in S /\ f[i] = step[i][f[i - 1]]
        BY <2>2, <3>2, <4>1
      <4> QED BY <1>6, <3>2, <4>1, <4>2
    <3> QED BY <3>1, <3>2
  <2>4. f = [i \in 0..d |-> IF i = 0 THEN first ELSE next(i, f[i - 1])]
    BY <2>2, <2>3
  <2> QED BY <2>4
<1> DEFINE f == ReadPage(txs)
<1>9. f = [i \in 0..d |-> IF i = 0 THEN first ELSE next(i, f[i - 1])]
  <2> HIDE DEF d
  <2> QED BY <1>8 DEF ReadPage, d
<1>10. \A i \in 0..d : f[i] = IF i = 0 THEN first ELSE next(i, f[i - 1])
  <2> HIDE DEF first, d, next, f
  <2> QED BY <1>9
<1> DEFINE T == {i \in Nat : i \in 0..d => Good(i, f[i])}
<1>11. 0 \in T
  <2> HIDE DEF first, d, next, f, Good
  <2> QED BY <1>1, <1>3, <1>10
<1>12. ASSUME NEW i \in Nat, i \in T PROVE i + 1 \in T
  <2> HIDE DEF first, d, next, f, Good
  <2> SUFFICES ASSUME i + 1 \in 0..d PROVE Good(i + 1, f[i + 1])
    OBVIOUS
  <2>1. i \in 0..d /\ i + 1 \in 1..d /\ (i + 1) - 1 = i
    BY <1>1
  <2>2. Good(i, f[i]) /\ f[i + 1] = next(i + 1, f[i])
    BY <1>10, <1>12, <2>1
  <2>3. \A j \in 1..d : \A x : Good(j - 1, x) => Good(j, next(j, x))
    BY <1>5
  <2> QED BY <2>1, <2>2, <2>3
<1>13. Nat \subseteq T
  <2> HIDE DEF T
  <2> QED BY <1>11, <1>12, SetInduction
<1>14. Good(d, f[d])
  <2> HIDE DEF Good, d, f
  <2> QED BY <1>1, <1>13
<1> QED BY <1>14 DEF PageEnd

LEMMA PagesStart == PagesInit => PagesInv
<1> SUFFICES ASSUME PagesInit PROVE PagesInv
  OBVIOUS
<1> USE DEF PagesInit
<1>1. PagesTypeOK
  BY PagesAssumption DEF PagesTypeOK
<1>2. NothingRead /\ PagesJoin /\ BlockPagesJoin /\ HistoryComplete
  BY DEF NothingRead, PagesJoin, BlockPagesJoin, HistoryComplete
<1> QED BY <1>1, <1>2 DEF PagesInv

(* A page that follows the block before, or is the first one. *)
LEMMA TakePageKeeps ==
  ASSUME PagesInv, reading = "page", asked.client \in {"lite", "toncenter"},
         NEW c \in Nat, c = IF curr = 0 THEN newest ELSE curr,
         NEW txs \in Seq(Nat), Len(txs) <= c, \A i \in 1..Len(txs) : txs[i] = c + 1 - i,
         txs = <<>> => c <= (IF asked.client = "toncenter" THEN asked.to ELSE 0),
         TakePage(txs), UNCHANGED <<newest, known, asked, base>>
  PROVE  PagesInv'
<1> DEFINE over == txs = <<>> \/ PageEnd(txs).over \/ PrevTransLt(txs) = 0
<1>1. /\ newest \in Nat /\ base \in 0..newest /\ asked \in Asks /\ curr \in Nat /\ asked.to \in Nat
      /\ asked.limit \in Nat \ {0}
  BY WindowFacts DEF PagesInv, PagesTypeOK, Asks, BlockAsks
<1>2. PICK n \in base..newest : c <= n /\ found = Down(Top(n), Bottom(c))
  <2>1. CASE curr = 0
    <3>1. found = <<>>
      BY <2>1 DEF PagesInv, NothingRead
    <3>2. Top(newest) \in Nat /\ Bottom(newest) \in Nat /\ Top(newest) <= Bottom(newest)
      BY <1>1, WindowFacts DEF Top, Bottom, Asks
    <3>3. Down(Top(newest), Bottom(newest)) = <<>>
      BY <3>2 DEF Down
    <3> QED BY <1>1, <2>1, <3>1, <3>3
  <2>2. CASE curr # 0
    BY <2>2 DEF PagesInv, PagesJoin
  <2> QED BY <2>1, <2>2
<1>3. n \in Nat /\ Len(found) < asked.limit
  <2>1. Len(found) < asked.limit
    BY DEF PagesInv, PagesJoin
  <2> QED BY <1>1, <1>2, <2>1
<1>4. /\ PageEnd(txs).out \in Seq(Nat) /\ PageEnd(txs).over \in BOOLEAN
      /\ PageEnd(txs).over => PageEnd(txs).out = Window(n)
      /\ ~PageEnd(txs).over => /\ Len(PageEnd(txs).out) < asked.limit
                               /\ PageEnd(txs).out = Down(Top(n), Bottom(c - Len(txs)))
  BY <1>1, <1>2, <1>3, ReadPageFacts
<1>5. txs # <<>> => PrevTransLt(txs) = c - Len(txs) /\ c - Len(txs) \in Nat /\ c - Len(txs) <= n
  BY <1>1, <1>2 DEF PrevTransLt, Last
<1>6. /\ found' = PageEnd(txs).out /\ reading' = IF over THEN "done" ELSE "page"
      /\ curr' = IF over THEN curr ELSE PrevTransLt(txs)
  BY DEF TakePage, PageEnd
<1>7. over => PageEnd(txs).out = Window(n)
  <2>1. CASE PageEnd(txs).over
    BY <1>4, <2>1
  <2>2. CASE ~PageEnd(txs).over /\ over
    <3> DEFINE all == Down(Top(n), asked.to)
    <3>1. Top(n) \in Nat /\ asked.to \in Nat /\ asked.limit \in Nat
      BY <1>1, <1>3, WindowFacts
    <3>2. Bottom(c - Len(txs)) = asked.to \/ (Top(n) <= asked.to /\ FALSE)
      <4>1. CASE txs = <<>>
        BY <1>1, <4>1 DEF Bottom
      <4>2. CASE txs # <<>>
        BY <1>1, <1>5, <2>2, <4>2 DEF Bottom
      <4> QED BY <4>1, <4>2
    <3>3. PageEnd(txs).out = all /\ Len(all) < asked.limit
      BY <1>4, <2>2, <3>2
    <3>4. Window(n) = Upto(all, asked.limit)
      BY DEF Window, Top
    <3>5. all \in Seq(Nat)
      BY <3>1, DownFacts
    <3> HIDE DEF all
    <3>6. Upto(all, asked.limit) = all
      BY <3>1, <3>3, <3>5 DEF Upto
    <3> QED BY <3>3, <3>4, <3>6
  <2> QED BY <2>1, <2>2
<1>8. PagesTypeOK'
  <2>1. curr' \in Nat /\ found' \in Seq(Nat) /\ reading' \in {"page", "done"}
    BY <1>1, <1>4, <1>5, <1>6
  <2> QED BY <2>1 DEF PagesInv, PagesTypeOK, Asks, BlockAsks
<1>9. CASE over
  <2>1. reading' = "done" /\ found' = Window(n)
    BY <1>6, <1>7, <1>9
  <2>2. HistoryComplete'
    BY <1>2, <2>1 DEF HistoryComplete, Window
  <2> QED BY <1>8, <2>1, <2>2 DEF PagesInv, NothingRead, PagesJoin, BlockPagesJoin
<1>10. CASE ~over
  <2>1. /\ reading' = "page" /\ curr' = c - Len(txs) /\ curr' # 0 /\ curr' <= n
        /\ Len(found') < asked.limit /\ found' = Down(Top(n), Bottom(curr'))
    BY <1>4, <1>5, <1>6, <1>10
  <2>2. Top(n)' = Top(n) /\ Bottom(curr)' = Bottom(curr')
    BY DEF Top, Bottom
  <2>3. PagesJoin'
    BY <1>2, <2>1, <2>2 DEF PagesJoin
  <2> QED BY <1>8, <2>1, <2>3 DEF PagesInv, NothingRead, BlockPagesJoin, HistoryComplete
<1> QED BY <1>9, <1>10

(* What servers send: a piece of the history from the one asked for on. *)
LEMMA ServerPagesFacts ==
  ASSUME PagesTypeOK, NEW txs \in ServerPages, NEW c, c = IF curr = 0 THEN newest ELSE curr
  PROVE  /\ c \in Nat /\ txs \in Seq(Nat) /\ Len(txs) <= c /\ \A i \in 1..Len(txs) : txs[i] = c + 1 - i
         /\ txs = <<>> => c <= (IF asked.client = "toncenter" THEN asked.to ELSE 0)
<1> DEFINE to == IF asked.client = "toncenter" THEN asked.to ELSE 0
           rest == Down(c, to)
           most == Upto(rest, Page)
<1>1. c \in Nat /\ to \in Nat /\ Page \in Nat \ {0}
  BY PagesAssumption DEF PagesTypeOK, Asks, BlockAsks
<1>2. PICK k : /\ k \in (IF rest = <<>> THEN {0} ELSE 1..Len(most))
               /\ txs = SubSeq(most, 1, k)
  BY DEF ServerPages
<1> HIDE DEF to
<1>3. /\ rest \in Seq(Nat) /\ Len(rest) = IF c <= to THEN 0 ELSE c - to
      /\ \A i \in 1..c - to : rest[i] = c + 1 - i
  BY <1>1, DownFacts
<1> HIDE DEF rest
<1>4. /\ most \in Seq(Nat) /\ Len(most) = IF Len(rest) <= Page THEN Len(rest) ELSE Page
      /\ \A i \in 1..Len(most) : most[i] = rest[i]
  <2> DEFINE page == Page
  <2>1. page \in Nat
    BY <1>1
  <2> HIDE DEF page
  <2>2. /\ Upto(rest, page) \in Seq(Nat) /\ Len(Upto(rest, page)) = IF Len(rest) <= page THEN Len(rest) ELSE page
        /\ \A i \in 1..Len(Upto(rest, page)) : Upto(rest, page)[i] = rest[i]
    BY <1>3, <2>1, UptoFacts
  <2> QED BY <2>2 DEF page
<1> HIDE DEF most
<1>5. k \in 0..Len(most) /\ Len(most) <= Len(rest) /\ (k = 0 => rest = <<>>)
  BY <1>1, <1>2, <1>3, <1>4
<1>6. /\ txs \in Seq(Nat) /\ Len(txs) = k /\ \A i \in 1..k : txs[i] = most[i]
  BY <1>2, <1>4, <1>5
<1>7. Len(rest) <= c /\ (rest = <<>> => c <= to)
  BY <1>1, <1>3
<1>8. ASSUME NEW i \in 1..Len(txs) PROVE txs[i] = c + 1 - i
  <2>1. i \in 1..k /\ i \in 1..Len(most) /\ i \in 1..Len(rest)
    BY <1>5, <1>6
  <2>2. i \in 1..c - to
    BY <1>1, <1>3, <2>1
  <2>3. txs[i] = most[i] /\ most[i] = rest[i]
    BY <1>4, <1>6, <2>1
  <2> QED BY <1>3, <2>2, <2>3
<1>9. txs = <<>> => c <= to
  BY <1>1, <1>5, <1>6, <1>7
<1>10. Len(txs) <= c
  BY <1>1, <1>5, <1>6, <1>7
<1> QED BY <1>1, <1>6, <1>8, <1>9, <1>10 DEF to

LEMMA ToncenterPageKeeps == PagesInv /\ ToncenterPage => PagesInv'
<1> SUFFICES ASSUME PagesInv, ToncenterPage PROVE PagesInv'
  OBVIOUS
<1>1. PICK c : c = IF curr = 0 THEN newest ELSE curr
  OBVIOUS
<1>2. PICK txs \in ServerPages : TakePage(txs)
  BY DEF ToncenterPage
<1>3. /\ c \in Nat /\ txs \in Seq(Nat) /\ Len(txs) <= c /\ \A i \in 1..Len(txs) : txs[i] = c + 1 - i
      /\ txs = <<>> => c <= (IF asked.client = "toncenter" THEN asked.to ELSE 0)
  BY <1>1, ServerPagesFacts DEF PagesInv
<1> QED BY <1>1, <1>2, <1>3, TakePageKeeps DEF ToncenterPage

(* A page with one left out is never taken. *)
LEMMA LitePageKeeps == PagesInv /\ LitePage => PagesInv'
<1> SUFFICES ASSUME PagesInv, LitePage PROVE PagesInv'
  OBVIOUS
<1>1. PICK c : c = IF curr = 0 THEN newest ELSE curr
  OBVIOUS
<1>2. PICK txs \in ServerPages :
        \E sent \in {txs} \cup {RemoveAt(txs, i) : i \in 1..Len(txs) - 1} :
          IF IsChain(sent) THEN TakePage(sent)
          ELSE reading' = "failed" /\ found' = <<>> /\ curr' = 0
  BY DEF LitePage
<1>3. /\ c \in Nat /\ txs \in Seq(Nat) /\ Len(txs) <= c
      /\ txs = <<>> => c <= (IF asked.client = "toncenter" THEN asked.to ELSE 0)
  BY <1>1, ServerPagesFacts DEF PagesInv
<1>4. curr = c /\ curr # 0
  BY <1>1 DEF PagesInv, NothingRead, LitePage
<1>5. PICK sent \in {txs} \cup {RemoveAt(txs, i) : i \in 1..Len(txs) - 1} :
        IF IsChain(sent) THEN TakePage(sent)
        ELSE reading' = "failed" /\ found' = <<>> /\ curr' = 0
  BY <1>2
<1>6. sent \in Seq(Nat) /\ Len(sent) <= Len(txs) /\ (sent = <<>> => txs = <<>>)
  <2>1. CASE sent = txs
    BY <1>3, <2>1
  <2>2. CASE sent # txs
    <3>1. PICK i \in 1..Len(txs) - 1 : sent = RemoveAt(txs, i)
      BY <1>5, <2>2
    <3>2. i \in 1..Len(txs) /\ Len(txs) \in Nat
      BY <1>3, <3>1
    <3>3. sent \in Seq(Nat) /\ Len(sent) = Len(txs) - 1
      BY <1>3, <3>1, <3>2, RemoveAtFacts
    <3> QED BY <3>1, <3>2, <3>3
  <2> QED BY <2>1, <2>2
<1>7. CASE IsChain(sent)
  <2>1. \A i \in 1..Len(sent) : sent[i] = c + 1 - i
    BY <1>4, <1>6, <1>7 DEF IsChain
  <2>2. Len(sent) <= c
    BY <1>3, <1>6
  <2>3. TakePage(sent)
    BY <1>5, <1>7
  <2> QED BY <1>1, <1>3, <1>6, <2>1, <2>2, <2>3, TakePageKeeps DEF LitePage
<1>8. CASE ~IsChain(sent)
  <2>1. reading' = "failed" /\ found' = <<>> /\ curr' = 0 /\ UNCHANGED <<newest, known, asked, base>>
    BY <1>5, <1>8 DEF LitePage
  <2> QED BY <2>1 DEF PagesInv, PagesTypeOK, Asks, BlockAsks, NothingRead, PagesJoin, BlockPagesJoin,
                      HistoryComplete
<1> QED BY <1>7, <1>8

(* The blocks of a page follow the last one before. *)
LEMMA BlockPageKeeps == PagesInv /\ BlockPage => PagesInv'
<1> SUFFICES ASSUME PagesInv, BlockPage PROVE PagesInv'
  OBVIOUS
<1> DEFINE after == IF found = <<>> THEN 0 ELSE Last(found)
           all == {asked.limit, Page, base - after}
           room == Min(all)
<1>1. /\ newest \in Nat /\ base \in Nat /\ base <= newest /\ Page \in Nat \ {0}
      /\ asked.limit \in Nat \ {0} /\ found \in Seq(Nat)
  BY WindowFacts, PagesAssumption DEF PagesInv, PagesTypeOK
<1>2. Len(found) <= base /\ found = [i \in 1..Len(found) |-> i]
  BY DEF PagesInv, BlockPagesJoin, BlockPage
<1>3. after = Len(found) /\ base - after \in Nat
  <2>1. found # <<>> => Len(found) \in 1..Len(found) /\ Last(found) = found[Len(found)]
    BY <1>1 DEF Last
  <2> QED BY <1>1, <1>2, <2>1
<1>4. room \in all /\ \A x \in all : room <= x
  <2>1. all \subseteq Nat /\ all # {}
    BY <1>1, <1>3
  <2> HIDE DEF all
  <2>2. \E x \in all : \A y \in all : x <= y
    BY <2>1, LeastNat
  <2> QED BY <2>2 DEF Min
<1>5. PICK n : /\ n \in (IF room = 0 THEN {0} ELSE 1..room)
               /\ found' = found \o [i \in 1..n |-> after + i]
               /\ reading' = IF after + n < base THEN "page" ELSE "done"
  BY DEF BlockPage
<1> HIDE DEF after, all, room
<1>6. n \in Nat /\ n <= base - after
  BY <1>1, <1>3, <1>4, <1>5 DEF all
<1>7. found' \in Seq(Nat) /\ Len(found') = after + n /\ found' = [i \in 1..after + n |-> i]
  <2> DEFINE more == [i \in 1..n |-> after + i]
  <2>1. more \in Seq(Nat) /\ Len(more) = n
    BY <1>1, <1>3, <1>6
  <2>2. \A i \in 1..n : more[i] = after + i
    OBVIOUS
  <2> HIDE DEF more
  <2>3. found' = found \o more
    BY <1>5 DEF more
  <2>4. found' \in Seq(Nat) /\ Len(found') = after + n
    BY <1>1, <1>3, <2>1, <2>3
  <2>5. ASSUME NEW i \in 1..after + n PROVE found'[i] = i
    <3>1. CASE i <= after
      BY <1>1, <1>2, <1>3, <1>6, <2>1, <2>3, <3>1
    <3>2. CASE ~(i <= after)
      <4>1. i - after \in 1..n /\ found'[i] = more[i - after]
        BY <1>1, <1>3, <1>6, <2>1, <2>3, <3>2
      <4> QED BY <1>1, <1>3, <2>2, <4>1
    <3> QED BY <3>1, <3>2
  <2> QED BY <2>4, <2>5
<1>8. UNCHANGED <<newest, known, asked, curr, base>> /\ asked.client = "block" /\ reading = "page"
  BY DEF BlockPage
<1>9. PagesTypeOK'
  BY <1>5, <1>7, <1>8 DEF PagesInv, PagesTypeOK, Asks, BlockAsks
<1>10. NothingRead' /\ PagesJoin'
  BY <1>5, <1>8 DEF NothingRead, PagesJoin
<1>11. BlockPagesJoin'
  BY <1>1, <1>3, <1>5, <1>6, <1>7, <1>8 DEF BlockPagesJoin
<1>12. HistoryComplete'
  <2>1. reading' = "done" => ~(after + n < base)
    BY <1>5
  <2>2. after \in Nat /\ (~(after + n < base) => after + n = base)
    BY <1>1, <1>3, <1>6
  <2> QED BY <1>7, <1>8, <2>1, <2>2 DEF HistoryComplete
<1> QED BY <1>9, <1>10, <1>11, <1>12 DEF PagesInv

LEMMA PagesStep == PagesInv /\ [PagesNext]_pages => PagesInv'
<1> SUFFICES ASSUME PagesInv, [PagesNext]_pages PROVE PagesInv'
  OBVIOUS
<1> USE DEF PagesInv, PagesTypeOK, Asks, BlockAsks, NothingRead, BlockPagesJoin
<1>1. CASE Begin
  <2>1. HistoryComplete' /\ PagesJoin'
    BY <1>1, WindowFacts DEF Begin, HistoryComplete, PagesJoin
  <2> QED BY <1>1, <2>1 DEF Begin
<1>2. CASE GetInfo
  <2>1. known \in base..newest /\ known \in Nat /\ newest \in Nat
    BY <1>2 DEF GetInfo
  <2>2. CASE known = 0
    <3>1. Window(0) = <<>>
      <4>1. 0 < asked.from /\ asked.to \in Nat /\ asked.limit \in Nat
        BY WindowFacts
      <4>2. Window(0) = Upto(<<>>, asked.limit)
        BY <4>1 DEF Window, Down
      <4> QED BY <4>1, <4>2 DEF Upto
    <3>2. HistoryComplete'
      BY <1>2, <2>1, <2>2, <3>1 DEF GetInfo, HistoryComplete, Window
    <3> QED BY <1>2, <2>1, <2>2, <3>2 DEF GetInfo, PagesJoin
  <2>3. CASE known # 0
    <3>1. Top(known) \in Nat /\ Bottom(known) \in Nat /\ Top(known) <= Bottom(known)
      BY <2>1, WindowFacts DEF Top, Bottom
    <3>2. Down(Top(known), Bottom(known)) = <<>>
      BY <3>1 DEF Down
    <3>3. /\ curr' = known /\ found' = <<>> /\ reading' = "page" /\ UNCHANGED <<newest, asked, base>>
      BY <1>2, <2>3 DEF GetInfo
    <3>4. Top(known)' = Top(known) /\ Bottom(curr)' = Bottom(known)
      BY <1>2, <3>3 DEF GetInfo, Top, Bottom
    <3>5. PagesJoin'
      <4>1. Len(found') < asked'.limit
        BY <3>3, WindowFacts
      <4> QED BY <2>1, <3>2, <3>3, <3>4, <4>1 DEF PagesJoin, Top, Bottom
    <3> QED BY <1>2, <2>3, <3>5 DEF GetInfo, HistoryComplete
  <2> QED BY <2>2, <2>3
<1>3. CASE AskTonapi
  <2>1. Window(newest) \in Seq(Nat)
    <3> DEFINE all == Down(Top(newest), asked.to)
    <3>1. asked.limit \in Nat /\ Top(newest) \in Nat /\ asked.to \in Nat
      BY WindowFacts
    <3>2. all \in Seq(Nat)
      BY <3>1, DownFacts
    <3>3. Window(newest) = Upto(all, asked.limit)
      BY DEF Window, Top
    <3> HIDE DEF all
    <3> QED BY <3>1, <3>2, <3>3, UptoFacts
  <2>2. HistoryComplete'
    BY <1>3 DEF AskTonapi, HistoryComplete, Window
  <2> QED BY <1>3, <2>1, <2>2 DEF AskTonapi, PagesJoin
<1>4. CASE PageFails
  BY <1>4 DEF PageFails, HistoryComplete, PagesJoin
<1>5. CASE NewTransaction
  <2>1. \A n : Window(n)' = Window(n)
    BY <1>5 DEF NewTransaction, Window
  <2>2. HistoryComplete'
    BY <1>5, <2>1 DEF NewTransaction, HistoryComplete
  <2>3. PagesJoin'
    BY <1>5 DEF NewTransaction, PagesJoin, Top, Bottom
  <2> QED BY <1>5, <2>2, <2>3 DEF NewTransaction
<1>6. CASE KnownMoves
  <2>1. HistoryComplete' /\ PagesJoin'
    BY <1>6 DEF KnownMoves, HistoryComplete, PagesJoin, Window, Top, Bottom
  <2> QED BY <1>6, <2>1 DEF KnownMoves
<1>7. CASE UNCHANGED pages
  <2>1. HistoryComplete' /\ PagesJoin'
    BY <1>7 DEF pages, HistoryComplete, PagesJoin, Window, Top, Bottom
  <2> QED BY <1>7, <2>1 DEF pages
<1> QED
  BY <1>1, <1>2, <1>3, <1>4, <1>5, <1>6, <1>7, ToncenterPageKeeps, LitePageKeeps, BlockPageKeeps
  DEF PagesNext

(* get_transactions() and get_block_transactions() give the whole history  *)
(* asked for, as it was at one moment of the call (mixin.py:135-194,       *)
(* toncenter.py:196-256, provider.py:461-502), for histories, limits and   *)
(* pages of any size.                                                      *)
THEOREM HistoryAlwaysComplete == PagesSpec => []HistoryComplete
<1>1. PagesInv => HistoryComplete
  BY DEF PagesInv
<1> QED BY <1>1, PagesStart, PagesStep, PTL DEF PagesSpec
------------------------------------------------------------------------------
(* Stacks and Convert are recursive functions over the depth.              *)
LEMMA StacksAre ==
  ASSUME NEW kinds
  PROVE  /\ Stacks(kinds)[0] = {<<>>}
         /\ \A d \in Nat : Stacks(kinds)[d + 1] = Seq(Items(kinds, Stacks(kinds)[d]))
<1> DEFINE first == {<<>>}
           next(d, x) == Seq(Items(kinds, x))
           Begins(n, f) == /\ f = [i \in 0..n |-> f[i]] /\ f[0] = first
                           /\ \A i \in 0..n : i < n => f[i + 1] = next(i + 1, f[i])
           Is(f) == f = [d \in Nat |-> IF d = 0 THEN first ELSE next(d, f[d - 1])]
           Begun(n) == CHOOSE f : Begins(n, f)
           F == [n \in Nat |-> Begun(n)[n]]
<1>1. Stacks(kinds) = CHOOSE f : Is(f)
  BY DEF Stacks
<1> HIDE DEF first, next
<1>2. \A n \in Nat : \E f : Begins(n, f)
  <2> DEFINE T == {n \in Nat : \E f : Begins(n, f)}
  <2>1. 0 \in T
    <3>1. Begins(0, [i \in 0..0 |-> first])
      OBVIOUS
    <3> QED BY <3>1
  <2>2. ASSUME NEW n \in Nat, n \in T PROVE n + 1 \in T
    <3>1. PICK f : Begins(n, f)
      BY <2>2
    <3> DEFINE g == [i \in 0..(n + 1) |-> IF i <= n THEN f[i] ELSE next(n + 1, f[n])]
    <3>2. g = [i \in 0..(n + 1) |-> g[i]] /\ g[0] = first
      BY <3>1
    <3>3. ASSUME NEW i \in 0..(n + 1), i < n + 1 PROVE g[i + 1] = next(i + 1, g[i])
      <4>1. i \in 0..n /\ i + 1 \in 0..(n + 1) /\ g[i] = f[i]
        BY <3>3
      <4>2. CASE i < n
        <5>1. f[i + 1] = next(i + 1, f[i])
          BY <3>1, <4>1, <4>2
        <5>2. g[i + 1] = f[i + 1]
          BY <4>1, <4>2
        <5> QED BY <4>1, <5>1, <5>2
      <4>3. CASE i = n
        <5>1. g[n + 1] = next(n + 1, f[n])
          OBVIOUS
        <5> QED BY <4>1, <4>3, <5>1
      <4> QED BY <4>1, <4>2, <4>3
    <3>4. Begins(n + 1, g)
      BY <3>2, <3>3
    <3> HIDE DEF Begins, g
    <3> QED BY <3>4
  <2>3. Nat \subseteq T
    <3> HIDE DEF T
    <3> QED BY <2>1, <2>2, SetInduction
  <2> QED BY <2>3
<1>3. ASSUME NEW n \in Nat, NEW f, NEW g, Begins(n, f), Begins(n + 1, g)
      PROVE  f[n] = g[n]
  <2> DEFINE T == {i \in Nat : i <= n => f[i] = g[i]}
  <2>1. 0 \in T
    BY <1>3
  <2>2. ASSUME NEW i \in Nat, i \in T, i + 1 <= n PROVE f[i + 1] = g[i + 1]
    <3>1. f[i] = g[i] /\ i \in 0..n /\ i < n /\ i \in 0..(n + 1) /\ i < n + 1
      BY <2>2
    <3>2. f[i + 1] = next(i + 1, f[i]) /\ g[i + 1] = next(i + 1, g[i])
      BY <1>3, <3>1
    <3> QED BY <3>1, <3>2
  <2>3. ASSUME NEW i \in Nat, i \in T PROVE i + 1 \in T
    <3>1. i + 1 <= n => f[i + 1] = g[i + 1]
      BY <2>2, <2>3
    <3> QED BY <3>1
  <2>4. Nat \subseteq T
    <3> HIDE DEF T
    <3> QED BY <2>1, <2>3, SetInduction
  <2> QED BY <2>4
<1>4. \A n \in Nat : Begins(n, Begun(n))
  BY <1>2
<1> HIDE DEF Begun
<1>5. F[0] = first
  BY <1>4
<1>6. ASSUME NEW n \in Nat PROVE F[n + 1] = next(n + 1, F[n])
  <2>1. Begins(n, Begun(n)) /\ Begins(n + 1, Begun(n + 1))
    <3> HIDE DEF Begins
    <3> QED BY <1>4
  <2>2. Begun(n)[n] = Begun(n + 1)[n]
    <3> HIDE DEF Begins
    <3> QED BY <2>1, <1>3
  <2> QED BY <2>1, <2>2
<1>7. Is(F)
  <2>1. \A n \in Nat : F[n] = IF n = 0 THEN first ELSE next(n, F[n - 1])
    <3> HIDE DEF F
    <3>1. ASSUME NEW n \in Nat, n # 0 PROVE F[n] = next(n, F[n - 1])
      <4>1. n - 1 \in Nat /\ (n - 1) + 1 = n
        BY <3>1
      <4> QED BY <4>1, <1>6
    <3> QED BY <1>5, <3>1
  <2> QED BY <2>1
<1>8. Is(Stacks(kinds))
  <2> HIDE DEF Is
  <2> QED BY <1>1, <1>7
<1>9. Stacks(kinds)[0] = first
  BY <1>8
<1>10. ASSUME NEW d \in Nat PROVE Stacks(kinds)[d + 1] = next(d + 1, Stacks(kinds)[d])
  BY <1>8
<1> QED BY <1>9, <1>10 DEF first, next

LEMMA ConvertIs ==
  ASSUME NEW table
  PROVE  /\ Convert(table)[0] = [items \in {<<>>} |-> <<>>]
         /\ \A d \in Nat : Convert(table)[d + 1] =
              [items \in Stacks(ValueKinds)[d + 1] |-> Renamed(items, table, Convert(table)[d])]
<1> DEFINE first == [items \in {<<>>} |-> <<>>]
           next(d, x) == [items \in Stacks(ValueKinds)[d] |-> Renamed(items, table, x)]
           Begins(n, f) == /\ f = [i \in 0..n |-> f[i]] /\ f[0] = first
                           /\ \A i \in 0..n : i < n => f[i + 1] = next(i + 1, f[i])
           Is(f) == f = [d \in Nat |-> IF d = 0 THEN first ELSE next(d, f[d - 1])]
           Begun(n) == CHOOSE f : Begins(n, f)
           F == [n \in Nat |-> Begun(n)[n]]
<1>1. Convert(table) = CHOOSE f : Is(f)
  BY DEF Convert
<1> HIDE DEF first, next
<1>2. \A n \in Nat : \E f : Begins(n, f)
  <2> DEFINE T == {n \in Nat : \E f : Begins(n, f)}
  <2>1. 0 \in T
    <3>1. Begins(0, [i \in 0..0 |-> first])
      OBVIOUS
    <3> QED BY <3>1
  <2>2. ASSUME NEW n \in Nat, n \in T PROVE n + 1 \in T
    <3>1. PICK f : Begins(n, f)
      BY <2>2
    <3> DEFINE g == [i \in 0..(n + 1) |-> IF i <= n THEN f[i] ELSE next(n + 1, f[n])]
    <3>2. g = [i \in 0..(n + 1) |-> g[i]] /\ g[0] = first
      BY <3>1
    <3>3. ASSUME NEW i \in 0..(n + 1), i < n + 1 PROVE g[i + 1] = next(i + 1, g[i])
      <4>1. i \in 0..n /\ i + 1 \in 0..(n + 1) /\ g[i] = f[i]
        BY <3>3
      <4>2. CASE i < n
        <5>1. f[i + 1] = next(i + 1, f[i])
          BY <3>1, <4>1, <4>2
        <5>2. g[i + 1] = f[i + 1]
          BY <4>1, <4>2
        <5> QED BY <4>1, <5>1, <5>2
      <4>3. CASE i = n
        <5>1. g[n + 1] = next(n + 1, f[n])
          OBVIOUS
        <5> QED BY <4>1, <4>3, <5>1
      <4> QED BY <4>1, <4>2, <4>3
    <3>4. Begins(n + 1, g)
      BY <3>2, <3>3
    <3> HIDE DEF Begins, g
    <3> QED BY <3>4
  <2>3. Nat \subseteq T
    <3> HIDE DEF T
    <3> QED BY <2>1, <2>2, SetInduction
  <2> QED BY <2>3
<1>3. ASSUME NEW n \in Nat, NEW f, NEW g, Begins(n, f), Begins(n + 1, g)
      PROVE  f[n] = g[n]
  <2> DEFINE T == {i \in Nat : i <= n => f[i] = g[i]}
  <2>1. 0 \in T
    BY <1>3
  <2>2. ASSUME NEW i \in Nat, i \in T, i + 1 <= n PROVE f[i + 1] = g[i + 1]
    <3>1. f[i] = g[i] /\ i \in 0..n /\ i < n /\ i \in 0..(n + 1) /\ i < n + 1
      BY <2>2
    <3>2. f[i + 1] = next(i + 1, f[i]) /\ g[i + 1] = next(i + 1, g[i])
      BY <1>3, <3>1
    <3> QED BY <3>1, <3>2
  <2>3. ASSUME NEW i \in Nat, i \in T PROVE i + 1 \in T
    <3>1. i + 1 <= n => f[i + 1] = g[i + 1]
      BY <2>2, <2>3
    <3> QED BY <3>1
  <2>4. Nat \subseteq T
    <3> HIDE DEF T
    <3> QED BY <2>1, <2>3, SetInduction
  <2> QED BY <2>4
<1>4. \A n \in Nat : Begins(n, Begun(n))
  BY <1>2
<1> HIDE DEF Begun
<1>5. F[0] = first
  BY <1>4
<1>6. ASSUME NEW n \in Nat PROVE F[n + 1] = next(n + 1, F[n])
  <2>1. Begins(n, Begun(n)) /\ Begins(n + 1, Begun(n + 1))
    <3> HIDE DEF Begins
    <3> QED BY <1>4
  <2>2. Begun(n)[n] = Begun(n + 1)[n]
    <3> HIDE DEF Begins
    <3> QED BY <2>1, <1>3
  <2> QED BY <2>1, <2>2
<1>7. Is(F)
  <2>1. \A n \in Nat : F[n] = IF n = 0 THEN first ELSE next(n, F[n - 1])
    <3> HIDE DEF F
    <3>1. ASSUME NEW n \in Nat, n # 0 PROVE F[n] = next(n, F[n - 1])
      <4>1. n - 1 \in Nat /\ (n - 1) + 1 = n
        BY <3>1
      <4> QED BY <4>1, <1>6
    <3> QED BY <1>5, <3>1
  <2> QED BY <2>1
<1>8. Is(Convert(table))
  <2> HIDE DEF Is
  <2> QED BY <1>1, <1>7
<1>9. Convert(table)[0] = first
  BY <1>8
<1>10. ASSUME NEW d \in Nat PROVE Convert(table)[d + 1] = next(d + 1, Convert(table)[d])
  BY <1>8
<1> QED BY <1>9, <1>10 DEF first, next

(* What the loop keeps is of the stack, and of a kind that is known.       *)
LEMMA KeptFacts ==
  ASSUME NEW V, NEW items \in Seq(V), NEW kinds
  PROVE  Kept(items, kinds) \in Seq({v \in {items[n] : n \in DOMAIN items} : v.kind \in kinds})
<1> DEFINE d == Len(items)
           K == {v \in {items[n] : n \in DOMAIN items} : v.kind \in kinds}
           S == Seq(K)
           next(n, x) == IF items[n].kind \in kinds THEN Append(x, items[n]) ELSE x
           Is(f) == f = [n \in 0..d |-> IF n = 0 THEN <<>> ELSE next(n, f[n - 1])]
           out == CHOOSE f : Is(f)
<1>1. Kept(items, kinds) = out[d]
  BY DEF Kept
<1>2. d \in Nat /\ DOMAIN items = 1..d
  OBVIOUS
<1>3. ASSUME NEW n \in 1..d, NEW x \in S PROVE next(n, x) \in S
  <2>1. CASE items[n].kind \in kinds
    <3>1. items[n] \in K
      BY <1>2, <2>1
    <3> HIDE DEF K
    <3> QED BY <2>1, <3>1
  <2>2. CASE items[n].kind \notin kinds
    BY <2>2
  <2> QED BY <2>1, <2>2
<1>4. PICK step : step = [n \in 1..d |-> [x \in S |-> next(n, x)]]
  OBVIOUS
<1>5. Steps(S, <<>>, d, step)
  <2>1. step \in [1..d -> [S -> S]]
    <3> HIDE DEF S, d, next
    <3> QED BY <1>3, <1>4
  <2>2. <<>> \in S
    <3> HIDE DEF K
    <3> QED OBVIOUS
  <2> HIDE DEF S
  <2> QED BY <1>2, <2>1, <2>2 DEF Steps
<1> HIDE DEF S, d, next
<1>6. PICK f \in [0..d -> S] : \A i \in 0..d : f[i] = IF i = 0 THEN <<>> ELSE step[i][f[i - 1]]
  BY ONLY <1>5, StepRecursion
<1>7. ASSUME NEW i \in 0..d PROVE f[i] = IF i = 0 THEN <<>> ELSE next(i, f[i - 1])
  <2>1. CASE i = 0
    BY <1>6, <2>1
  <2>2. CASE i # 0
    <3>1. i \in 1..d /\ i - 1 \in 0..d
      BY <1>2, <2>2
    <3>2. f[i - 1] \in S /\ f[i] = step[i][f[i - 1]]
      BY <1>6, <2>2, <3>1
    <3> QED BY <1>4, <2>2, <3>1, <3>2
  <2> QED BY <2>1, <2>2
<1>8. Is(f)
  BY <1>6, <1>7
<1>9. Is(out)
  <2> HIDE DEF Is
  <2> QED BY <1>8
<1>10. \A i \in 0..d : out[i] = IF i = 0 THEN <<>> ELSE next(i, out[i - 1])
  <2> HIDE DEF out
  <2> QED BY <1>9
<1> HIDE DEF out
<1> DEFINE T == {i \in Nat : i \in 0..d => out[i] \in S}
<1>11. 0 \in T
  <2> QED BY <1>2, <1>5, <1>10 DEF Steps
<1>12. ASSUME NEW i \in Nat, i \in T PROVE i + 1 \in T
  <2> SUFFICES ASSUME i + 1 \in 0..d PROVE out[i + 1] \in S
    OBVIOUS
  <2>1. i \in 0..d /\ i + 1 \in 1..d /\ (i + 1) - 1 = i
    BY <1>2
  <2>2. out[i] \in S /\ out[i + 1] = next(i + 1, out[i])
    BY <1>10, <1>12, <2>1
  <2> QED BY <1>3, <2>1, <2>2
<1>13. Nat \subseteq T
  <2> HIDE DEF T
  <2> QED BY <1>11, <1>12, SetInduction
<1>14. out[d] \in S
  BY <1>2, <1>13
<1> QED BY <1>1, <1>14 DEF S, d

(* It depends on which of the kinds in the stack are known, no others.     *)
LEMMA KeptSame ==
  ASSUME NEW V, NEW items \in Seq(V), NEW kinds, NEW others,
         \A n \in DOMAIN items : items[n].kind \in kinds <=> items[n].kind \in others
  PROVE  Kept(items, kinds) = Kept(items, others)
<1> DEFINE d == Len(items)
           P(f) == f = [n \in 0..d |->
                         IF n = 0 THEN <<>>
                         ELSE IF items[n].kind \in kinds THEN Append(f[n - 1], items[n]) ELSE f[n - 1]]
           Q(f) == f = [n \in 0..d |->
                         IF n = 0 THEN <<>>
                         ELSE IF items[n].kind \in others THEN Append(f[n - 1], items[n]) ELSE f[n - 1]]
<1>1. Kept(items, kinds) = (CHOOSE f : P(f))[d] /\ Kept(items, others) = (CHOOSE f : Q(f))[d]
  BY DEF Kept
<1>2. ASSUME NEW n \in 0..d, n # 0 PROVE items[n].kind \in kinds <=> items[n].kind \in others
  BY <1>2
<1>3. \A f : P(f) <=> Q(f)
  <2> TAKE f
  <2>1. [n \in 0..d |-> IF n = 0 THEN <<>>
                        ELSE IF items[n].kind \in kinds THEN Append(f[n - 1], items[n]) ELSE f[n - 1]]
        = [n \in 0..d |-> IF n = 0 THEN <<>>
                        ELSE IF items[n].kind \in others THEN Append(f[n - 1], items[n]) ELSE f[n - 1]]
    BY <1>2
  <2> QED BY <2>1
<1>4. (CHOOSE f : P(f)) = (CHOOSE f : Q(f))
  <2> HIDE DEF P, Q
  <2> QED BY <1>3
<1> QED BY <1>1, <1>4

(* Two tables that agree on a stack make the same of it.                   *)
LEMMA RenamedSame ==
  ASSUME NEW V, NEW items \in Seq(V), NEW table, NEW other, NEW nested, NEW inner,
         \A n \in DOMAIN items :
           /\ items[n].kind \in DOMAIN table <=> items[n].kind \in DOMAIN other
           /\ items[n].kind \in DOMAIN table =>
                table[items[n].kind] = other[items[n].kind] /\ nested[items[n].of] = inner[items[n].of]
  PROVE  Renamed(items, table, nested) = Renamed(items, other, inner)
<1> DEFINE kept == Kept(items, DOMAIN table)
           K == {v \in {items[n] : n \in DOMAIN items} : v.kind \in DOMAIN table}
<1>1. Kept(items, DOMAIN other) = kept
  BY KeptSame
<1>2. kept \in Seq(K)
  BY KeptFacts
<1>3. \A v \in K : table[v.kind] = other[v.kind] /\ nested[v.of] = inner[v.of]
  OBVIOUS
<1>4. \A i \in DOMAIN kept : kept[i] \in K
  <2> HIDE DEF kept, K
  <2> QED BY <1>2
<1>5. \A i \in DOMAIN kept : /\ table[kept[i].kind] = other[kept[i].kind]
                              /\ nested[kept[i].of] = inner[kept[i].of]
  <2> HIDE DEF kept, K
  <2> QED BY <1>3, <1>4
<1> HIDE DEF kept
<1> QED BY <1>1, <1>5 DEF Renamed, kept

LEMMA NothingKept ==
  ASSUME NEW table, NEW d \in Nat
  PROVE  Convert(table)[d][<<>>] = <<>>
<1>1. CASE d = 0
  BY <1>1, ConvertIs
<1>2. CASE d # 0
  <2>1. PICK e \in Nat : d = e + 1
    <3>1. d - 1 \in Nat /\ d = (d - 1) + 1
      BY <1>2
    <3> QED BY <3>1
  <2> DEFINE stacks == Stacks(ValueKinds)[d]
  <2>2. <<>> \in stacks
    <3>1. stacks = Seq(Items(ValueKinds, Stacks(ValueKinds)[e]))
      BY <2>1, StacksAre
    <3> HIDE DEF stacks
    <3> QED BY <3>1
  <2>3. Convert(table)[d] = [items \in stacks |-> Renamed(items, table, Convert(table)[e])]
    <3>1. Convert(table)[e + 1] =
            [items \in Stacks(ValueKinds)[e + 1] |-> Renamed(items, table, Convert(table)[e])]
      BY ConvertIs
    <3> QED BY <2>1, <3>1
  <2>4. Convert(table)[d][<<>>] = Renamed(<<>>, table, Convert(table)[e])
    <3> HIDE DEF stacks
    <3> QED BY <2>2, <2>3
  <2>5. Kept(<<>>, DOMAIN table) = <<>>
    <3>1. Kept(<<>>, DOMAIN table) \in Seq({v \in {<<>>[n] : n \in DOMAIN <<>>} : v.kind \in DOMAIN table})
      <4>1. <<>> \in Seq({})
        OBVIOUS
      <4> QED BY <4>1, KeptFacts
    <3>2. {v \in {<<>>[n] : n \in DOMAIN <<>>} : v.kind \in DOMAIN table} = {}
      OBVIOUS
    <3>3. Kept(<<>>, DOMAIN table) \in Seq({})
      BY <3>1, <3>2
    <3> QED BY <3>3
  <2> QED BY <2>4, <2>5 DEF Renamed
<1> QED BY <1>1, <1>2

LEMMA StacksGrow ==
  ASSUME NEW kinds, NEW more, kinds \subseteq more, NEW d \in Nat
  PROVE  Stacks(kinds)[d] \subseteq Stacks(more)[d]
<1> DEFINE T == {e \in Nat : Stacks(kinds)[e] \subseteq Stacks(more)[e]}
<1>1. 0 \in T
  BY StacksAre
<1>2. ASSUME NEW e \in Nat, e \in T PROVE e + 1 \in T
  <2> DEFINE held == Stacks(kinds)[e]
             others == Stacks(more)[e]
  <2>1. held \subseteq others
    BY <1>2
  <2>2. /\ Stacks(kinds)[e + 1] = Seq(Items(kinds, held))
        /\ Stacks(more)[e + 1] = Seq(Items(more, others))
    BY StacksAre
  <2> HIDE DEF held, others
  <2>3. Items(kinds, held) \subseteq Items(more, others)
    BY <2>1 DEF Items
  <2>4. Seq(Items(kinds, held)) \subseteq Seq(Items(more, others))
    <3> DEFINE a == Items(kinds, held)
               b == Items(more, others)
    <3>1. a \subseteq b
      BY <2>3
    <3> HIDE DEF a, b
    <3>2. Seq(a) \subseteq Seq(b)
      BY <3>1
    <3> QED BY <3>2 DEF a, b
  <2> QED BY <2>2, <2>4
<1>3. Nat \subseteq T
  <2> HIDE DEF T
  <2> QED BY <1>1, <1>2, SetInduction
<1> QED BY <1>3

(* Of the kinds two libraries read alike they make the same, at the top of *)
(* a stack and within its tuples and lists; the rest that may come with    *)
(* them both leave out.                                                    *)
LEMMA TablesSame ==
  ASSUME NEW c \in Libraries, NEW e \in Libraries
  PROVE  /\ Common(c, e) \subseteq TvmKinds
         /\ \A k \in Common(c, e) : /\ k \in DOMAIN Decodes[c] /\ k \in DOMAIN Decodes[e]
                                   /\ k \in DOMAIN Nested[c] /\ k \in DOMAIN Nested[e]
                                   /\ Decodes[c][k] = Decodes[e][k] /\ Nested[c][k] = Nested[e][k]
         /\ \A k \in {"builder", "other"} : k \notin DOMAIN Decodes[c] /\ k \notin DOMAIN Decodes[e]
<1> DEFINE plain == {"null", "num", "cell", "slice", "addressCell", "tuple"}
           full == plain \cup {"address", "list"}
<1>1. /\ Decodes["lite"] = LiteDecodes /\ Decodes["toncenter"] = ToncenterDecodes
      /\ Decodes["tonapi"] = TonapiDecodes
      /\ Nested["lite"] = LiteDecodes /\ Nested["toncenter"] = DecodeEntry
      /\ Nested["tonapi"] = TonapiDecodes
  BY DEF Decodes, Nested
<1>2. /\ DOMAIN ToncenterDecodes = full /\ DOMAIN LiteDecodes = full
      /\ DOMAIN TonapiDecodes = full \cup {"nan"}
  BY DEF ToncenterDecodes, TonapiDecodes, LiteDecodes
<1>3. \A k \in full : TonapiDecodes[k] = ToncenterDecodes[k]
  BY DEF ToncenterDecodes, TonapiDecodes
<1>4. \A k \in plain : LiteDecodes[k] = ToncenterDecodes[k]
  BY DEF ToncenterDecodes, LiteDecodes
<1>5. \A k \in full : k \in DOMAIN DecodeEntry /\ DecodeEntry[k] = ToncenterDecodes[k]
  BY <1>2 DEF DecodeEntry, ValueKinds, TvmKinds
<1>6. Common(c, e) = IF "lite" \in {c, e} THEN plain ELSE full
  BY DEF Common
<1>7. c \in {"lite", "toncenter", "tonapi"} /\ e \in {"lite", "toncenter", "tonapi"}
  BY DEF Libraries
<1>8. full \subseteq TvmKinds /\ "builder" \notin full \cup {"nan"} /\ "other" \notin full \cup {"nan"}
  BY DEF TvmKinds
<1>9. plain \subseteq full
  OBVIOUS
<1> HIDE DEF plain, full
<1>10. ASSUME NEW x \in {c, e}, NEW k \in Common(c, e)
       PROVE  /\ k \in DOMAIN Decodes[x] /\ k \in DOMAIN Nested[x]
              /\ Decodes[x][k] = ToncenterDecodes[k] /\ Nested[x][k] = ToncenterDecodes[k]
  <2>1. CASE x = "lite"
    <3>1. k \in plain
      BY <1>6, <2>1
    <3> QED BY <1>1, <1>2, <1>4, <1>9, <2>1, <3>1
  <2>2. CASE x = "toncenter"
    BY <1>1, <1>2, <1>5, <1>6, <1>9, <2>2
  <2>3. CASE x = "tonapi"
    BY <1>1, <1>2, <1>3, <1>6, <1>9, <2>3
  <2> QED BY <1>7, <2>1, <2>2, <2>3
<1>11. ASSUME NEW x \in {c, e}, NEW k \in {"builder", "other"} PROVE k \notin DOMAIN Decodes[x]
  BY <1>1, <1>2, <1>7, <1>8
<1> QED BY <1>6, <1>8, <1>9, <1>10, <1>11

LEMMA NestedSame ==
  ASSUME NEW c \in Libraries, NEW f \in Libraries, NEW d \in Nat, NEW items \in Stacks(Common(c, f))[d]
  PROVE  Convert(Nested[c])[d][items] = Convert(Nested[f])[d][items]
<1> DEFINE kinds == Common(c, f)
           ours == Nested[c]
           theirs == Nested[f]
           Same(e) == \A s \in Stacks(kinds)[e] : Convert(ours)[e][s] = Convert(theirs)[e][s]
           T == {e \in Nat : Same(e)}
<1>0. kinds \subseteq ValueKinds /\ \A k \in kinds : /\ k \in DOMAIN ours /\ k \in DOMAIN theirs
                                                    /\ ours[k] = theirs[k]
  BY TablesSame DEF ValueKinds
<1> HIDE DEF kinds, ours, theirs
<1>1. 0 \in T
  <2>1. Same(0)
    BY ConvertIs
  <2> QED BY <2>1
<1>2. ASSUME NEW e \in Nat, e \in T PROVE e + 1 \in T
  <2> SUFFICES ASSUME NEW s \in Stacks(kinds)[e + 1]
               PROVE  Convert(ours)[e + 1][s] = Convert(theirs)[e + 1][s]
    OBVIOUS
  <2> DEFINE held == Stacks(kinds)[e]
             V == Items(kinds, held)
             one == Convert(ours)[e]
             other == Convert(theirs)[e]
  <2>2. s \in Seq(V)
    BY StacksAre
  <2>3. s \in Stacks(ValueKinds)[e + 1]
    BY <1>0, StacksGrow
  <2>4. /\ Convert(ours)[e + 1][s] = Renamed(s, ours, one)
        /\ Convert(theirs)[e + 1][s] = Renamed(s, theirs, other)
    <3> DEFINE stacks == Stacks(ValueKinds)[e + 1]
    <3>1. /\ Convert(ours)[e + 1] = [t \in stacks |-> Renamed(t, ours, one)]
          /\ Convert(theirs)[e + 1] = [t \in stacks |-> Renamed(t, theirs, other)]
      BY ConvertIs
    <3>2. s \in stacks
      BY <2>3
    <3> HIDE DEF stacks, one, other
    <3> QED BY <3>1, <3>2
  <2>5. \A t \in held \cup {<<>>} : one[t] = other[t]
    BY <1>2, NothingKept
  <2>6. ASSUME NEW v \in V
        PROVE  /\ v.kind \in DOMAIN ours <=> v.kind \in DOMAIN theirs
               /\ ours[v.kind] = theirs[v.kind] /\ one[v.of] = other[v.of]
    <3>1. v.kind \in kinds /\ v.of \in held \cup {<<>>}
      <4> HIDE DEF held
      <4> QED BY DEF Items
    <3>2. one[v.of] = other[v.of]
      <4> HIDE DEF held, one, other
      <4> QED BY <2>5, <3>1
    <3> QED BY <1>0, <3>1, <3>2
  <2> HIDE DEF one, other, V
  <2>7. \A n \in DOMAIN s : s[n] \in V
    BY <2>2
  <2>8. Renamed(s, ours, one) = Renamed(s, theirs, other)
    BY <2>2, <2>6, <2>7, RenamedSame
  <2> QED BY <2>4, <2>8
<1>3. Nat \subseteq T
  <2> HIDE DEF T
  <2> QED BY <1>1, <1>2, SetInduction
<1> QED BY <1>3 DEF kinds, ours, theirs

(* What two clients make of a stack that both read alike.                  *)
LEMMA DecodedSame ==
  ASSUME NEW c \in Libraries, NEW e \in Libraries, NEW V, NEW items \in Seq(V),
         Depth \in Nat \ {0}, Carried(items, c, e),
         \A n \in DOMAIN items : items[n].kind \in {"tuple", "list"} \/ items[n].of = <<>>
  PROVE  DecodeStack(c, items) = DecodeStack(e, items)
<1> DEFINE inner(x) == Convert(Nested[x])[Depth - 1]
           held == Stacks(Common(c, e))[Depth - 1]
<1>1. Depth - 1 \in Nat
  OBVIOUS
<1>2. \A t \in held \cup {<<>>} : inner(c)[t] = inner(e)[t]
  <2> TAKE t \in held \cup {<<>>}
  <2>1. CASE t = <<>>
    BY <1>1, <2>1, NothingKept
  <2>2. CASE t \in held
    BY <1>1, <2>2, NestedSame
  <2> QED BY <2>1, <2>2
<1>3. \A n \in DOMAIN items : items[n].of \in held \cup {<<>>}
  BY DEF Carried
<1>4. ASSUME NEW n \in DOMAIN items
      PROVE  /\ items[n].kind \in DOMAIN Decodes[c] <=> items[n].kind \in DOMAIN Decodes[e]
             /\ items[n].kind \in DOMAIN Decodes[c] =>
                  /\ Decodes[c][items[n].kind] = Decodes[e][items[n].kind]
                  /\ inner(c)[items[n].of] = inner(e)[items[n].of]
  <2>1. items[n].kind \in Common(c, e) \cup {"builder", "other"}
    BY DEF Carried
  <2>2. inner(c)[items[n].of] = inner(e)[items[n].of]
    <3> HIDE DEF inner, held
    <3> QED BY <1>2, <1>3
  <2> HIDE DEF inner
  <2> QED BY <2>1, <2>2, TablesSame
<1> HIDE DEF inner
<1>5. Renamed(items, Decodes[c], inner(c)) = Renamed(items, Decodes[e], inner(e))
  BY <1>4, RenamedSame
<1> QED BY <1>5 DEF DecodeStack, inner

(* The arguments of Portable, and what they become.                        *)
Sent(c, e) == {"int", "Cell", "Slice", "other"} \cup (IF "lite" \in {c, e} THEN {} ELSE {"Address"})
SimpleKinds(c, e) == {"num", "cell", "slice"} \cup (IF "lite" \in {c, e} THEN {} ELSE {"address"})

(* Arguments that both send become the same simple values, which both read *)
(* alike.                                                                  *)
LEMMA EncodedSame ==
  ASSUME NEW items \in Stacks(PythonKinds)[Depth], Depth \in Nat \ {0},
         NEW c \in Libraries, NEW e \in Libraries,
         \A n \in DOMAIN items : items[n].kind \in Sent(c, e)
  PROVE  /\ EncodeStack(c, items) = EncodeStack(e, items)
         /\ EncodeStack(c, items) \in Seq([kind : SimpleKinds(c, e), of : {<<>>}])
<1> DEFINE simple == Sent(c, e)
           V == [kind : simple, of : {<<>>}]
           held == Stacks(PythonKinds)[Depth - 1]
           table == [int |-> "num", Address |-> "address", Cell |-> "cell", Slice |-> "slice"]
           inner(x) == Convert(Encodes[x])[Depth - 1]
           plain == [t \in {<<>>} |-> <<>>]
<1>1. Depth - 1 \in Nat /\ (Depth - 1) + 1 = Depth
  OBVIOUS
<1>2. items \in Seq(V)
  <2>1. items \in Seq(Items(PythonKinds, held))
    <3>1. Stacks(PythonKinds)[(Depth - 1) + 1] = Seq(Items(PythonKinds, held))
      BY <1>1, StacksAre
    <3> QED BY <1>1, <3>1
  <2> HIDE DEF held
  <2>2. ASSUME NEW n \in DOMAIN items PROVE items[n] \in V
    <3>1. items[n] \in Items(PythonKinds, held) /\ items[n].kind \in simple
      BY <2>1
    <3>2. items[n] \in [kind : PythonKinds, of : {<<>>}]
      BY <3>1 DEF Items, PythonKinds, Sent
    <3> QED BY <3>1, <3>2
  <2> HIDE DEF V
  <2> QED BY <2>1, <2>2
<1>3. ASSUME NEW x \in Libraries
      PROVE  /\ \A k \in simple : /\ k \in DOMAIN Encodes[x] <=> k \in DOMAIN table
                                  /\ k \in DOMAIN table => Encodes[x][k] = table[k]
             /\ inner(x)[<<>>] = plain[<<>>]
  <2>1. Encodes[x] \in {LiteEncodes, TonapiEncodes}
    BY DEF Encodes, Libraries, ToncenterEncodes
  <2>2. inner(x)[<<>>] = <<>>
    BY <1>1, NothingKept
  <2>3. \A k \in simple : /\ k \in DOMAIN Encodes[x] <=> k \in DOMAIN table
                          /\ k \in DOMAIN table => Encodes[x][k] = table[k]
    <3>1. CASE Encodes[x] = LiteEncodes
      BY <3>1 DEF LiteEncodes, Sent
    <3>2. CASE Encodes[x] = TonapiEncodes
      BY <3>2 DEF TonapiEncodes, Sent
    <3> QED BY <2>1, <3>1, <3>2
  <2> QED BY <2>2, <2>3
<1>4. ASSUME NEW x \in Libraries
      PROVE  EncodeStack(x, items) = Renamed(items, table, plain)
  <2> HIDE DEF inner, plain
  <2>1. \A n \in DOMAIN items : items[n].kind \in simple /\ items[n].of = <<>>
    <3>1. \A v \in V : v.kind \in simple /\ v.of = <<>>
      OBVIOUS
    <3> HIDE DEF V
    <3> QED BY <1>2, <3>1
  <2>2. Renamed(items, table, plain) = Renamed(items, Encodes[x], inner(x))
    <3> HIDE DEF simple, table, V
    <3> QED BY <1>2, <1>3, <2>1, RenamedSame
  <2> QED BY <2>2 DEF EncodeStack, inner
<1>5. Renamed(items, table, plain) \in Seq([kind : SimpleKinds(c, e), of : {<<>>}])
  <2> DEFINE kept == Kept(items, DOMAIN table)
             K == {v \in {items[n] : n \in DOMAIN items} : v.kind \in DOMAIN table}
  <2>1. kept \in Seq(K)
    <3> HIDE DEF V, table
    <3> QED BY <1>2, KeptFacts
  <2>2. \A v \in K : table[v.kind] \in SimpleKinds(c, e) /\ plain[v.of] = <<>>
    <3>1. K \subseteq V
      <4> HIDE DEF V
      <4> QED BY <1>2
    <3>2. \A v \in V : v.kind \in Sent(c, e) /\ v.of = <<>>
      OBVIOUS
    <3>3. \A k \in Sent(c, e) : k \in DOMAIN table => table[k] \in SimpleKinds(c, e)
      BY DEF Sent, SimpleKinds
    <3>4. plain[<<>>] = <<>>
      OBVIOUS
    <3> HIDE DEF table, plain, V
    <3> QED BY <3>1, <3>2, <3>3, <3>4
  <2>3. \A i \in DOMAIN kept : /\ table[kept[i].kind] \in SimpleKinds(c, e)
                                /\ plain[kept[i].of] = <<>>
    <3> HIDE DEF kept, K, table, plain
    <3> QED BY <2>1, <2>2
  <2>4. DOMAIN kept = 1..Len(kept) /\ Len(kept) \in Nat
    <3> HIDE DEF kept, K
    <3> QED BY <2>1
  <2> DEFINE entry(i) == [kind |-> table[kept[i].kind], of |-> plain[kept[i].of]]
  <2>5. Renamed(items, table, plain) = [i \in 1..Len(kept) |-> entry(i)]
    <3> HIDE DEF table, plain
    <3> QED BY <2>4 DEF Renamed
  <2>6. \A i \in 1..Len(kept) : entry(i) \in [kind : SimpleKinds(c, e), of : {<<>>}]
    <3> HIDE DEF kept, table, plain
    <3> QED BY <2>3, <2>4
  <2> HIDE DEF kept, table, plain, entry
  <2> QED BY <2>4, <2>5, <2>6
<1> QED BY <1>4, <1>5
(* What a get-method comes to through a client; what dnsresolve() makes of *)
(* the answer for n bytes, "" if it asks the next resolver; and from where *)
(* it gets, asking on, to m bytes.                                         *)
RunGives(c) ==
  LET stack == EncodeStack(c, given) \o returned
  IN CASE c = "lite" -> RunLite(stack)
       [] c = "toncenter" -> RunToncenter(stack)
       [] c = "tonapi" -> RunTonapi(stack)

Verdict(c, n) ==
  LET said == resolver[n]
      res == DecodeStack(c, said.stack)
  IN IF Len(res) < 2 THEN "ProviderError"
     ELSE IF res[2].kind = "None" THEN "None"
     ELSE IF res[1].kind # "int" THEN "TypeError"
     ELSE IF said.rlen % 8 # 0 \/ said.rlen > 8 * n THEN "ProviderError"
     ELSE IF res[2].kind # "Cell" THEN "AttributeError"
     ELSE IF said.rlen = 8 * n THEN "record" ELSE ""

Further(n) == n - resolver[n].rlen \div 8
GoesOnWithin(c, S) == \A n \in S : Verdict(c, n) = "" => Further(n) \in S
AsksAt(c, n, m) == \A S \in SUBSET (1..Domain) : n \in S /\ GoesOnWithin(c, S) => m \in S
Alike(c, e) == \A n \in 1..Domain : Verdict(c, n) = Verdict(e, n)

MethodsTypeOK ==
  /\ given \in Stacks(PythonKinds)[Depth] /\ returned \in Stacks(TvmKinds)[Depth]
  /\ exit \in {"missing", "0", "11"}
  /\ DOMAIN got = Libraries /\ DOMAIN resolved = Libraries
  /\ resolver \in [1..Domain -> [stack : Stacks(TvmKinds)[Depth], rlen : Nat]]
  /\ bytesLeft \in [Libraries -> 1..Domain]
AnswersRight == \A c \in Libraries : got[c] \in {Nothing, RunGives(c)}
VerdictsRight == \A c \in Libraries : resolved[c] \in {"", Verdict(c, bytesLeft[c])}
OnePath ==
  \A c, e \in Libraries : Alike(c, e) =>
    AsksAt(c, bytesLeft[c], bytesLeft[e]) \/ AsksAt(c, bytesLeft[e], bytesLeft[c])

MethodsInv == MethodsTypeOK /\ AnswersRight /\ VerdictsRight /\ OnePath

LEMMA RunsAgree ==
  ASSUME MethodsTypeOK, exit # "missing", NEW c \in Libraries, NEW e \in Libraries, Portable(c, e)
  PROVE  RunGives(c) = RunGives(e)
<1> DEFINE held == Stacks(TvmKinds)[Depth - 1]
           simple == [kind : SimpleKinds(c, e), of : {<<>>}]
           V == simple \cup Items(TvmKinds, held)
           encoded == EncodeStack(c, given)
           stack == encoded \o returned
           nests(v) == v.kind \in {"tuple", "list"} \/ v.of = <<>>
<1>1. Depth \in Nat \ {0} /\ Depth - 1 \in Nat /\ (Depth - 1) + 1 = Depth
  BY MethodsAssumption
<1>2. given \in Stacks(PythonKinds)[Depth] /\ \A n \in DOMAIN given : given[n].kind \in Sent(c, e)
  BY DEF MethodsTypeOK, Portable, Sent
<1>3. encoded = EncodeStack(e, given) /\ encoded \in Seq(simple)
  BY <1>1, <1>2, EncodedSame
<1>4. returned \in Seq(Items(TvmKinds, held))
  <2>1. Stacks(TvmKinds)[(Depth - 1) + 1] = Seq(Items(TvmKinds, held))
    BY <1>1, StacksAre
  <2> QED BY <1>1, <2>1 DEF MethodsTypeOK
<1>5. \A i \in DOMAIN returned : nests(returned[i])
  <2> TAKE i \in DOMAIN returned
  <2> HIDE DEF held
  <2>1. returned[i] \in Items(TvmKinds, held)
    BY <1>4
  <2> QED BY <2>1 DEF Items, TvmKinds
<1>6. \A i \in DOMAIN encoded : /\ nests(encoded[i]) /\ encoded[i].kind \in Common(c, e)
                               /\ encoded[i].kind \notin {"tuple", "list"}
  <2>1. \A v \in simple : /\ v.of = <<>> /\ v.kind \in Common(c, e)
                         /\ v.kind \notin {"tuple", "list"}
    BY DEF SimpleKinds, Common
  <2> HIDE DEF encoded, simple
  <2> QED BY <1>3, <2>1
<1> HIDE DEF encoded, simple, held
<1>7. stack \in Seq(V)
  <2>1. encoded \in Seq(V) /\ returned \in Seq(V)
    BY <1>3, <1>4
  <2> HIDE DEF V
  <2> QED BY <2>1
<1>8. ASSUME NEW i \in DOMAIN stack
      PROVE  /\ nests(stack[i])
             /\ stack[i].kind \in Common(c, e) \cup {"builder", "other"}
             /\ stack[i].kind \in {"tuple", "list"} => stack[i].of \in Stacks(Common(c, e))[Depth - 1]
  <2>1. CASE i <= Len(encoded)
    <3>1. i \in DOMAIN encoded /\ stack[i] = encoded[i]
      BY <1>3, <1>4, <2>1
    <3> QED BY <1>6, <3>1
  <2>2. CASE ~(i <= Len(encoded))
    <3>1. i - Len(encoded) \in DOMAIN returned /\ stack[i] = returned[i - Len(encoded)]
      BY <1>3, <1>4, <2>2
    <3> QED BY <1>5, <3>1 DEF Portable, Carried
  <2> QED BY <2>1, <2>2
<1> HIDE DEF stack, V
<1>9. DecodeStack(c, stack) = DecodeStack(e, stack)
  BY <1>1, <1>7, <1>8, DecodedSame DEF Carried
<1>10. exit \in {"0", "11"}
  BY DEF MethodsTypeOK
<1>11. c \in {"lite", "toncenter", "tonapi"} /\ e \in {"lite", "toncenter", "tonapi"}
  BY DEF Libraries
<1>12. ASSUME NEW x \in {"lite", "toncenter", "tonapi"}, EncodeStack(x, given) \o returned = stack
       PROVE  RunGives(x) = IF exit = "11" THEN Raises("RunGetMethodError") ELSE DecodeStack(x, stack)
  <2>1. /\ x = "lite" => RunGives(x) = RunLite(stack)
        /\ x = "toncenter" => RunGives(x) = RunToncenter(stack)
        /\ x = "tonapi" => RunGives(x) = RunTonapi(stack)
    BY <1>12 DEF RunGives
  <2>2. CASE exit = "0"
    BY <2>1, <2>2 DEF RunLite, RunToncenter, RunTonapi
  <2>3. CASE exit = "11"
    BY <2>1, <2>3 DEF RunLite, RunToncenter, RunTonapi
  <2> QED BY <1>10, <2>2, <2>3
<1>13. EncodeStack(c, given) \o returned = stack /\ EncodeStack(e, given) \o returned = stack
  BY <1>3 DEF stack, encoded
<1> QED BY <1>9, <1>11, <1>12, <1>13

(* Resolvers whose answers two clients read alike lead them alike.         *)
LEMMA LedAlike ==
  ASSUME MethodsTypeOK, NEW c \in Libraries, NEW e \in Libraries,
         \A n \in 1..Domain : Carried(resolver[n].stack, c, e)
  PROVE  Alike(c, e)
<1> SUFFICES ASSUME NEW n \in 1..Domain PROVE Verdict(c, n) = Verdict(e, n)
  BY DEF Alike
<1> DEFINE stack == resolver[n].stack
           held == Stacks(TvmKinds)[Depth - 1]
<1>1. Depth \in Nat \ {0} /\ Depth - 1 \in Nat /\ (Depth - 1) + 1 = Depth
  BY MethodsAssumption
<1>2. stack \in Seq(Items(TvmKinds, held))
  <2>1. Stacks(TvmKinds)[(Depth - 1) + 1] = Seq(Items(TvmKinds, held))
    BY <1>1, StacksAre
  <2> QED BY <1>1, <2>1 DEF MethodsTypeOK
<1>3. \A i \in DOMAIN stack : stack[i].kind \in {"tuple", "list"} \/ stack[i].of = <<>>
  <2> TAKE i \in DOMAIN stack
  <2> HIDE DEF held, stack
  <2>1. stack[i] \in Items(TvmKinds, held)
    BY <1>2
  <2> QED BY <2>1 DEF Items
<1>4. Carried(stack, c, e)
  OBVIOUS
<1>5. DecodeStack(c, stack) = DecodeStack(e, stack)
  <2> HIDE DEF stack, held
  <2> QED BY <1>1, <1>2, <1>3, <1>4, DecodedSame
<1> QED BY <1>5 DEF Verdict

(* One request of dnsresolve(), through any client.                        *)
LEMMA OneRequest ==
  ASSUME MethodsTypeOK, NEW c \in Libraries, DnsResolve(c)
  PROVE  LET n == bytesLeft[c]
         IN \/ /\ Verdict(c, n) # "" /\ UNCHANGED bytesLeft
               /\ resolved' = [resolved EXCEPT ![c] = Verdict(c, n)]
            \/ /\ Verdict(c, n) = "" /\ UNCHANGED resolved
               /\ bytesLeft' = [bytesLeft EXCEPT ![c] = Further(n)] /\ Further(n) \in 1..Domain
<1> DEFINE n == bytesLeft[c]
           said == resolver[n]
           res == DecodeStack(c, said.stack)
           bad == said.rlen % 8 # 0 \/ said.rlen > 8 * n
           goes == /\ bytesLeft' = [bytesLeft EXCEPT ![c] = Further(n)]
                   /\ UNCHANGED resolved
           Ends(how) == resolved' = [resolved EXCEPT ![c] = how] /\ UNCHANGED bytesLeft
<1>1. n \in 1..Domain /\ Domain \in Nat /\ said.rlen \in Nat
  BY MethodsAssumption DEF MethodsTypeOK
<1>2. IF Len(res) < 2 THEN Ends("ProviderError")
      ELSE IF res[2].kind = "None" THEN Ends("None")
      ELSE IF res[1].kind # "int" THEN Ends("TypeError")
      ELSE IF bad THEN Ends("ProviderError")
      ELSE IF res[2].kind # "Cell" THEN Ends("AttributeError")
      ELSE IF said.rlen = 8 * n THEN Ends("record") ELSE goes
  BY DEF DnsResolve, Further
<1>3. Verdict(c, n) = IF Len(res) < 2 THEN "ProviderError"
                      ELSE IF res[2].kind = "None" THEN "None"
                      ELSE IF res[1].kind # "int" THEN "TypeError"
                      ELSE IF bad THEN "ProviderError"
                      ELSE IF res[2].kind # "Cell" THEN "AttributeError"
                      ELSE IF said.rlen = 8 * n THEN "record" ELSE ""
  BY DEF Verdict
<1>4. ~bad /\ said.rlen # 8 * n => n - said.rlen \div 8 \in 1..Domain
  <2> HIDE DEF n, said
  <2> QED BY <1>1
<1>5. \/ Ends(Verdict(c, n)) /\ Verdict(c, n) # ""
      \/ goes /\ Verdict(c, n) = "" /\ ~bad /\ said.rlen # 8 * n
  <2> HIDE DEF n, said, res, bad, Ends, goes
  <2> QED BY <1>2, <1>3
<1> QED BY <1>4, <1>5 DEF Further

(* From where they get: the paths of two clients stay one.                 *)
LEMMA PathFacts ==
  ASSUME MethodsTypeOK, NEW c \in Libraries, NEW n \in 1..Domain, NEW m \in 1..Domain
  PROVE  /\ AsksAt(c, n, n)
         /\ Verdict(c, n) # "" /\ AsksAt(c, n, m) => n = m
         /\ Verdict(c, n) = "" /\ Further(n) \in 1..Domain =>
              /\ AsksAt(c, m, n) => AsksAt(c, m, Further(n))
              /\ AsksAt(c, n, m) => AsksAt(c, Further(n), m) \/ AsksAt(c, m, Further(n))
<1>1. AsksAt(c, n, n)
  BY DEF AsksAt
<1>2. ASSUME Verdict(c, n) # "", AsksAt(c, n, m) PROVE n = m
  <2>1. {n} \in SUBSET (1..Domain) /\ GoesOnWithin(c, {n})
    BY <1>2 DEF GoesOnWithin
  <2>2. m \in {n}
    BY <1>2, <2>1 DEF AsksAt
  <2> QED BY <2>2
<1>3. ASSUME Verdict(c, n) = "", Further(n) \in 1..Domain
      PROVE  /\ AsksAt(c, m, n) => AsksAt(c, m, Further(n))
             /\ AsksAt(c, n, m) => AsksAt(c, Further(n), m) \/ AsksAt(c, m, Further(n))
  <2>1. ASSUME NEW k \in 1..Domain, AsksAt(c, k, n) PROVE AsksAt(c, k, Further(n))
    <3> SUFFICES ASSUME NEW S \in SUBSET (1..Domain), k \in S, GoesOnWithin(c, S)
                 PROVE  Further(n) \in S
      BY DEF AsksAt
    <3>1. n \in S
      BY <2>1 DEF AsksAt
    <3> QED BY <1>3, <3>1 DEF GoesOnWithin
  <2>2. ASSUME AsksAt(c, n, m), m # n PROVE AsksAt(c, Further(n), m)
    <3> SUFFICES ASSUME NEW S \in SUBSET (1..Domain), Further(n) \in S, GoesOnWithin(c, S)
                 PROVE  m \in S
      BY DEF AsksAt
    <3>1. S \cup {n} \in SUBSET (1..Domain) /\ GoesOnWithin(c, S \cup {n})
      BY <1>3 DEF GoesOnWithin
    <3>2. m \in S \cup {n}
      BY <2>2, <3>1 DEF AsksAt
    <3> QED BY <2>2, <3>2
  <2>3. AsksAt(c, n, m) => AsksAt(c, Further(n), m) \/ AsksAt(c, m, Further(n))
    BY <1>1, <2>1, <2>2
  <2> QED BY <2>1, <2>3
<1> QED BY <1>1, <1>2, <1>3

(* None of this depends on what moves.                                     *)
LEMMA VerdictsStay ==
  ASSUME UNCHANGED resolver
  PROVE  /\ \A x, m : Verdict(x, m)' = Verdict(x, m)
         /\ \A x, m, k : AsksAt(x, m, k)' <=> AsksAt(x, m, k)
         /\ \A x, y : Alike(x, y)' <=> Alike(x, y)
<1>1. ASSUME NEW x, NEW m PROVE Verdict(x, m)' = Verdict(x, m)
  BY DEF Verdict
<1>2. ASSUME NEW x, NEW S PROVE GoesOnWithin(x, S)' <=> GoesOnWithin(x, S)
  <2>1. \A m : Further(m)' = Further(m)
    BY DEF Further
  <2> QED BY <1>1, <2>1 DEF GoesOnWithin
<1>3. ASSUME NEW x, NEW m, NEW k PROVE AsksAt(x, m, k)' <=> AsksAt(x, m, k)
  BY <1>2 DEF AsksAt
<1>4. ASSUME NEW x, NEW y PROVE Alike(x, y)' <=> Alike(x, y)
  BY <1>1 DEF Alike
<1> QED BY <1>1, <1>3, <1>4

LEMMA MethodsStart == MethodsInit => MethodsInv
<1> SUFFICES ASSUME MethodsInit PROVE MethodsInv
  OBVIOUS
<1>1. MethodsTypeOK
  <2>1. /\ given \in Stacks(PythonKinds)[Depth] /\ returned \in Stacks(TvmKinds)[Depth]
        /\ resolver \in [1..Domain -> [stack : Stacks(TvmKinds)[Depth], rlen : Nat]]
    BY MethodsAssumption DEF MethodsInit
  <2>2. exit \in {"missing", "0", "11"} /\ DOMAIN got = Libraries /\ DOMAIN resolved = Libraries
    BY DEF MethodsInit
  <2>3. bytesLeft \in [Libraries -> 1..Domain]
    <3>1. Domain \in 1..Domain
      BY MethodsAssumption
    <3> QED BY <3>1 DEF MethodsInit
  <2> QED BY <2>1, <2>2, <2>3 DEF MethodsTypeOK
<1>2. \A c \in Libraries : got[c] = Nothing /\ resolved[c] = "" /\ bytesLeft[c] = Domain
  BY DEF MethodsInit
<1>3. AnswersRight /\ VerdictsRight
  BY <1>2 DEF AnswersRight, VerdictsRight
<1>4. OnePath
  <2>1. Domain \in 1..Domain
    BY MethodsAssumption
  <2>2. \A c \in Libraries : AsksAt(c, Domain, Domain)
    BY <1>1, <2>1, PathFacts
  <2> QED BY <1>2, <2>2 DEF OnePath
<1> QED BY <1>1, <1>3, <1>4 DEF MethodsInv

LEMMA RunKeeps ==
  ASSUME MethodsInv, NEW c \in Libraries, RunMethod(c)
  PROVE  MethodsInv'
<1>1. UNCHANGED <<given, returned, exit, resolver, bytesLeft, resolved>>
  BY DEF RunMethod
<1>2. got' = [got EXCEPT ![c] = RunGives(c)]
  BY DEF RunMethod, RunGives
<1>3. \A e \in Libraries : RunGives(e)' = RunGives(e)
  BY <1>1 DEF RunGives, RunLite, RunToncenter, RunTonapi
<1>4. AnswersRight'
  <2> SUFFICES ASSUME NEW e \in Libraries PROVE got'[e] \in {Nothing, RunGives(e)}
    BY <1>3 DEF AnswersRight
  <2>1. DOMAIN got = Libraries /\ got[e] \in {Nothing, RunGives(e)}
    BY DEF MethodsInv, MethodsTypeOK, AnswersRight
  <2> QED BY <1>2, <2>1
<1>5. MethodsTypeOK'
  BY <1>1, <1>2 DEF MethodsInv, MethodsTypeOK
<1>6. VerdictsRight' /\ OnePath'
  BY <1>1, VerdictsStay DEF MethodsInv, VerdictsRight, OnePath
<1> QED BY <1>4, <1>5, <1>6 DEF MethodsInv

LEMMA RequestKeeps ==
  ASSUME MethodsInv, NEW c \in Libraries, DnsResolve(c)
  PROVE  MethodsInv'
<1> DEFINE n == bytesLeft[c]
<1>1. MethodsTypeOK /\ AnswersRight /\ VerdictsRight /\ OnePath
  BY DEF MethodsInv
<1>2. UNCHANGED <<given, returned, exit, got, resolver>> /\ resolved[c] = ""
  BY DEF DnsResolve
<1>3. \/ /\ Verdict(c, n) # "" /\ UNCHANGED bytesLeft
         /\ resolved' = [resolved EXCEPT ![c] = Verdict(c, n)]
      \/ /\ Verdict(c, n) = "" /\ UNCHANGED resolved
         /\ bytesLeft' = [bytesLeft EXCEPT ![c] = Further(n)] /\ Further(n) \in 1..Domain
  BY <1>1, OneRequest
<1>4. /\ \A x, m : Verdict(x, m)' = Verdict(x, m)
      /\ \A x, m, k : AsksAt(x, m, k)' <=> AsksAt(x, m, k)
      /\ \A x, y : Alike(x, y)' <=> Alike(x, y)
  BY <1>2, VerdictsStay
<1>5. MethodsTypeOK'
  BY <1>1, <1>2, <1>3 DEF MethodsTypeOK
<1>6. AnswersRight'
  <2>1. \A e \in Libraries : RunGives(e)' = RunGives(e)
    BY <1>2 DEF RunGives, RunLite, RunToncenter, RunTonapi
  <2> QED BY <1>1, <1>2, <2>1 DEF AnswersRight
<1>7. \A e \in Libraries : bytesLeft[e] \in 1..Domain
  BY <1>1 DEF MethodsTypeOK
<1>8. DOMAIN resolved = Libraries /\ DOMAIN bytesLeft = Libraries
  BY <1>1 DEF MethodsTypeOK
<1>9. VerdictsRight'
  <2> SUFFICES ASSUME NEW e \in Libraries PROVE resolved'[e] \in {"", Verdict(e, bytesLeft'[e])}
    BY <1>4 DEF VerdictsRight
  <2>1. resolved[e] \in {"", Verdict(e, bytesLeft[e])}
    BY <1>1 DEF VerdictsRight
  <2> HIDE DEF n
  <2>2. CASE e = c
    BY <1>2, <1>3, <1>8, <2>1, <2>2 DEF n
  <2>3. CASE e # c
    BY <1>3, <1>8, <2>1, <2>3
  <2> QED BY <2>2, <2>3
<1>10. OnePath'
  <2> SUFFICES ASSUME NEW d \in Libraries, NEW e \in Libraries, Alike(d, e)
               PROVE  \/ AsksAt(d, bytesLeft'[d], bytesLeft'[e])
                      \/ AsksAt(d, bytesLeft'[e], bytesLeft'[d])
    BY <1>4 DEF OnePath
  <2>1. AsksAt(d, bytesLeft[d], bytesLeft[e]) \/ AsksAt(d, bytesLeft[e], bytesLeft[d])
    BY <1>1 DEF OnePath
  <2>2. CASE UNCHANGED bytesLeft
    BY <2>1, <2>2
  <2>3. CASE /\ Verdict(c, n) = "" /\ Further(n) \in 1..Domain
             /\ bytesLeft' = [bytesLeft EXCEPT ![c] = Further(n)]
    <3>1. /\ bytesLeft'[c] = Further(n)
          /\ \A x \in Libraries \ {c} : bytesLeft'[x] = bytesLeft[x]
      BY <1>8, <2>3
    <3>2. n \in 1..Domain /\ bytesLeft[d] \in 1..Domain /\ bytesLeft[e] \in 1..Domain
      BY <1>7
    <3>3. CASE d # c /\ e # c
      BY <2>1, <3>1, <3>3
    <3>4. CASE d = c \/ e = c
      <4>1. Verdict(d, n) = ""
        BY <2>3, <3>2, <3>4 DEF Alike
      <4>2. \A x, m \in 1..Domain :
              /\ Verdict(d, x) = "" /\ Further(x) \in 1..Domain
              /\ AsksAt(d, x, m) \/ AsksAt(d, m, x)
              => AsksAt(d, Further(x), m) \/ AsksAt(d, m, Further(x))
        BY <1>1, PathFacts
      <4>3. AsksAt(d, Further(n), Further(n))
        BY <1>1, <2>3, PathFacts
      <4>4. CASE d = c /\ e = c
        BY <3>1, <4>3, <4>4
      <4>5. CASE d = c /\ e # c
        <5>1. PICK x \in 1..Domain, m \in 1..Domain : x = bytesLeft[d] /\ m = bytesLeft[e]
          BY <3>2
        <5>2. x = n
          BY <4>5, <5>1
        <5>3. AsksAt(d, x, m) \/ AsksAt(d, m, x)
          BY <2>1, <5>1
        <5>4. Verdict(d, x) = "" /\ Further(x) \in 1..Domain
          BY <2>3, <4>1, <5>2
        <5>5. AsksAt(d, Further(x), m) \/ AsksAt(d, m, Further(x))
          BY <4>2, <5>3, <5>4
        <5>6. /\ bytesLeft'[d] = Further(x) /\ bytesLeft'[e] = m
          BY <3>1, <4>5, <5>1, <5>2
        <5> QED BY <5>5, <5>6
      <4>6. CASE d # c /\ e = c
        <5>1. PICK x \in 1..Domain, m \in 1..Domain : x = bytesLeft[e] /\ m = bytesLeft[d]
          BY <3>2
        <5>2. x = n
          BY <4>6, <5>1
        <5>3. AsksAt(d, x, m) \/ AsksAt(d, m, x)
          BY <2>1, <5>1
        <5>4. Verdict(d, x) = "" /\ Further(x) \in 1..Domain
          BY <2>3, <4>1, <5>2
        <5>5. AsksAt(d, Further(x), m) \/ AsksAt(d, m, Further(x))
          BY <4>2, <5>3, <5>4
        <5>6. /\ bytesLeft'[e] = Further(x) /\ bytesLeft'[d] = m
          BY <3>1, <4>6, <5>1, <5>2
        <5> QED BY <5>5, <5>6
      <4> QED BY <3>4, <4>4, <4>5, <4>6
    <3> QED BY <3>3, <3>4
  <2> QED BY <1>3, <2>2, <2>3
<1> QED BY <1>5, <1>6, <1>9, <1>10 DEF MethodsInv

LEMMA AgreeThen == MethodsInv => ClientsAgree
<1> SUFFICES ASSUME MethodsInv, NEW c \in Libraries, NEW d \in Libraries
             PROVE  /\ Portable(c, d) /\ exit # "missing" /\ Nothing \notin {got[c], got[d]} => got[c] = got[d]
                    /\ (\A n \in 1..Domain : Carried(resolver[n].stack, c, d))
                       /\ "" \notin {resolved[c], resolved[d]} => resolved[c] = resolved[d]
  BY DEF ClientsAgree
<1>1. MethodsTypeOK /\ AnswersRight /\ VerdictsRight /\ OnePath
  BY DEF MethodsInv
<1>2. ASSUME Portable(c, d), exit # "missing", Nothing \notin {got[c], got[d]} PROVE got[c] = got[d]
  <2>1. got[c] = RunGives(c) /\ got[d] = RunGives(d)
    BY <1>1, <1>2 DEF AnswersRight
  <2>2. RunGives(c) = RunGives(d)
    BY <1>1, <1>2, RunsAgree
  <2> QED BY <2>1, <2>2
<1>3. ASSUME \A n \in 1..Domain : Carried(resolver[n].stack, c, d),
             "" \notin {resolved[c], resolved[d]}
      PROVE  resolved[c] = resolved[d]
  <2>1. Alike(c, d)
    BY <1>1, <1>3, LedAlike
  <2>2. resolved[c] = Verdict(c, bytesLeft[c]) /\ resolved[d] = Verdict(d, bytesLeft[d])
    BY <1>1, <1>3 DEF VerdictsRight
  <2>3. bytesLeft[c] \in 1..Domain /\ bytesLeft[d] \in 1..Domain
    BY <1>1 DEF MethodsTypeOK
  <2>4. Verdict(d, bytesLeft[d]) = Verdict(c, bytesLeft[d])
    BY <2>1, <2>3 DEF Alike
  <2>5. Verdict(c, bytesLeft[c]) # "" /\ Verdict(c, bytesLeft[d]) # ""
    BY <1>3, <2>2, <2>4
  <2>6. AsksAt(c, bytesLeft[c], bytesLeft[d]) \/ AsksAt(c, bytesLeft[d], bytesLeft[c])
    BY <1>1, <2>1 DEF OnePath
  <2>7. \A n, m \in 1..Domain : Verdict(c, n) # "" /\ AsksAt(c, n, m) => n = m
    BY <1>1, PathFacts
  <2>8. bytesLeft[c] = bytesLeft[d]
    BY <2>3, <2>5, <2>6, <2>7
  <2> QED BY <2>2, <2>4, <2>8
<1> QED BY <1>2, <1>3

(* A program may change its client (clients/lite/mixin.py, http/toncenter.py, *)
(* http/tonapi.py): with values that two of them carry alike, however deep    *)
(* the tuples, a get-method comes to the same list or error through both, and *)
(* dnsresolve() to the same end, however many resolvers it asks.              *)
THEOREM ClientsAlwaysAgree == MethodsSpec => []ClientsAgree
<1>1. MethodsInv /\ [MethodsNext]_methods => MethodsInv'
  <2> SUFFICES ASSUME MethodsInv, [MethodsNext]_methods PROVE MethodsInv'
    OBVIOUS
  <2>1. CASE \E c \in Libraries : RunMethod(c)
    BY <2>1, RunKeeps
  <2>2. CASE \E c \in Libraries : DnsResolve(c)
    BY <2>2, RequestKeeps
  <2>3. CASE UNCHANGED methods
    <3> USE <2>3 DEF methods
    <3>1. MethodsTypeOK'
      BY DEF MethodsInv, MethodsTypeOK
    <3>2. AnswersRight'
      BY DEF MethodsInv, AnswersRight, RunGives, RunLite, RunToncenter, RunTonapi
    <3>3. VerdictsRight' /\ OnePath'
      BY VerdictsStay DEF MethodsInv, VerdictsRight, OnePath
    <3> QED BY <3>1, <3>2, <3>3 DEF MethodsInv
  <2> QED BY <2>1, <2>2, <2>3 DEF MethodsNext
<1> QED BY <1>1, MethodsStart, AgreeThen, PTL DEF MethodsSpec
==============================================================================
