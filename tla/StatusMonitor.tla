---------------------------- MODULE StatusMonitor ----------------------------
(***************************************************************************)
(* tonutils/tools/status_monitor: the update loops of one server, of which *)
(* the fast one connects, and stop(), which may come at any moment of      *)
(* them, before run() too.  Lite-servers drop connections, a DHT node has  *)
(* none to drop.                                                           *)
(*                                                                         *)
(* An action is what a task does between two awaits.                       *)
(***************************************************************************)
EXTENDS Naturals

CONSTANT Interval   (* RECONNECT_INTERVAL, in sleeps of the fast loop *)
ASSUME MonitorAssumption == Interval \in Nat

Loops == {"fast", "medium", "slow"}

VARIABLES kind,      (* "lite" or "dht" *)
          run,       (* run(): "before", "rendering", "over" *)
          stopSet,   (* _stop *)
          stopper,   (* stop(): "none", awaits the loops ("cancelling") and the
                        clients ("closing"), "returned" *)
          loop,      (* where each loop stands *)
          cancelled, (* loops that are to get a CancelledError *)
          client,    (* "closed", "opened" by a connect() that was cut off, or
                        "connected" *)
          since,     (* since _last_connect *)
          refused    (* history: the close() of the client, in stop(), raised *)
monitor == <<kind, run, stopSet, stopper, loop, cancelled, client, since, refused>>

MonitorInit ==
  /\ kind \in {"lite", "dht"}
  /\ run = "before" /\ stopSet = FALSE /\ stopper = "none"
  /\ loop = [l \in Loops |-> "none"] /\ cancelled = {}
  /\ client = "closed" /\ since = Interval /\ refused = FALSE

MonitorTypeOK ==
  /\ loop \in [Loops -> {"none", "turn", "connect", "update", "sleep", "ended"}]
  /\ \A l \in Loops \ {"fast"} : loop[l] # "connect"
  /\ cancelled \subseteq Loops /\ client \in {"closed", "opened", "connected"}
  /\ since \in 0..Interval /\ refused \in BOOLEAN
------------------------------------------------------------------------------
(* run(): the loops are made, though they may find that they are to stop. *)
StartUpdateLoops ==
  /\ run = "before"
  /\ run' = "rendering"
  /\ loop' = [l \in Loops |-> "turn"]
  /\ UNCHANGED <<kind, stopSet, stopper, cancelled, client, since, refused>>

(* It ends when it sees _stop, or by an interrupt, before the stop(). *)
RunEnds ==
  /\ run = "rendering" /\ run' = "over"
  /\ UNCHANGED <<kind, stopSet, stopper, loop, cancelled, client, since, refused>>

At(l, where) == loop[l] = where /\ l \notin cancelled

(* _ensure_connected(), as far as it does not wait *)
EnsureConnected(l) ==
  CASE client = "connected" -> "update"
    [] client # "connected" /\ l = "fast" /\ since >= Interval -> "connect"
    [] client # "connected" /\ (l # "fast" \/ since < Interval) -> "sleep"

(* The head of a loop; only the fast one connects. *)
LoopTurn(l) ==
  /\ At(l, "turn")
  /\ loop' = [loop EXCEPT ![l] = IF stopSet THEN "ended" ELSE EnsureConnected(l)]
  /\ since' = IF loop'[l] = "connect" THEN 0 ELSE since
  /\ UNCHANGED <<kind, run, stopSet, stopper, cancelled, client, refused>>

(* _connect(), whose errors are shown.  A lite client that fails has closed *)
(* what it opened, a DHT client keeps its socket.                           *)
ConnectEnds ==
  /\ At("fast", "connect")
  /\ loop' = [loop EXCEPT !["fast"] = IF client' = "connected" THEN "update" ELSE "sleep"]
  /\ UNCHANGED <<kind, run, stopSet, stopper, cancelled, since, refused>>
LiteConnectEnds == kind = "lite" /\ client' \in {"connected", "closed"} /\ ConnectEnds
DhtConnectEnds == kind = "dht" /\ client' \in {"connected", "opened"} /\ ConnectEnds

(* The updates of a loop, two at once of a lite-server; what is raised in  *)
(* them is shown too, and the loop goes on.                                *)
UpdateEnds(l) ==
  /\ At(l, "update")
  /\ loop' = [loop EXCEPT ![l] = "sleep"]
  /\ UNCHANGED <<kind, run, stopSet, stopper, cancelled, client, since, refused>>
LiteUpdateEnds(l) == kind = "lite" /\ UpdateEnds(l)
DhtUpdateEnds(l) == kind = "dht" /\ UpdateEnds(l)

SleepEnds(l) ==
  /\ At(l, "sleep")
  /\ loop' = [loop EXCEPT ![l] = "turn"]
  /\ since' = IF l = "fast" /\ since < Interval THEN since + 1 ELSE since
  /\ UNCHANGED <<kind, run, stopSet, stopper, cancelled, client, refused>>

LosesServer ==
  /\ kind = "lite" /\ client = "connected"
  /\ client' = "closed"
  /\ UNCHANGED <<kind, run, stopSet, stopper, loop, cancelled, since, refused>>
------------------------------------------------------------------------------
(* stop(), of which a second one does nothing *)
Stop ==
  /\ ~stopSet
  /\ stopSet' = TRUE /\ stopper' = "cancelling"
  /\ cancelled' = {l \in Loops : loop[l] \notin {"none", "ended"}}
  /\ UNCHANGED <<kind, run, loop, client, since, refused>>

(* The CancelledError passes every handler of a loop.  A connect() it cuts *)
(* off leaves open what it has opened, or may have just been through.      *)
CancelArrives(l) ==
  /\ l \in cancelled
  /\ cancelled' = cancelled \ {l}
  /\ loop' = [loop EXCEPT ![l] = "ended"]
  /\ IF loop[l] = "connect" THEN client' \in {"closed", "opened", "connected"}
                            ELSE UNCHANGED client
  /\ UNCHANGED <<kind, run, stopSet, stopper, since, refused>>

AtOnce == TRUE  \* mutant of Gathered
Gathered == cancelled = {}

CloseClients ==
  /\ stopper = "cancelling" /\ Gathered
  /\ stopper' = "closing"
  /\ UNCHANGED <<kind, run, stopSet, loop, cancelled, client, since, refused>>

(* An error of a close() is gathered too and looked at by nobody: what the *)
(* client had open it may have kept.                                       *)
ClientsClosed ==
  /\ stopper = "closing" /\ stopper' = "returned"
  /\ \/ client' = "closed" /\ UNCHANGED refused
     \/ client # "closed" /\ client' \in {client, "opened"} /\ refused' = TRUE
  /\ UNCHANGED <<kind, run, stopSet, loop, cancelled, since>>

MonitorNext ==
  \/ StartUpdateLoops \/ RunEnds \/ LiteConnectEnds \/ DhtConnectEnds \/ LosesServer
  \/ \E l \in Loops :
       \/ LoopTurn(l) \/ LiteUpdateEnds(l) \/ DhtUpdateEnds(l) \/ SleepEnds(l)
       \/ CancelArrives(l)
  \/ Stop \/ CloseClients \/ ClientsClosed

MonitorSpec == MonitorInit /\ [][MonitorNext]_monitor
------------------------------------------------------------------------------
(* When stop() returns, wherever the loops were, nothing is left of them   *)
(* and no client open that could be closed; and a run() that comes after   *)
(* it opens none.                                                          *)
StopLeavesNothing ==
  stopper = "returned" =>
    /\ client = "closed" \/ refused
    /\ \A l \in Loops : loop[l] \in {"none", "turn", "ended"}
==============================================================================
