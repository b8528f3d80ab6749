---------------------------- MODULE HttpTransport ----------------------------
(***************************************************************************)
(* tonutils/transports/http.py: the aiohttp session of each HTTP client,   *)
(* over connect() and close() of several tasks.                            *)
(***************************************************************************)
EXTENDS Naturals, FiniteSets, LockQueue

CONSTANTS NClients,     (* clients are 1..NClients *)
          Borrowed,     (* those given a session of their caller's *)
          Tasks         (* tasks that connect and close them *)

ASSUME TransportAssumption ==
  /\ NClients \in Nat \ {0} /\ Borrowed \subseteq 1..NClients

Clients == 1..NClients
VARIABLES session,  (* _session: "none", or whether it is "open" or "closed" *)
          stage,    (* what a task does *)
          lock,     (* _connect_lock: its holder and who waits, FIFO *)
          lost      (* history: clients that let go of an open session they made *)
transport == <<session, stage, lock, lost>>

TransportInit ==
  /\ session = [c \in Clients |-> IF c \in Borrowed THEN "given" ELSE "none"]
  /\ stage = [u \in Tasks |-> "idle"]
  /\ lock = [c \in Clients |-> <<>>]
  /\ lost = {}

TransportTypeOK ==
  /\ session \in [Clients -> {"none", "given", "open", "closed"}]
  /\ stage \in [Tasks -> {"idle", "connect", "close", "closing"}]
  /\ \A u \in Tasks :
       stage[u] # "idle" <=> \E c \in Clients : \E i \in DOMAIN lock[c] : lock[c][i] = u
  /\ lost \subseteq Clients

(* connected: by a session of its own, or the caller's *)
Open(c) == session[c] \in {"open", "given"}
(* _owns_session: settled when the transport is made. *)
Owns(c) == c \notin Borrowed
------------------------------------------------------------------------------
(* The task whose turn it is to hold the lock. *)
Holds(u, c) == lock[c] # <<>> /\ Head(lock[c]) = u

Leave(u, c) ==
  /\ stage' = [stage EXCEPT ![u] = "idle"]
  /\ lock' = [lock EXCEPT ![c] = Without(@, u)]

(* The task waits for the lock. *)
Queue(u, c, what) ==
  /\ lock[c] # <<>>
  /\ stage' = [stage EXCEPT ![u] = what]
  /\ lock' = [lock EXCEPT ![c] = Append(@, u)]
  /\ UNCHANGED <<session, lost>>

(* self._session = value *)
SetSession(c, value) ==
  /\ session' = [session EXCEPT ![c] = value]
  /\ lost' = IF session[c] = "open" THEN lost \cup {c} ELSE lost

AlwaysMakes(c) == SetSession(c, "open")  \* mutant of EnsureSession

(* connect(), the part under the lock. *)
EnsureSession(c) ==
  IF Open(c) THEN UNCHANGED <<session, lost>> ELSE SetSession(c, "open")

(* connect(): nothing to do, at once, or in its turn. *)
Connect(u, c) ==
  /\ stage[u] = "idle" /\ ~Open(c)
  /\ \/ lock[c] = <<>> /\ EnsureSession(c) /\ UNCHANGED <<stage, lock>>
     \/ Queue(u, c, "connect")

ConnectTurn(u, c) ==
  /\ stage[u] = "connect" /\ Holds(u, c)
  /\ EnsureSession(c)
  /\ Leave(u, c)

(* close() under the lock: a session of its own is closed from here on,    *)
(* while the connector is awaited; any other is only forgotten.            *)
BeginClose(u, c, others) ==
  IF Owns(c) /\ Open(c)
  THEN /\ session' = [session EXCEPT ![c] = "closed"]
       /\ stage' = [stage EXCEPT ![u] = "closing"]
       /\ lock' = [lock EXCEPT ![c] = <<u>> \o others]
       /\ UNCHANGED lost
  ELSE /\ SetSession(c, "none")
       /\ stage' = [stage EXCEPT ![u] = "idle"]
       /\ lock' = [lock EXCEPT ![c] = others]

Close(u, c) ==
  /\ stage[u] = "idle"
  /\ IF lock[c] = <<>> THEN BeginClose(u, c, <<>>) ELSE Queue(u, c, "close")

CloseTurn(u, c) ==
  /\ stage[u] = "close" /\ Holds(u, c)
  /\ BeginClose(u, c, Tail(lock[c]))

EndClose(u, c) ==
  /\ stage[u] = "closing" /\ Holds(u, c)
  /\ SetSession(c, "none")
  /\ Leave(u, c)

(* The task is cancelled while it waits for the lock or the connector. *)
CancelTask(u, c) ==
  /\ \E i \in DOMAIN lock[c] : lock[c][i] = u
  /\ Leave(u, c)
  /\ UNCHANGED <<session, lost>>

TransportNext ==
  \E u \in Tasks, c \in Clients :
    \/ Connect(u, c) \/ ConnectTurn(u, c) \/ Close(u, c) \/ CloseTurn(u, c)
    \/ EndClose(u, c) \/ CancelTask(u, c)

TransportSpec == TransportInit /\ [][TransportNext]_transport
------------------------------------------------------------------------------
(* However connect(), close() and cancellations of several tasks fall: a   *)
(* transport that owns its sessions lets go of none that is still open, so *)
(* no connection leaks.  (One that was given a session does when it is     *)
(* closed after a reconnect.)                                              *)
NoSessionLost == lost \subseteq Borrowed
==============================================================================
