----------------------------- MODULE LiteBalancer -----------------------------
(***************************************************************************)
(* tonutils/clients/lite/balancer.py: requests that fail over between      *)
(* lite-servers, the cooldown a failing one is put in, the health task     *)
(* that reconnects the lost ones, connect() and close().                   *)
(*                                                                         *)
(* What a request does between two awaits is one action: an answer is      *)
(* marked, the next server is picked and called without a pause.  A tick   *)
(* is half a second, the cooldown of a first plain error; cool[c] is what  *)
(* is left of state.retry_after.  The block heights and ping times that     *)
(* order the servers are the network's: any that is alive may be the best. *)
(***************************************************************************)
EXTENDS PowersOfTwo, FiniteSets

CONSTANTS Clients,   (* the lite-server clients                              *)
          Healthy,   (* those that always stay connected and answer          *)
          Requests,  (* tasks that call the balancer                         *)
          None,      (* no client                                            *)
          MaxCool,   (* self._retry_after_max, in ticks                      *)
          MaxErrors  (* error_count is counted up to here: see CoolAssumption*)

ASSUME ClientsAssumption == /\ IsFiniteSet(Clients) /\ Clients # {} /\ None \notin Clients
                            /\ Healthy \subseteq Clients
(* Beyond MaxErrors, one more error no longer changes the cooldown. *)
ASSUME CoolAssumption == MaxCool \in Nat \ {0} /\ MaxErrors \in Nat \ {0}
                         /\ PowerOfTwo[MaxErrors - 1] >= MaxCool

VARIABLES up,       (* clients that are connected                            *)
          errors,   (* state.error_count                                     *)
          cool,     (* ticks until state.retry_after                         *)
          on,       (* the client a request waits for                        *)
          attempts, (* attempts a request has begun                          *)
          tried,    (* history: the clients it has called in vain            *)
          out,      (* how it ended                                          *)
          health,   (* self._health_task runs                                *)
          joining,  (* clients the health task is reconnecting               *)
          owner     (* where the task that connects and closes stands        *)

servers == <<up, errors, cool>>
requests == <<on, attempts, tried, out>>
life == <<health, joining, owner>>
vars == <<servers, requests, life>>

(* "ended": a result, the error of a get-method, or the total timeout. *)
Outcomes == {"none", "ended", "exhausted", "escaped"}

TypeOK ==
  /\ up \subseteq Clients /\ joining \subseteq Clients \ up
  /\ errors \in [Clients -> 0..MaxErrors]
  /\ cool \in [Clients -> 0..MaxCool]
  /\ on \in [Requests -> Clients \cup {None}]
  /\ attempts \in [Requests -> 0..Cardinality(Clients)]
  /\ tried \in [Requests -> SUBSET Clients]
  /\ out \in [Requests -> Outcomes]
  /\ health \in BOOLEAN
  /\ owner \in {"closed", "connecting", "open", "closing"}

Init ==
  /\ up = {} /\ joining = {}
  /\ errors = [c \in Clients |-> 0]
  /\ cool = [c \in Clients |-> 0]
  /\ on = [r \in Requests |-> None]
  /\ attempts = [r \in Requests |-> 0]
  /\ tried = [r \in Requests |-> {}]
  /\ out = [r \in Requests |-> "ended"]
  /\ health = FALSE /\ owner = "closed"
------------------------------------------------------------------------------
(* alive_clients, for given cooldowns *)
Alive(cl) == {c \in up : cl[c] = 0}

(* _pick_client(): the best by height and ping, whichever that is now. *)
PickClient(cl) == Alive(cl)

End(r, how) ==
  /\ out' = [out EXCEPT ![r] = how]
  /\ on' = [on EXCEPT ![r] = None]
  /\ attempts' = [attempts EXCEPT ![r] = 0]
  /\ tried' = [tried EXCEPT ![r] = IF how = "exhausted" /\ on[r] # None THEN @ ELSE {}]

(* Mutant of Counted: an attempt that failed does not count. *)
NotCounted(r) == UNCHANGED attempts
Counted(r) == attempts' = [attempts EXCEPT ![r] = @ + 1]

(* One turn of the loop of _with_failover(): give up or call a server. *)
NextAttempt(r, cl) ==
  IF attempts[r] = Cardinality(Clients) \/ Alive(cl) = {}
  THEN End(r, "exhausted")
  ELSE \E c \in PickClient(cl) :
         /\ on' = [on EXCEPT ![r] = c]
         /\ Counted(r)
         /\ tried' = [tried EXCEPT ![r] = (IF on[r] = None THEN {} ELSE @) \cup {c}]
         /\ out' = [out EXCEPT ![r] = "none"]

(* _adnl_call(): with no connection at all the call raises at once. *)
Request(r) ==
  /\ on[r] = None /\ up # {}
  /\ NextAttempt(r, cool)
  /\ UNCHANGED <<servers, life>>

(* _mark_success() *)
Succeed(r) ==
  /\ on[r] \in up
  /\ errors' = [errors EXCEPT ![on[r]] = 0]
  /\ cool' = [cool EXCEPT ![on[r]] = 0]
  /\ End(r, "ended")
  /\ UNCHANGED <<up, life>>

(* A get-method's own failure is the caller's: no mark, no failover. *)
RunGetMethodError(r) ==
  /\ on[r] \in up
  /\ End(r, "ended")
  /\ UNCHANGED <<servers, life>>

(* Mutant of Cooldown: the exponent starts one too low. *)
LateCooldown(base, n) == IF n = 1 THEN 0 ELSE base * PowerOfTwo[n - 2]

(* _mark_error(): base is 1 (half a second), or 2 after a rate limit. *)
Cooldown(base, n) ==
  LET backoff == base * PowerOfTwo[n - 1]
  IN IF backoff < MaxCool THEN backoff ELSE MaxCool

(* A lite-server error, a transport error or the attempt's own timeout,    *)
(* which a lost connection only brings about in the end.                   *)
Fail(r) ==
  /\ on[r] \in Clients \ Healthy
  /\ \E base \in {1, 2} :
       LET c == on[r]
           n == IF errors[c] < MaxErrors THEN errors[c] + 1 ELSE MaxErrors
           cl == [cool EXCEPT ![c] = Cooldown(base, n)]
       IN /\ errors' = [errors EXCEPT ![c] = n]
          /\ cool' = cl
          /\ NextAttempt(r, cl)
  /\ UNCHANGED <<up, life>>

(* The provider call sends another query when the connection is gone:      *)
(* NotConnectedError, which _with_failover() does not catch.               *)
NotConnected(r) ==
  /\ on[r] \in Clients \ up
  /\ End(r, "escaped")
  /\ UNCHANGED <<servers, life>>

(* request_timeout, over all the attempts of a request *)
TimesOut(r) ==
  /\ on[r] # None
  /\ End(r, "ended")
  /\ UNCHANGED <<servers, life>>
------------------------------------------------------------------------------
(* The lite-servers and the clock. *)
Drop(c) ==
  /\ c \in up \ Healthy
  /\ up' = up \ {c}
  /\ UNCHANGED <<errors, cool, requests, life>>

Tick ==
  /\ \E c \in Clients : cool[c] > 0
  /\ cool' = [c \in Clients |-> IF cool[c] > 0 THEN cool[c] - 1 ELSE 0]
  /\ UNCHANGED <<up, errors, requests, life>>
------------------------------------------------------------------------------
(* Closing a provider cancels the futures of the queries that wait on it:  *)
(* the CancelledError passes through _with_failover() to the callers.      *)
CancelWaiters(lost) ==
  /\ out' = [r \in Requests |-> IF on[r] \in lost THEN "escaped" ELSE out[r]]
  /\ on' = [r \in Requests |-> IF on[r] \in lost THEN None ELSE on[r]]
  /\ attempts' = [r \in Requests |-> IF on[r] \in lost THEN 0 ELSE attempts[r]]
  /\ tried' = [r \in Requests |-> IF on[r] \in lost THEN {} ELSE tried[r]]

(* Mutant of Lost: only servers that also failed requests are looked at. *)
LostAndPunished == {c \in Clients \ up : cool[c] > 0}
Lost == Clients \ up

(* The health task: reconnect() closes first, then connects. *)
Reconnect(c) ==
  /\ health /\ c \in Lost \ joining
  /\ joining' = joining \cup {c}
  /\ CancelWaiters({c})
  /\ UNCHANGED <<servers, health, owner>>

Reconnected(c) ==
  /\ c \in joining
  /\ joining' = joining \ {c}
  /\ up' = up \cup {c}
  /\ UNCHANGED <<errors, cool, requests, health, owner>>

ReconnectFails(c) ==
  /\ c \in joining \ Healthy
  /\ joining' = joining \ {c}
  /\ UNCHANGED <<servers, requests, health, owner>>

EnsureHealthTask == health' = TRUE

(* connect(): every client in parallel; with one connected already it only *)
(* makes sure of the health task.                                          *)
ConnectBegin ==
  /\ owner \in {"closed", "open"}
  /\ IF up # {} THEN owner' = "open" /\ EnsureHealthTask
                ELSE owner' = "connecting" /\ UNCHANGED health
  /\ UNCHANGED <<joining, servers, requests>>

ConnectEnd ==
  /\ owner = "connecting"
  /\ \E S \in SUBSET Clients :
       /\ Healthy \subseteq S
       /\ up' = up \cup S
       /\ joining' = joining \ S
       /\ IF up' # {} THEN EnsureHealthTask ELSE UNCHANGED health
       /\ owner' = IF up' # {} \/ health THEN "open" ELSE "closed"
  /\ UNCHANGED <<errors, cool, requests>>

(* Mutant of StopHealth: the task is forgotten and runs on. *)
ForgetHealth == UNCHANGED <<health, joining>>

(* close() cancels the health task, with whatever it is reconnecting. *)
StopHealth == health' = FALSE /\ joining' = {}

CloseBegin ==
  /\ owner = "open"
  /\ StopHealth
  /\ owner' = "closing"
  /\ UNCHANGED <<servers, requests>>

CloseEnd ==
  /\ owner = "closing"
  /\ up' = {}
  /\ owner' = "closed"
  /\ CancelWaiters(Clients)
  /\ UNCHANGED <<errors, cool, health, joining>>
------------------------------------------------------------------------------
Next ==
  \/ \E r \in Requests :
       \/ Request(r) \/ Succeed(r) \/ RunGetMethodError(r) \/ Fail(r)
       \/ NotConnected(r) \/ TimesOut(r)
  \/ \E c \in Clients :
       Drop(c) \/ Reconnect(c) \/ Reconnected(c) \/ ReconnectFails(c)
  \/ Tick \/ ConnectBegin \/ ConnectEnd \/ CloseBegin \/ CloseEnd

(* Every attempt ends: the client's own request_timeout sees to it.  The   *)
(* health task comes round, and a server that keeps being tried answers.   *)
Fairness ==
  /\ \A r \in Requests : WF_vars(Succeed(r) \/ Fail(r) \/ NotConnected(r))
  /\ \A c \in Clients : WF_vars(Reconnect(c)) /\ SF_vars(Reconnected(c))
  /\ WF_vars(ConnectEnd) /\ WF_vars(CloseEnd)

Spec == Init /\ [][Next]_vars /\ Fairness
------------------------------------------------------------------------------
(* A request never goes straight back to the server that has just failed   *)
(* it: the error puts the server in a cooldown before the next pick.       *)
NeverTwiceInARow ==
  [][\A r \in Requests : attempts'[r] > attempts[r] => on'[r] # on[r]]_vars

(* Failover reaches a server that works: as long as a healthy server is    *)
(* connected, no request that was waiting ends with a BalancerError        *)
(* (balancer.py:428, "If all lite-servers fail").                          *)
FailoverFindsHealthy ==
  \A r \in Requests :
    out[r] = "exhausted" /\ owner = "open" => (Healthy \cap up) \subseteq tried[r]

(* What a failing server does to a request stays inside the failover: the  *)
(* caller of an open balancer never sees the error itself.                 *)
NothingEscapes ==
  [][\A r \in Requests : owner = "open" => ~(out[r] = "none" /\ out'[r] = "escaped")]_vars

(* Once close() is through, nothing is connected again and no health task  *)
(* is left to do it, until the next connect().                             *)
ClosedStaysClosed == owner = "closed" => up = {} /\ joining = {} /\ ~health

(* Every request ends, were there no total timeout: the number of attempts *)
(* is bounded whatever the cooldowns do.                                   *)
RequestsEnd == \A r \in Requests : on[r] # None ~> out[r] # "none"

(* A lost server that can be reached again is reconnected, used or not,    *)
(* as long as the balancer stays open.                                     *)
LostAreReconnected ==
  \A c \in Clients : owner = "open" /\ c \notin up ~> c \in up \/ owner # "open"
==============================================================================
