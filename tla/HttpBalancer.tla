----------------------------- MODULE HttpBalancer -----------------------------
(***************************************************************************)
(* tonutils/clients/http/balancer.py over the HTTP clients, their retries  *)
(* and their sessions: concurrent requests that fail over, retry and wait  *)
(* for the limiter while the clients are connected and closed.             *)
(*                                                                         *)
(* An action is what a task does between two awaits.  A tick is the        *)
(* smallest cooldown, half a second.                                       *)
(***************************************************************************)
EXTENDS HttpTransport, HttpClients, RetryPolicy

CONSTANTS Requests,     (* calls of the balancer, each by a task of its own *)
          Operation,    (* what each request asks for *)
          Kind,         (* the kind of each client *)
          Limited,      (* clients with a rate limiter *)
          Errors,       (* HTTP errors that may come, a code and a body *)
          Policy,       (* retry_policy of each client, its rules *)
          TotalTimeout, (* ... and its total_timeout *)
          MaxErrors,    (* bound: error_count counts no further *)
          MaxCool       (* _retry_after_max *)

ASSUME BalancerAssumption ==
  /\ Operation \in [Requests -> Operations] /\ Kind \in [Clients -> Kinds]
  /\ DOMAIN Policy = Clients /\ \A c \in Clients : IsPolicy(Policy[c])
  /\ TotalTimeout \in Nat /\ Limited \subseteq Clients
  /\ MaxErrors \in Nat \ {0} /\ MaxCool \in Nat \ {0}

VARIABLES errors, cool,  (* error_count; what is left until retry_after *)
          rr,            (* the client that next(self._rr) gives next *)
          pc, on,        (* where a request stands, and with which client, 0 none *)
          tried,         (* attempts of its failover loop: with which clients *)
          counts,        (* send_with_retry(): attempts by rule *)
          passed,        (* ticks since it was called, under a policy *)
          pause          (* what is left of its sleep *)

choice == <<errors, cool, rr>>
retries == <<counts, passed, pause>>
requests == <<pc, on, tried, retries>>
vars == <<transport, choice, requests>>

InFlight == {"limiter", "sent", "sleep"}
Ended == {"ended", "exhausted"}

Init ==
  /\ TransportInit
  /\ errors = [c \in Clients |-> 0] /\ cool = [c \in Clients |-> 0]
  /\ rr = 1
  /\ pc = [r \in Requests |-> "ended"] /\ on = [r \in Requests |-> 0]
  /\ tried = [r \in Requests |-> <<>>]
  /\ counts = [r \in Requests |-> <<>>]
  /\ passed = [r \in Requests |-> 0] /\ pause = [r \in Requests |-> 0]

TypeOK ==
  /\ TransportTypeOK
  /\ errors \in [Clients -> 0..MaxErrors] /\ cool \in [Clients -> 0..MaxCool]
  /\ rr \in Clients
  /\ pc \in [Requests -> InFlight \cup Ended]
  /\ on \in [Requests -> 0..NClients]
  /\ \A r \in Requests : pc[r] \in InFlight <=> on[r] # 0
  /\ tried \in [Requests -> Seq(Clients)] /\ \A r \in Requests : Len(tried[r]) <= NClients
  /\ \A r \in Requests : counts[r] \in [IF on[r] = 0 THEN {} ELSE DOMAIN Policy[on[r]] -> Nat]
  /\ passed \in [Requests -> 0..TotalTimeout + 1] /\ pause \in [Requests -> Nat]
------------------------------------------------------------------------------
(* connected; alive_clients *)
Connected == \E c \in Clients : Open(c)
Alive(cl) == {c \in Clients : Open(c) /\ cl[c] = 0}

(* From rr on, the first client of a set; and the one after a client. *)
Turn(c) == (c + NClients - rr) % NClients
After(c) == (c % NClients) + 1

(* when_ready(), which is any for a limiter here *)
Waits == {wait \in [Clients -> {0, 1}] : \A c \in Clients \ Limited : wait[c] = 0}

(* _pick_client(): the shortest wait for the limiter, then the fewest      *)
(* errors, then round robin among the equal ones.                          *)
Pick(c, cl, er, wait) ==
  LET Rank(d) == wait[d] * (MaxErrors + 1) + er[d]
      best == {d \in Alive(cl) : \A e \in Alive(cl) : Rank(d) <= Rank(e)}
  IN /\ c \in best
     /\ \A d \in best : Turn(c) <= Turn(d)
     /\ rr' = IF best = {c} THEN rr ELSE After(c)

Set(f, r, value) == [f EXCEPT ![r] = value]

(* A request that ends, with an answer, an error or its timeout. *)
End(r, how) ==
  /\ pc' = Set(pc, r, how) /\ on' = Set(on, r, 0)
  /\ tried' = Set(tried, r, <<>>) /\ counts' = Set(counts, r, <<>>)
  /\ passed' = Set(passed, r, 0) /\ pause' = Set(pause, r, 0)

(* _send_once() up to its first await. *)
Attempt(r, c) == pc' = Set(pc, r, IF c \in Limited THEN "limiter" ELSE "sent")

(* The loop of _with_failover(): give up, or pick a client and call it,    *)
(* which starts a send_with_retry() of its own.                            *)
NextAttempt(r, cl, er) ==
  IF Len(tried[r]) = NClients \/ Alive(cl) = {}
  THEN End(r, "exhausted") /\ UNCHANGED rr
  ELSE \E c \in Alive(cl), wait \in Waits :
         /\ Pick(c, cl, er, wait)
         /\ on' = Set(on, r, c)
         /\ tried' = Set(tried, r, Append(tried[r], c))
         /\ Attempt(r, c)
         /\ counts' = Set(counts, r, FreshCounts(Policy[c]))
         /\ passed' = Set(passed, r, 0) /\ pause' = Set(pause, r, 0)

(* A call of the balancer; with no connection at all it raises at once. *)
Request(r) ==
  /\ pc[r] \in Ended /\ Connected
  /\ NextAttempt(r, cool, errors)
  /\ UNCHANGED <<transport, errors, cool>>

(* The token of the limiter has come: the session may be closed or gone    *)
(* by now, which is an error of no kind that is caught.                    *)
TokenGranted(r) ==
  /\ pc[r] = "limiter"
  /\ IF Open(on[r])
     THEN pc' = Set(pc, r, "sent") /\ UNCHANGED <<on, tried, retries>>
     ELSE End(r, "ended")
  /\ UNCHANGED <<transport, choice>>
------------------------------------------------------------------------------
(* _mark_success() *)
MarkSuccess(c) ==
  /\ errors' = [errors EXCEPT ![c] = 0]
  /\ cool' = [cool EXCEPT ![c] = 0]
  /\ UNCHANGED rr

(* An answer of the operation, to the caller. *)
Succeed(r) ==
  /\ MarkSuccess(on[r])
  /\ End(r, "ended")
  /\ UNCHANGED transport

(* RunGetMethodError, and the errors of a client that nothing catches. *)
Raise(r) ==
  /\ End(r, "ended")
  /\ UNCHANGED <<transport, choice>>

(* Mutant of Cooldown: the exponent starts one too low. *)
LateCooldown(base, n) == IF n = 1 THEN 0 ELSE base * PowerOfTwo[n - 2]
Cooldown(base, n) == Min({base * PowerOfTwo[n - 1], MaxCool})

(* _mark_error() and the next turn of the loop. *)
FailOver(r, limited) ==
  LET c == on[r]
      n == Min({errors[c] + 1, MaxErrors})
      er == [errors EXCEPT ![c] = n]
      cl == [cool EXCEPT ![c] = Cooldown(IF limited THEN 2 ELSE 1, n)]
  IN /\ errors' = er /\ cool' = cl
     /\ NextAttempt(r, cl, er)
     /\ UNCHANGED transport

(* ProviderResponseError through send_with_retry(): only an error that no  *)
(* rule retries reaches the balancer with its code.                        *)
HttpError(r, error) ==
  LET after == AfterError(Policy[on[r]], TotalTimeout, counts[r], passed[r], error)
  IN CASE after.verdict = "again" ->
            /\ pc' = Set(pc, r, "sleep")
            /\ counts' = Set(counts, r, after.counts)
            /\ pause' = Set(pause, r, after.delay)
            /\ UNCHANGED <<transport, choice, on, tried, passed>>
       [] after.verdict = "raise" /\ IsAnswer(Kind[on[r]], Operation[r], error) -> Succeed(r)
       [] after.verdict = "raise" /\ ~IsAnswer(Kind[on[r]], Operation[r], error) ->
            FailOver(r, error.code = 429)
       [] after.verdict = "limit" -> FailOver(r, FALSE)

Raised == {RaiseError(e.code, e.body) : e \in Errors}

(* The response; it may have come before its session was closed. *)
Response(r) ==
  /\ pc[r] = "sent"
  /\ \/ \E error \in Raised : HttpError(r, error)
     \/ \E body \in Bodies :
          LET result == Result(Kind[on[r]], Operation[r], body)
          IN CASE result = "ok" -> Succeed(r)
               [] result = "raised" -> Raise(r)
               [] result = "provider_error" -> FailOver(r, FALSE)

(* A connection that fails, the timeout of the request, a closed session. *)
TransportFails(r) ==
  /\ pc[r] = "sent"
  /\ FailOver(r, FALSE)

(* The sleep of send_with_retry() is over: _send_once() looks for a        *)
(* connection anew.                                                        *)
Wake(r) ==
  /\ pc[r] = "sleep" /\ pause[r] = 0
  /\ IF Open(on[r]) THEN Attempt(r, on[r]) /\ UNCHANGED <<on, tried, retries>>
                    ELSE End(r, "ended")
  /\ UNCHANGED <<transport, choice>>

(* The timeout of wait_for() around it all *)
TimesOut(r) ==
  /\ pc[r] \in InFlight
  /\ End(r, "ended")
  /\ UNCHANGED <<transport, choice>>

(* Time, which no sleep is late for. *)
Less(n) == IF n = 0 THEN 0 ELSE n - 1
Tick ==
  /\ \A r \in Requests : pc[r] = "sleep" => pause[r] > 0
  /\ cool' = [c \in Clients |-> Less(cool[c])]
  /\ pause' = [r \in Requests |-> Less(pause[r])]
  /\ passed' = [r \in Requests |->
       IF counts[r] = <<>> THEN 0 ELSE Min({passed[r] + 1, TotalTimeout + 1})]
  /\ UNCHANGED <<transport, errors, rr, pc, on, tried, counts>>

(* connect() and close() of the balancer are tasks, one for each client;   *)
(* the clients may be connected and closed on their own, too.              *)
ClientsNext == TransportNext /\ UNCHANGED <<choice, requests>>

Next ==
  \/ ClientsNext
  \/ \E r \in Requests :
       \/ Request(r) \/ TokenGranted(r) \/ Response(r) \/ TransportFails(r)
       \/ Wake(r) \/ TimesOut(r)
  \/ Tick

Spec == Init /\ [][Next]_vars
------------------------------------------------------------------------------
(* A call gives up with a BalancerError only when no client is usable -    *)
(* connected and out of its cooldown - but ones that failed it, or when    *)
(* one of them has failed it twice, another in between: as cooldowns end   *)
(* and other requests clear them, one may be tried again and a usable one  *)
(* passed over.  Of two clients none ever is.                              *)
GivesUpLast ==
  [][\A r \in Requests : pc'[r] = "exhausted" /\ pc[r] # "exhausted"
       => \/ \A c \in Alive(cool)' : \E i \in DOMAIN tried[r] : tried[r][i] = c
          \/ \E i, j \in DOMAIN tried[r] : i + 1 < j /\ tried[r][i] = tried[r][j]]_vars

(* The retries of one call stay within its policy, however the errors      *)
(* alternate between rules: never more attempts than the rules allow       *)
(* together, and no retry begins after the total timeout.                  *)
RetriesWithinPolicy ==
  \A r \in Requests :
    /\ \A i \in DOMAIN counts[r] : counts[r][i] < Policy[on[r]][i].max_retries
    /\ pc[r] = "sleep" => passed[r] + pause[r] <= TotalTimeout
==============================================================================
