----------------------------- MODULE RetryPolicy -----------------------------
(***************************************************************************)
(* tonutils/transports/retry.py and the RetryRule, RetryPolicy of          *)
(* types.py: what send_with_retry() does after an error, by the errors it  *)
(* has seen and the time that has passed.  Times are ticks.                *)
(***************************************************************************)
EXTENDS PowersOfTwo, Sequences, FiniteSetsExt

(* __post_init__() of a rule; a policy is a sequence of them, <<>> none.   *)
IsPolicy(rules) ==
  /\ DOMAIN rules = 1..Len(rules) /\ Len(rules) \in Nat
  /\ \A i \in DOMAIN rules :
       /\ rules[i].max_retries \in Nat \ {0}
       /\ rules[i].base_delay \in Nat /\ rules[i].max_delay \in Nat
       /\ rules[i].base_delay <= rules[i].max_delay

(* The attempts by rule that a call starts with. *)
FreshCounts(rules) == [i \in DOMAIN rules |-> 0]
------------------------------------------------------------------------------
(* RetryRule.matches(): by code, by a marker in the message, or by both. *)
Matches(rule, error) ==
  /\ error.code \in rule.codes
  /\ rule.markers # {} => rule.markers \cap error.message # {}

(* rule_for(): the first rule that matches, 0 if none does. *)
RuleFor(rules, error) ==
  LET matching == {i \in DOMAIN rules : Matches(rules[i], error)}
  IN IF matching = {} THEN 0 ELSE Min(matching)

(* delay_for_attempt(), with a backoff_factor of 2 *)
DelayForAttempt(rule, attempt) ==
  Min({rule.base_delay * PowerOfTwo[attempt], rule.max_delay})

(* Mutant of PastDeadline: only the time that has passed already. *)
PastAlready(timeout, passed, delay) == passed > timeout
PastDeadline(timeout, passed, delay) == passed + delay > timeout

(* The loop after ProviderResponseError: raise it, give up, or sleep. *)
AfterError(rules, timeout, counts, passed, error) ==
  LET i == RuleFor(rules, error)
      n == counts[i] + 1
      delay == DelayForAttempt(rules[i], n - 1)
  IN IF i = 0 THEN [verdict |-> "raise", counts |-> counts, delay |-> 0]
     ELSE IF n >= rules[i].max_retries \/ PastDeadline(timeout, passed, delay)
     THEN [verdict |-> "limit", counts |-> [counts EXCEPT ![i] = n], delay |-> 0]
     ELSE [verdict |-> "again", counts |-> [counts EXCEPT ![i] = n], delay |-> delay]
==============================================================================
