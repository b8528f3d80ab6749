----------------------------- MODULE TokenBucket -----------------------------
(***************************************************************************)
(* What tonutils/transports/limiter.py promises its callers, without tasks *)
(* or waiting: a bucket that holds at most MaxRate tokens, regains MaxRate *)
(* tokens every Period ticks, continuously, and gives one token to each    *)
(* acquisition.  Amounts are in units of 1/Period of a token, so that a    *)
(* tick adds MaxRate units and everything stays an integer.                *)
(***************************************************************************)
EXTENDS Integers

(* Both are positive: RateLimiter, which instantiates this, assumes so. *)
CONSTANTS MaxRate,  (* RateLimiter(max_rate, ...), acquisitions per period *)
          Period    (* RateLimiter(..., period), in clock ticks            *)

VARIABLE level      (* the units the bucket holds at this instant *)

Unit == Period               \* one token
Capacity == MaxRate * Period \* a full bucket

Capped(x) == IF x > Capacity THEN Capacity ELSE x

Init == level = Capacity

Tick == level' = Capped(level + MaxRate)

Grant == level >= Unit /\ level' = level - Unit

Next == Tick \/ Grant

Spec == Init /\ [][Next]_level
==============================================================================
