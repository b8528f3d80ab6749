---------------------------- MODULE MCRateLimiter ----------------------------
(* Two priority and two normal callers of a limiter whose rate, 2 tokens   *)
(* per 3 ticks, never divides evenly into ticks.                           *)
EXTENDS RateLimiter

CONSTANTS p1, p2, n1, n2
MCPriority == {p1, p2}
MCNormal == {n1, n2}
==============================================================================
