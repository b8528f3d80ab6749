----------------------------- MODULE PowersOfTwo -----------------------------
(***************************************************************************)
(* 2 ** n, as a recursive function: the provers know nothing of ^.         *)
(***************************************************************************)
EXTENDS Naturals

PowerOfTwo[n \in Nat] == IF n = 0 THEN 1 ELSE 2 * PowerOfTwo[n - 1]
==============================================================================
