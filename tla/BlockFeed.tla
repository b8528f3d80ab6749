------------------------------- MODULE BlockFeed -------------------------------
(***************************************************************************)
(* What tonutils/tools/block_scanner promises its handlers and whoever     *)
(* resumes from its storage, without a queue, a walk over shards or a stop *)
(* event: the shard blocks of one masterchain block after the other, each  *)
(* once per run and after those it builds on; and a number in the storage  *)
(* up to which nothing is missing.                                         *)
(***************************************************************************)
EXTENDS Integers, Sequences

VARIABLES prev,    (* the predecessors of every shard block                  *)
          mc,      (* mc[n + 1].blocks: the shard blocks up to masterchain   *)
                   (* block n                                                *)
          handled, (* blocks handled, or before the point where a run was    *)
                   (* told to start                                          *)
          given,   (* blocks this run has given to its handlers              *)
          left,    (* blocks that a run which was cut off has left to this   *)
          stored   (* the number in the storage, -1: none                    *)
feed == <<prev, mc, handled, given, left, stored>>

Known == DOMAIN prev
Top == Len(mc) - 1
Through(n) == mc[n + 1].blocks

Init ==
  /\ Len(mc) = 1
  /\ handled = {} /\ given = {} /\ left = {} /\ stored = -1

(* The chain only grows. *)
Grow ==
  /\ Top' = Top + 1 /\ \A n \in 0..Top : mc'[n + 1] = mc[n + 1]
  /\ Known \subseteq Known' /\ \A b \in Known : prev'[b] = prev[b]
  /\ UNCHANGED <<handled, given, left, stored>>

(* A run begins: it owes nothing from before masterchain block n, or goes  *)
(* on where an earlier one has ended.                                      *)
Begin ==
  /\ \/ \E n \in 1..Top : handled' = handled \cup Through(n - 1)
     \/ stored # -1 /\ UNCHANGED handled
  /\ given' = {} /\ left' \subseteq Known
  /\ UNCHANGED <<prev, mc, stored>>

(* ... and ends, in whatever way. *)
End ==
  /\ given' = {} /\ left' = {}
  /\ UNCHANGED <<prev, mc, handled, stored>>

(* Due: new in masterchain block n, all before n is handled, and all that  *)
(* it builds on.                                                           *)
Due(b) ==
  /\ b \notin given
  /\ \E n \in 1..Top :
       b \in Through(n) \ Through(n - 1) /\ Through(n - 1) \subseteq handled
  /\ \A k \in DOMAIN prev[b] : prev[b][k] \in handled

Give(b) ==
  /\ b \in left \/ Due(b)
  /\ given' = given \cup {b}
  /\ UNCHANGED <<prev, mc, handled, left, stored>>

(* The handlers of a block return. *)
Finish(b) ==
  /\ b \in given
  /\ handled' = handled \cup {b}
  /\ UNCHANGED <<prev, mc, given, left, stored>>

Store(n) ==
  /\ Through(n) \subseteq handled
  /\ stored' = n
  /\ UNCHANGED <<prev, mc, handled, given, left>>

Next ==
  \/ Grow \/ Begin \/ End
  \/ \E b \in Known : Give(b) \/ Finish(b)
  \/ \E n \in 1..Top : Store(n)

Spec == Init /\ [][Next]_feed
================================================================================
