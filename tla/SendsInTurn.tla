------------------------------ MODULE SendsInTurn ------------------------------
(***************************************************************************)
(* What the guard of tonutils/contracts/wallet/guard.py promises those who *)
(* transfer through it, without a lock, polls or seqnos in messages:       *)
(* transfers take turns, each is in the network at most once and only by   *)
(* its turn, and one that is confirmed was posted, and the wallet has made *)
(* a transaction since the turn began.  Transfers past the guard are       *)
(* posted and settled at any time.                                         *)
(***************************************************************************)
EXTENDS Naturals

CONSTANTS Calls,   (* transfers of the wallet          *)
          Guarded  (* those that go through the guard  *)

VARIABLES turn,     (* the transfer whose turn it is, none or one            *)
          began,    (* how many transactions there were when its turn began  *)
          outcome,  (* what the caller of a transfer knows                   *)
          posted,   (* transfers the network has taken                       *)
          executed, (* ... and the wallet has executed                       *)
          count     (* transactions of the wallet, as its seqno counts them  *)
sends == <<turn, began, outcome, posted, executed, count>>

Init ==
  /\ turn = {} /\ began = [c \in Calls |-> 0] /\ outcome = [c \in Calls |-> "open"]
  /\ posted = {} /\ executed = {} /\ count \in Nat

TakeTurn(c) ==
  /\ c \in Guarded /\ outcome[c] = "open" /\ turn = {}
  /\ turn' = {c} /\ began' = [began EXCEPT ![c] = count]
  /\ UNCHANGED <<outcome, posted, executed, count>>

(* The caller gets an answer, for good, and the turn is free.              *)
Settle(c, how) ==
  /\ outcome[c] = "open"
  /\ outcome' = [outcome EXCEPT ![c] = how] /\ turn' = turn \ {c}

(* The network takes a transfer; its answer may be lost.                   *)
Post(c) ==
  /\ c \notin posted /\ outcome[c] = "open"
  /\ c \in Guarded => turn = {c}
  /\ posted' = posted \cup {c}
  /\ \/ c \in Guarded /\ UNCHANGED <<turn, outcome>>
     \/ c \notin Guarded /\ Settle(c, "ok")
     \/ Settle(c, "failed")
  /\ UNCHANGED <<began, executed, count>>

Confirm(c) ==
  /\ c \in Guarded /\ turn = {c} /\ c \in posted
  /\ count > began[c]
  /\ Settle(c, "ok")
  /\ UNCHANGED <<began, posted, executed, count>>

GiveUp(c) ==
  /\ Settle(c, "failed")
  /\ UNCHANGED <<began, posted, executed, count>>

(* Not every version of the wallet counts its transactions. *)
Execute(c) ==
  /\ c \in posted \ executed
  /\ executed' = executed \cup {c}
  /\ count' \in {count, count + 1}
  /\ UNCHANGED <<turn, began, outcome, posted>>

Next == \E c \in Calls : TakeTurn(c) \/ Post(c) \/ Confirm(c) \/ GiveUp(c) \/ Execute(c)

Spec == Init /\ [][Next]_sends
================================================================================
