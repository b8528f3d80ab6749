-------------------------------- MODULE Wallet --------------------------------
(***************************************************************************)
(* tonutils/contracts/wallet, contracts/base.py: transfers of one wallet,  *)
(* through a SeqnoGuard, without it, or through the gasless relay, against *)
(* an account of the blockchain that applies, loses and expires messages.  *)
(*                                                                         *)
(* An action of a call is what its task does between two awaits, together  *)
(* with the answer it waited for.  Any request may fail, be cancelled, or  *)
(* lose its answer (Raises, Lost).  The account is the network's.          *)
(***************************************************************************)
EXTENDS WalletMessages, LockQueue, FiniteSets

CONSTANTS Calls,      (* transfers of the wallet, each by a task of its own  *)
          Guarded,    (* those through the SeqnoGuard                        *)
          Gasless,    (* those through gasless_estimate() and gasless_send() *)
          Jettons,    (* those whose builder asks for a jetton wallet first  *)
          Batch,      (* messages of a call, by the version of the wallet    *)
          Given,      (* params.seqno of a call: <<>> for None, or <<seqno>> *)
          Wallets     (* versions of the wallet to look at                   *)

ASSUME WalletAssumption ==
  /\ Guarded \subseteq Calls /\ Jettons \subseteq Calls
  /\ Gasless \subseteq Calls \ Guarded
  /\ Wallets \subseteq Versions /\ Batch \in [Wallets -> [Calls -> Nat]]
ASSUME GivenAssumption ==
  \A c \in Calls : Given[c] \in Seq(Nat) /\ Len(Given[c]) <= 1

VARIABLES version,   (* the class of the wallet                              *)
          wallet,    (* its key and state_init, as constructed               *)
          info,      (* self._info                                           *)
          pc, lock,  (* where a call stands; the guard's lock, FIFO          *)
          seen,      (* the seqno a guarded call began with                  *)
          msg,       (* the external message of a call                       *)
          seqno,     (* the account: its seqno                               *)
          deployed,  (* whether it has been deployed                         *)
          pool,      (* messages the network may still apply                 *)
          applied,   (* calls whose message was applied                      *)
          inner,     (* levels of an applied batch that are still to run     *)
          delivered, (* transfers a batch has made                           *)
          sent       (* history: calls whose message a node took             *)

object == <<version, wallet>>
calls == <<pc, lock, seen, msg>>
account == <<seqno, deployed, pool, applied, inner, delivered, sent>>
vars == <<object, info, calls, account>>

NoWallet == [made |-> FALSE, key |-> FALSE, init |-> FALSE]
NoMessage == [seqno |-> 0, expires |-> FALSE, init |-> FALSE, levels |-> <<>>]
Ended == {"ok", "failed"}
AtAwait == {"read", "estimate", "build", "load", "send", "poll"}

TypeOK ==
  /\ version \in Wallets
  /\ wallet \in [made : BOOLEAN, key : BOOLEAN, init : BOOLEAN]
  /\ info \in [active : BOOLEAN, seqno : Nat]
  /\ pc \in [Calls -> {"idle"} \cup AtAwait \cup Ended]
  /\ \A i \in DOMAIN lock : lock[i] \in Guarded /\ pc[lock[i]] \in AtAwait
  /\ seen \in [Calls -> 0..seqno]
  /\ \A c \in Calls : Given[c] = <<>> => msg[c].seqno <= seqno
  /\ deployed \in BOOLEAN /\ (seqno > 0 => deployed)
  /\ pool \subseteq sent /\ applied \subseteq sent /\ sent \subseteq Calls
  /\ pool \cap applied = {}

Init ==
  /\ version \in Wallets
  /\ wallet = NoWallet /\ info = NoInfo
  /\ pc = [c \in Calls |-> "idle"] /\ lock = <<>>
  /\ seen = [c \in Calls |-> 0]
  /\ msg = [c \in Calls |-> NoMessage]
  /\ deployed \in BOOLEAN
  /\ seqno = IF deployed /\ HasSeqno(version) THEN 1 ELSE 0
  /\ pool = {} /\ applied = {} /\ sent = {}
  /\ inner = [c \in Calls |-> <<>>]
  /\ delivered = [c \in Calls |-> 0]
------------------------------------------------------------------------------
(* What a server answers that is up to date. *)
Answer == [active |-> deployed, seqno |-> seqno]

(* from_private_key(): the address and the state_init follow from the key. *)
FromPrivateKey ==
  /\ ~wallet.made
  /\ wallet' = [made |-> TRUE, key |-> TRUE, init |-> TRUE]
  /\ UNCHANGED <<version, info, calls, account>>

(* from_mnemonic(), create(): a phrase of the wrong length, or with a word *)
(* that is none, is refused unless the caller asked not to look.           *)
Accepted(phrase, validate) == validate => phrase.valid
FromMnemonic(phrase, validate) == Accepted(phrase, validate) /\ FromPrivateKey

(* from_state_init(), from_code_and_data(), from_data(): no key. *)
FromStateInit ==
  /\ ~wallet.made
  /\ wallet' = [made |-> TRUE, key |-> FALSE, init |-> TRUE]
  /\ UNCHANGED <<version, info, calls, account>>

(* from_address(): read only; _load_info() makes a default of any failure. *)
FromAddress ==
  /\ ~wallet.made
  /\ wallet' = [made |-> TRUE, key |-> FALSE, init |-> FALSE]
  /\ info' \in {Answer, NoInfo}
  /\ UNCHANGED <<version, calls, account>>
------------------------------------------------------------------------------
(* Mutant of Release: only a call that succeeds gives up the lock. *)
ReleaseIfOk(c, how) == lock' = IF how = "ok" THEN Without(lock, c) ELSE lock

(* async with self._lock: left by any way out, and the queue for it too. *)
Release(c, how) == lock' = Without(lock, c)

End(c, how) ==
  /\ pc' = [pc EXCEPT ![c] = how]
  /\ Release(c, how)
  /\ UNCHANGED <<seen, msg>>

Goto(c, where) == pc' = [pc EXCEPT ![c] = where]

(* transfer() and its kin make the coroutine of the transfer at once, but  *)
(* it runs only inside the lock.  A SeqnoGuard needs a wallet with seqno.  *)
Begin(c) ==
  /\ pc[c] = "idle" /\ wallet.made
  /\ c \in Guarded => HasSeqno(version)
  /\ c \in Gasless => GaslessAllowed(version)
  /\ Goto(c, IF c \in Guarded THEN "read"
             ELSE IF c \in Gasless THEN "estimate"
             ELSE IF c \in Jettons THEN "build" ELSE "load")
  /\ lock' = IF c \in Guarded THEN Append(lock, c) ELSE lock
  /\ UNCHANGED <<object, info, seen, msg, account>>

HoldsLock(c) == c \in Guarded => lock # <<>> /\ Head(lock) = c

(* seqno() of the wallet: of an account that is there. *)
AskSeqno ==
  /\ deployed
  /\ info' = IF SeqnoFromState(version) THEN Answer ELSE info

(* _send(): seqno = await self._wallet.seqno() *)
ReadSeqno(c) ==
  /\ pc[c] = "read" /\ HoldsLock(c)
  /\ AskSeqno
  /\ seen' = [seen EXCEPT ![c] = Answer.seqno]
  /\ Goto(c, IF c \in Jettons THEN "build" ELSE "load")
  /\ UNCHANGED <<object, lock, msg, account>>

(* gasless_estimate(): the relay's configuration, which may not support    *)
(* the jetton, and its messages to sign.                                   *)
GaslessValidateJetton(c, supported) ==
  IF supported THEN Goto(c, "load") /\ UNCHANGED <<lock, seen, msg>>
               ELSE End(c, "failed")

Estimate(c) ==
  /\ pc[c] = "estimate"
  /\ \E supported \in BOOLEAN : GaslessValidateJetton(c, supported)
  /\ UNCHANGED <<object, info, account>>

(* JettonTransferBuilder.build(): get_wallet_address of the jetton master *)
ResolveJettonWallet(c) ==
  /\ pc[c] = "build"
  /\ Goto(c, "load")
  /\ UNCHANGED <<object, info, lock, seen, msg, account>>

(* _validate_message_count(), and the key that _build_signed_msg_cell()    *)
(* wants; a highload wallet wants messages too.                            *)
CanSign(c) ==
  /\ Batch[version][c] <= MaxMessages[version]
  /\ version = "hw3" => Batch[version][c] > 0
  /\ wallet.key

(* build_external_message() from the answer to refresh() on. *)
Load(c) ==
  /\ pc[c] = "load"
  /\ info' \in {Answer, NoInfo}
  /\ IF CanSign(c)
     THEN /\ msg' = [msg EXCEPT ![c] = ExternalMessage(version, info', Batch[version][c],
                                                   wallet.init, Given[c])]
          /\ Goto(c, "send")
          /\ UNCHANGED <<lock, seen>>
     ELSE End(c, "failed")
  /\ UNCHANGED <<object, account>>

(* A node takes the message: it may be applied from now on. *)
Taken(c) ==
  /\ sent' = sent \cup {c}
  /\ pool' = IF msg[c].seqno < seqno THEN pool ELSE pool \cup {c}
  /\ UNCHANGED <<seqno, deployed, applied, inner, delivered>>

(* send_message(), or gasless_send() to the relay, and its answer. *)
Send(c) ==
  /\ pc[c] = "send"
  /\ Taken(c)
  /\ IF c \in Guarded THEN Goto(c, "poll") /\ UNCHANGED <<lock, seen, msg>>
                      ELSE End(c, "ok")
  /\ UNCHANGED <<object, info>>

(* The message was taken, the answer was not received. *)
Lost(c) ==
  /\ pc[c] = "send"
  /\ Taken(c)
  /\ End(c, "failed")
  /\ UNCHANGED <<object, info>>

(* Mutant of Advanced: the first answer will do. *)
AnyAnswer(c) == TRUE
Advanced(c) == Answer.seqno # seen[c]

(* _wait_seqno(): one poll. *)
Poll(c) ==
  /\ pc[c] = "poll"
  /\ AskSeqno
  /\ IF Advanced(c) THEN End(c, "ok") ELSE UNCHANGED calls
  /\ UNCHANGED <<object, account>>

(* ... and the end of the time allowed for them *)
TimesOut(c) ==
  /\ pc[c] = "poll"
  /\ End(c, "failed")
  /\ UNCHANGED <<object, info, account>>

(* A request, or the cancellation of the task, raises out of the call; a   *)
(* seqno() that refreshes keeps the default info of the failed request.    *)
Raises(c) ==
  /\ pc[c] \in AtAwait
  /\ End(c, "failed")
  /\ info' \in IF pc[c] \in {"read", "poll"} /\ SeqnoFromState(version)
               THEN {info, NoInfo} ELSE {info}
  /\ UNCHANGED <<object, account>>
------------------------------------------------------------------------------
(* The network and the code of the wallet on it. *)
Applicable(m) == (HasSeqno(version) => m.seqno = seqno) /\ (deployed \/ m.init)

Apply(c) ==
  /\ c \in pool /\ Applicable(msg[c])
  /\ seqno' = IF HasSeqno(version) THEN seqno + 1 ELSE seqno
  /\ deployed' = TRUE
  /\ applied' = applied \cup {c}
  /\ pool' = {d \in pool \ {c} : msg[d].seqno >= seqno'}
  /\ delivered' = [delivered EXCEPT ![c] = Head(msg[c].levels)]
  /\ inner' = [inner EXCEPT ![c] = Tail(msg[c].levels)]
  /\ UNCHANGED <<object, info, calls, sent>>

(* The message of a highload wallet to itself runs the next level. *)
RunLevel(c) ==
  /\ inner[c] # <<>>
  /\ delivered' = [delivered EXCEPT ![c] = @ + Head(inner[c])]
  /\ inner' = [inner EXCEPT ![c] = Tail(@)]
  /\ UNCHANGED <<object, info, calls, seqno, deployed, pool, applied, sent>>

Expire(c) ==
  /\ c \in pool /\ msg[c].expires
  /\ pool' = pool \ {c}
  /\ UNCHANGED <<object, info, calls, seqno, deployed, applied, inner, delivered, sent>>
------------------------------------------------------------------------------
(* What a call's task does when its turn or its answer comes. *)
Progress(c) ==
  \/ ReadSeqno(c) \/ Estimate(c) \/ ResolveJettonWallet(c) \/ Load(c) \/ Send(c)
  \/ HoldsLock(c) /\ Raises(c)

Next ==
  \/ FromPrivateKey \/ FromStateInit \/ FromAddress
  \/ \E valid, validate \in BOOLEAN : FromMnemonic([valid |-> valid], validate)
  \/ \E c \in Calls :
       \/ Begin(c) \/ ReadSeqno(c) \/ Estimate(c) \/ ResolveJettonWallet(c) \/ Load(c)
       \/ Send(c) \/ Lost(c) \/ Poll(c) \/ TimesOut(c) \/ Raises(c)
       \/ Apply(c) \/ RunLevel(c) \/ Expire(c)

(* Requests end, with an answer or an error; time passes during the polls. *)
Fairness == \A c \in Calls : WF_vars(Progress(c)) /\ WF_vars(TimesOut(c))
Spec == Init /\ [][Next]_vars /\ Fairness
------------------------------------------------------------------------------
(* As long as every message in the network is that of a guarded transfer   *)
(* which has not failed, a transfer that the guard reports as sent has     *)
(* been applied, and not only some transaction of the wallet.  (After a    *)
(* timeout or a bare transfer a later one may be confirmed by a message    *)
(* that is not its own.)                                                   *)
ConfirmedIsApplied ==
  (\A c \in sent : c \in Guarded /\ pc[c] # "failed")
    => \A c \in Guarded : pc[c] = "ok" => c \in applied

(* Whatever fails or goes around the guard, two transfers are never        *)
(* confirmed by the same transaction of the wallet.                        *)
OneSeqnoEach ==
  \A c, d \in Guarded :
    c # d /\ pc[c] = "ok" /\ pc[d] = "ok" => seen[c] # seen[d] /\ seen[c] < seqno

(* What the guard promises, of both kinds. *)
GuardConfirms == ConfirmedIsApplied /\ OneSeqnoEach

(* A batch loses and repeats nothing on its way through the levels it was  *)
(* packed into, and no level exceeds the 255 actions of a transaction.     *)
BatchDelivered ==
  \A c \in applied :
    /\ delivered[c] + Total[inner[c]] = Batch[version][c]
    /\ \A i \in DOMAIN msg[c].levels : LevelActions(msg[c].levels, i) <= 255

(* Every transfer ends, also those that queue up for the guard. *)
CallsEnd == \A c \in Calls : pc[c] # "idle" ~> pc[c] \in Ended
==============================================================================
