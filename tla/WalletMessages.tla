---------------------------- MODULE WalletMessages ----------------------------
(***************************************************************************)
(* tonutils/contracts/wallet: what a wallet of each version signs.  Of the *)
(* fields of the signed cell only those matter here that protect a message *)
(* against being executed twice or too late.                               *)
(***************************************************************************)
EXTENDS Naturals, Sequences

(* The fields of _build_msg_cell(), by version. *)
V1Fields == {"seqno"}
V2Fields == {"seqno", "valid_until"}
V3Fields == {"subwallet_id", "valid_until", "seqno"}
V4Fields == {"subwallet_id", "valid_until", "seqno", "op_code"}
V5BetaFields == {"op_code", "subwallet_id", "valid_until", "seqno"}
V5R1Fields == {"op_code", "subwallet_id", "valid_until", "seqno"}
PreprocessedFields == {"valid_until", "seqno"}
HighloadV2Fields == {"subwallet_id", "bounded_id"}
HighloadV3Fields == {"subwallet_id", "query_id", "created_at", "timeout"}

Fields ==
  [v1 |-> V1Fields, v2 |-> V2Fields, v3 |-> V3Fields, v4 |-> V4Fields,
   v5beta |-> V5BetaFields, v5r1 |-> V5R1Fields, pp |-> PreprocessedFields,
   hw2 |-> HighloadV2Fields, hw3 |-> HighloadV3Fields]

Versions == DOMAIN Fields

(* MAX_MESSAGES of the class *)
MaxMessages ==
  [v1 |-> 1, v2 |-> 4, v3 |-> 4, v4 |-> 4, v5beta |-> 255, v5r1 |-> 255, pp |-> 255,
   hw2 |-> 254, hw3 |-> 254 * 254]

HasSeqno(v) == "seqno" \in Fields[v]
(* seqno() of these refreshes the wallet and decodes its state; the others *)
(* ask the get-method.                                                     *)
SeqnoFromState(v) == v \in {"v1", "pp"}
V5Versions == {"v5beta", "v5r1"}

(* _gasless_validate_provider(): TonapiClient on mainnet, v5 wallets only *)
GaslessAllowed(v) == v \in V5Versions
------------------------------------------------------------------------------
(* WalletHighloadV3R1 packs a batch into messages to itself, one inside    *)
(* the other: the transfers that each level holds, the outermost first.    *)
PackSize == 253

Packs[n \in Nat] == IF n > PackSize THEN <<PackSize>> \o Packs[n - PackSize] ELSE <<n>>

Total[levels \in Seq(Nat)] ==
  IF levels = <<>> THEN 0 ELSE Head(levels) + Total[Tail(levels)]

(* Out-actions of level i: its transfers, and the level inside it. *)
LevelActions(levels, i) == levels[i] + (IF i < Len(levels) THEN 1 ELSE 0)

(* Mutant of Levels: the slices leave one message out between them. *)
GappedLevels(v, n) ==
  IF v = "hw3" /\ n > PackSize THEN <<PackSize>> \o Packs[n - PackSize - 1] ELSE <<n>>

(* _build_out_actions() and _build_messages_dict_cell() keep the messages  *)
(* of a batch in one transaction.                                          *)
Levels(v, n) == IF v = "hw3" THEN Packs[n] ELSE <<n>>
------------------------------------------------------------------------------
(* What the wallet knows of its account: the default ContractInfo() when   *)
(* it could not be loaded.                                                 *)
NoInfo == [active |-> FALSE, seqno |-> 0]

(* The seqno of a message: the one the caller gave, <<>> if none; else that *)
(* of the decoded state, 0 unless is_active.                                *)
SeqnoFor(v, info, given) ==
  CASE ~HasSeqno(v) -> 0
    [] HasSeqno(v) /\ given # <<>> -> given[1]
    [] HasSeqno(v) /\ given = <<>> -> IF info.active THEN info.seqno ELSE 0

(* build_external_message(), after the refresh; a valid_until comes to pass *)
(* whoever chose it.                                                        *)
ExternalMessage(v, info, n, hasInit, given) ==
  [seqno |-> SeqnoFor(v, info, given),
   expires |-> "valid_until" \in Fields[v] \/ "timeout" \in Fields[v],
   init |-> ~info.active /\ hasInit,
   levels |-> Levels(v, n)]
==============================================================================
