----------------------------- MODULE HttpClients -----------------------------
(***************************************************************************)
(* tonutils/clients/http, tonutils/providers/http: what the clients of     *)
(* Toncenter and Tonapi make of an HTTP answer.  Of the body of an answer  *)
(* it matters whether the model of the operation accepts it, and whether   *)
(* it is odd: accepted, but without what the client is after (no config, a *)
(* state it does not know, an exit code that is not 0).                    *)
(***************************************************************************)
EXTENDS Naturals, Functions, FiniteSetsExt

Kinds == {"toncenter", "tonapi"}
Operations == {"send_message", "get_config", "get_info", "get_transactions", "run_get_method"}

Bodies == {"good", "odd", "invalid"}

(* _model(): TypeError, KeyError, ValueError become a ProviderError. *)
ValidatedBy(checked, body) == IF body = "invalid" /\ checked THEN "provider_error" ELSE "ok"
------------------------------------------------------------------------------
(* The providers: only the requests that send a message look at no body. *)
ToncenterProvider(op, body) == ValidatedBy(op # "send_message", body)
TonapiProvider(op, body) == ValidatedBy(op # "send_message", body)

(* The clients on top: an odd answer raises an error to the caller that is *)
(* not the provider's.                                                     *)
ToncenterClient(op, body) ==
  IF body = "odd" /\ op \in {"get_config", "get_info", "run_get_method"} THEN "raised"
  ELSE ToncenterProvider(op, body)

TonapiClient(op, body) ==
  IF body = "odd" /\ op \in {"get_config", "get_info", "run_get_method"} THEN "raised"
  ELSE TonapiProvider(op, body)

Result(kind, op, body) ==
  IF kind = "tonapi" THEN TonapiClient(op, body) ELSE ToncenterClient(op, body)
------------------------------------------------------------------------------
(* The body of an error: the words in it that a rule may look for, those   *)
(* said under "error", "message", "detail" or "description", if there is   *)
(* one of these, and the rest.                                             *)
Words(body) == body.rest \cup UNION Range(body.said)

(* A page of a CDN or proxy is told by a marker, the first one that is in  *)
(* it, and gets a message of ours: not every one of these has a marker.    *)
CdnMarkers == <<"cloudflare", "503 service unavailable">>
CdnMessage == <<{"cloudflare"}, {}>>

DetectProxyError(body) ==
  LET there == {i \in DOMAIN CdnMarkers : CdnMarkers[i] \in Words(body)}
  IN IF there = {} THEN <<>> ELSE <<CdnMessage[Min(there)]>>

ExtractErrorMessage(body) == IF body.said # <<>> THEN body.said[1] ELSE body.rest

RaiseError(code, body) ==
  LET page == DetectProxyError(body)
  IN [code |-> code, message |-> IF page # <<>> THEN page[1] ELSE ExtractErrorMessage(body)]

(* An account that is not there is an answer of Tonapi's get_info. *)
IsAnswer(kind, op, error) == kind = "tonapi" /\ op = "get_info" /\ error.code = 404
==============================================================================
