--------------------------- MODULE TransactionPages ---------------------------
(***************************************************************************)
(* get_transactions() of the lite clients (clients/lite/mixin.py) and of   *)
(* the HTTP clients: the history of an account, page by page, while the    *)
(* account gets new transactions; and get_block_transactions(), the pages  *)
(* of a block.  A transaction is its logical time; here they follow each   *)
(* other 1, 2, 3...                                                        *)
(***************************************************************************)
EXTENDS Naturals, SequencesExt

CONSTANTS MaxLt,   (* bound: the account gets no more transactions *)
          Page     (* transactions of a page: 16 of a lite-server, 100 of Toncenter *)

ASSUME PagesAssumption == MaxLt \in Nat /\ Page \in Nat \ {0}

VARIABLES newest,  (* last_trans_lt of the account, 0 if it has none *)
          known,   (* ... as of last_mc_block of a lite client *)
          asked,   (* the call: which client, limit, from_lt, to_lt *)
          reading, (* where it stands *)
          curr,    (* curr_lt, 0 before the first page *)
          found,   (* transactions so far *)
          base     (* history: the newest transaction when the call began *)
pages == <<newest, known, asked, reading, curr, found, base>>

Asks == [client : {"lite", "toncenter", "tonapi"}, limit : 1..MaxLt,
         from : 1..MaxLt + 1, to : 0..MaxLt]  \* from_lt None is above them all
BlockAsks == [client : {"block"}, limit : 1..MaxLt, from : {1}, to : {0}]

PagesInit ==
  /\ newest \in 0..MaxLt /\ known = newest
  /\ asked \in Asks \cup BlockAsks
  /\ reading = "idle" /\ curr = 0 /\ found = <<>> /\ base = newest

(* lts from n down to the one above m *)
Down(n, m) == IF n <= m THEN <<>> ELSE [i \in 1..n - m |-> n + 1 - i]
Upto(seq, n) == IF Len(seq) <= n THEN seq ELSE SubSeq(seq, 1, n)

(* What the call asks for, of an account whose newest transaction is n. *)
Window(n) ==
  Upto(Down(IF n < asked.from THEN n ELSE asked.from, asked.to), asked.limit)
------------------------------------------------------------------------------
Begin ==
  /\ reading = "idle"
  /\ reading' = IF asked.client = "lite" THEN "info" ELSE "page"
  /\ base' = IF asked.client = "lite" THEN known ELSE newest
  /\ UNCHANGED <<newest, known, asked, curr, found>>

(* The lite clients begin with get_info(), at their last_mc_block. *)
GetInfo ==
  /\ reading = "info"
  /\ curr' = known
  /\ reading' = IF known = 0 THEN "done" ELSE "page"
  /\ UNCHANGED <<newest, known, asked, found, base>>

(* Servers: a page from the one asked for, or from the newest, not always  *)
(* as long as it may be; Toncenter leaves out what to_lt excludes.         *)
ServerPages ==
  LET rest == Down(IF curr = 0 THEN newest ELSE curr,
                   IF asked.client = "toncenter" THEN asked.to ELSE 0)
      most == Upto(rest, Page)
  IN {SubSeq(most, 1, n) : n \in (IF rest = <<>> THEN {0} ELSE 1..Len(most))}

SameAgain(txs) == Last(txs)  \* mutant of PrevTransLt
PrevTransLt(txs) == Last(txs) - 1

(* The loop over a page: those after from_lt are passed over, one at or    *)
(* before to_lt ends the call, as the limit does.                          *)
ReadPage(txs) ==
  LET read[i \in 0..Len(txs)] ==
        IF i = 0 THEN [out |-> found, over |-> FALSE]
        ELSE IF read[i - 1].over \/ txs[i] > asked.from THEN read[i - 1]
        ELSE IF txs[i] <= asked.to THEN [out |-> read[i - 1].out, over |-> TRUE]
        ELSE [out  |-> Append(read[i - 1].out, txs[i]),
              over |-> Len(read[i - 1].out) + 1 >= asked.limit]
  IN read

(* ... and so do an empty page and the end of the history.                 *)
TakePage(txs) ==
  LET last == ReadPage(txs)[Len(txs)]
      over == txs = <<>> \/ last.over \/ PrevTransLt(txs) = 0
  IN /\ found' = last.out
     /\ curr' = IF over THEN curr ELSE PrevTransLt(txs)
     /\ reading' = IF over THEN "done" ELSE "page"

ToncenterPage ==
  /\ reading = "page" /\ asked.client = "toncenter"
  /\ \E txs \in ServerPages : TakePage(txs)
  /\ UNCHANGED <<newest, known, asked, base>>

(* get_transactions() of the lite provider: by their hashes the first one  *)
(* is the one asked for, and each next one the one before.                 *)
IsChain(txs) == \A i \in DOMAIN txs : txs[i] = curr + 1 - i

(* A lite-server may leave one out. *)
LitePage ==
  /\ reading = "page" /\ asked.client = "lite"
  /\ \E txs \in ServerPages :
       \E sent \in {txs} \cup {RemoveAt(txs, i) : i \in 1..Len(txs) - 1} :
         IF IsChain(sent) THEN TakePage(sent)
         ELSE reading' = "failed" /\ found' = <<>> /\ curr' = 0
  /\ UNCHANGED <<newest, known, asked, base>>

(* get_block_transactions(): more of them after the last one, until a page *)
(* is not incomplete.                                                      *)
BlockPage ==
  /\ reading = "page" /\ asked.client = "block"
  /\ LET after == IF found = <<>> THEN 0 ELSE Last(found)
         room == Min({asked.limit, Page, base - after})
     IN \E n \in (IF room = 0 THEN {0} ELSE 1..room) :
          /\ found' = found \o [i \in 1..n |-> after + i]
          /\ reading' = IF after + n < base THEN "page" ELSE "done"
  /\ UNCHANGED <<newest, known, asked, curr, base>>

(* Tonapi: one request, all of it left to the server. *)
AskTonapi ==
  /\ reading = "page" /\ asked.client = "tonapi"
  /\ found' = Window(newest) /\ reading' = "done"
  /\ UNCHANGED <<newest, known, asked, curr, base>>

(* A request fails, and with it the call. *)
PageFails ==
  /\ reading \in {"info", "page"}
  /\ reading' = "failed" /\ found' = <<>> /\ curr' = 0
  /\ UNCHANGED <<newest, known, asked, base>>

NewTransaction ==
  /\ newest < MaxLt
  /\ newest' = newest + 1
  /\ UNCHANGED <<known, asked, reading, curr, found, base>>

(* last_mc_block moves on. *)
KnownMoves ==
  /\ known < newest
  /\ known' \in known + 1..newest
  /\ UNCHANGED <<newest, asked, reading, curr, found, base>>

PagesNext ==
  \/ Begin \/ GetInfo \/ LitePage \/ BlockPage \/ ToncenterPage \/ AskTonapi \/ PageFails
  \/ NewTransaction \/ KnownMoves
PagesSpec == PagesInit /\ [][PagesNext]_pages
------------------------------------------------------------------------------
(* However the pages are cut, whatever the account gets meanwhile, and     *)
(* whatever a lite-server leaves out, the answer is the history the        *)
(* account had at one moment of the call: the newest limit transactions of *)
(* those asked for, none twice, none missed; and all of a block's.         *)
HistoryComplete ==
  reading = "done" =>
    IF asked.client = "block" THEN found = [i \in 1..base |-> i]
    ELSE \E n \in base..newest : found = Window(n)
==============================================================================
