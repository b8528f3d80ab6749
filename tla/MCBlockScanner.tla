---------------------------- MODULE MCBlockScanner ----------------------------
(* Three masterchain blocks after the first: enough for a shard to split,  *)
(* advance unevenly and merge again, and for a run to be taken up twice.   *)
EXTENDS BlockScanner
==============================================================================
