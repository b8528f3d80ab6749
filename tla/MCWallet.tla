------------------------------- MODULE MCWallet -------------------------------
(* Two guarded transfers, a bare one and a gasless one of the same wallet. *)
EXTENDS Wallet
CONSTANTS g1, g2, bare, relayed
MCCalls == {g1, g2, bare, relayed}
MCGuarded == {g1, g2}
MCGasless == {relayed}
MCJettons == {g2}
MCWallets == {"v1", "v4", "v5r1", "hw3"}
MCBatch ==   (* 2 and 256 are too many for their wallets *)
  [v \in MCWallets |->
     [c \in MCCalls |->
        IF c # bare THEN 1 ELSE [v1 |-> 2, v4 |-> 1, v5r1 |-> 256, hw3 |-> 600][v]]]
(* The bare transfer may be ahead of the account; a guarded one was told the *)
(* seqno of a wallet that is there.                                          *)
MCGiven == [c \in MCCalls |-> IF c = bare THEN <<2>> ELSE IF c = g2 THEN <<1>> ELSE <<>>]
==============================================================================
