CONSTANTS
  g1 = g1
  g2 = g2
  bare = bare
  relayed = relayed
  Calls <- MCCalls
  Guarded <- MCGuarded
  Gasless <- MCGasless
  Jettons <- MCJettons
  Batch <- MCBatch
  Given <- MCGiven
  Wallets <- MCWallets
SPECIFICATION Spec
INVARIANT GuardConfirms
INVARIANT BatchDelivered
PROPERTY CallsEnd
CHECK_DEADLOCK FALSE
