SPECIFICATION FairSpec
CONSTANTS
  Synced = 1
  MaxTip = 6
  TxCount = 3
  HEADER_BATCH = 2
  PARALLEL = 2
  RAW_TX_BATCH = 2
  ATTEMPTS = 2
INVARIANTS OneRange RawsInOrder HealthyIsEnough
PROPERTY ComesBack
