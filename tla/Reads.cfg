SPECIFICATION FairSpec
CONSTANTS
  Branches = {"a", "b"}
  Trunk = "a"
  Fork = 2
  Start = 3
  MaxHeight = 5
  TxCount <- MCTxCount
  Wanted <- MCWanted
  Deployed = 2
  KEEP = 3
  CONFIRMATIONS = 2
  PROOF_LOOKBACK = 2
  HASHES = 2
  MAX_RANGE = 2
  MAX_LOGS = 2
INVARIANTS Truthful NeverReverted OneChain PassedIsBound HonestIsServed
PROPERTY Answered
CHECK_DEADLOCK FALSE
