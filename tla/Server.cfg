SPECIFICATION FairSpec
CONSTANTS
  Workers = {w1}
  Poller = p
  Bodies <- MCBodies
  Start = 4
  MaxTip = 6
  CONFIRMATIONS = 4
  FINALITY_LAG = 1
  MAX_RPC_BATCH = 3
INVARIANTS PublishedInOrder NeverMixed AnswersMatch
PROPERTY ServedForEver
