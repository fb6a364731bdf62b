SPECIFICATION Spec
CONSTANTS
  Nibbles = {0, 1}
  KeyLen = 2
  Values = {0, 1, 2}
  Long = {2}
  AccountKey <- MCAccountKey
  SlotKey <- MCSlotKey
  Precompiles = {"local", "bls", "bsc"}
  Worlds <- MCWorlds
  Funds <- MCFunds
  Requests <- MCRequests
  Op <- MCOp
  Number = 5
  Known = {4}
  CANCUN_TIME = 1
  PRAGUE_TIME = 2
  OSAKA_MENDEL_TIME = 3
  CALL_GAS_CAP = 15
  MAX_TX_GAS = 8
  TX_GAS = 2
  BLOCKHASH_WINDOW = 3
  MAX_PROOF_ROUNDS = 3
  MAX_CALL_ACCOUNTS = 3
  MAX_PROOF_STORAGE_KEYS = 2
  MAX_ESTIMATE_ITERS = 4
  MAX_PROOF_NODES = 3
  MAX_PROOF_STORAGE_ENTRIES = 2
  MaxOps = 8
INVARIANTS LoadedWithinCaps ResultTrue HonestIsServed
CHECK_DEADLOCK FALSE
