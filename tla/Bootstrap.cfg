CONSTANTS
  None = None
  Validator = {1, 2, 3}
  Hash <- MCHash
  DEFAULT_EPOCH_LENGTH = 6
  LORENTZ_EPOCH_LENGTH = 6
  MAXWELL_EPOCH_LENGTH = 6
  LORENTZ_TIME = 1
  MAXWELL_TIME = 2
  FERMI_TIME = 3
  LONDON_BLOCK = 0
  K_ANCESTOR_GENERATION_DEPTH = 3
  Sets = {{1, 2, 3}, {2, 3}}
  Turns = {1, 2}
  StartSets = {{1, 2}, {1, 2, 3}}
  Keyless = FALSE
  AtActivation = FALSE
  MaxHeight = 16
  Genesis <- MCGenesis
  Sealable <- MCSealable
SPECIFICATION Spec
CHECK_DEADLOCK FALSE
INVARIANTS NeverWedged RefusesExactlyPending Converges
