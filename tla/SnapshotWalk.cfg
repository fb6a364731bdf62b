CONSTANTS
  None = None
  Validator = {1, 2, 3}
  Hash <- MCHash
  DEFAULT_EPOCH_LENGTH = 2
  LORENTZ_EPOCH_LENGTH = 6
  MAXWELL_EPOCH_LENGTH = 6
  LORENTZ_TIME = 1
  MAXWELL_TIME = 2
  FERMI_TIME = 3
  LONDON_BLOCK = 0
  K_ANCESTOR_GENERATION_DEPTH = 3
  Sets = {{1, 2, 3}, {2, 3}}
  Turns = {1, 2}
  StartNumbers = {3, 5}
  StartSets = {{1, 2}}
  MaxNumber = 10
  Horizon = 5
  TimeAt <- ForkEveryFour
  Faults = TRUE
  Checkpoints <- MCCheckpoints
  Offered <- MCOffered
SPECIFICATION WalkSpec
INVARIANTS TypeOK SealLimit AdoptedVotesAreQuorum JustifiedIsWalked
PROPERTIES FinalityAdvances ActivationOnSchedule
