SPECIFICATION Spec
CONSTANTS
  t1 = t1  t2 = t2
  Worker = {t1, t2}
  Operator = operator
  Nobody = nobody
  Delay <- MCDelay
  EpochLength = 4
  MaxAge = 5
  MaxSync = 4
  FirstHead = 8
  MaxHead = 11
  MaxBranch = 1
  MaxCrash = 2
  MaxRuns = 2
SYMMETRY Symmetry
INVARIANTS FileSound WrittenBoots
PROPERTIES AnchorKept NeverBackwards
CHECK_DEADLOCK FALSE
