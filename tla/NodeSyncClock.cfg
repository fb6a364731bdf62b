SPECIFICATION Spec
CONSTANTS
  m1 = m1  m2 = m2  m3 = m3  m4 = m4  l4 = l4  g4 = g4
  f4 = f4  f5 = f5
  h2 = h2  h3 = h3  h4 = h4  h5 = h5  h6 = h6
  x5 = x5  d5 = d5  u5 = u5
  None = None
  Block <- MCBlock
  Path <- MCPath
  Milli <- MCMilli
  Gas <- MCGas
  Sealed <- MCSealed
  Good <- MCGood
  Weight <- MCWeight
  Interval <- MCInterval
  Divisor <- MCDivisor
  MIN_GAS_LIMIT = 95
  poller = poller  http = http
  Poller = poller
  Worker = {poller, http}
  Origin = m1
  Boots <- MCBoots
  Start = m2
  MaxSync = 3  Lookback = 4  MaxReorgDepth = 1
  ROLLBACK_EVERY = 2  ROLLBACK_KEEP = 2  KEEP = 5  MinChain = 2  SafeLag = 1
INVARIANT EveryReorgRecovers
