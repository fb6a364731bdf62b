SPECIFICATION Spec
CONSTANTS
  w1 = w1  w2 = w2
  Worker = {w1, w2}
  NoFeed = NoFeed
  MAX_FILTERS = 1
  FILTER_TTL = 2
  MAX_GET_LOGS_RANGE = 2
  MAX_GET_LOGS = 2
  KEEP = 3
  SafeLag = 1
  Rate = 2
  Closed = 5
  MaxId = 2
  MaxTime = 2
  Matches <- MCMatches
  Request <- MCRequest
INVARIANT StoreExact
PROPERTIES RefinesFeed Answered
CHECK_DEADLOCK FALSE
