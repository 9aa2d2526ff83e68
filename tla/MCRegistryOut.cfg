SPECIFICATION FairSpec
CONSTANTS
  s1 = s1
  Sessions = {s1}
  Fetches = {1, 2, 3, 4, 5}
  FetchSession <- OneSession
  Workers = 3
PROPERTY PromiseFulfilled
CHECK_DEADLOCK FALSE
