SPECIFICATION Spec
CONSTANTS
  s1 = s1
  r1 = r1
  r2 = r2
  f1 = f1
  f2 = f2
  NoFetch = NoFetch
  NoSession = NoSession
  Sessions = {s1}
  Fetches = {f1, f2}
  Swisses = {"gateway"}
  FetchSession <- TheFetchSession
  FetchSwiss <- TheFetchSwiss
  Requests = {r1, r2}
  Routable = {r1}
  Peers = {"peer"}
  PeerOf <- OnePeer
INVARIANTS AnswerMatchesExport NoneWaitsOnGoneManager RequestsTracked NoneLost
PROPERTIES KeepsService EndStopsSessions RequestTaken
CHECK_DEADLOCK FALSE
