SPECIFICATION FairSpec
CONSTANTS
  s1 = s1
  s2 = s2
  r1 = r1
  NoFetch = NoFetch
  NoSession = NoSession
  Sessions = {s1}
  Fetches <- OneFetch
  Swisses <- SwissesUsed
  FetchSession <- TheFetchSession
  FetchSwiss <- TheFetchSwiss
  Requests = {}
  Routable = {}
  Peers = {"peer"}
  PeerOf <- OnePeer
PROPERTY DeadSessionForgotten
CHECK_DEADLOCK FALSE
