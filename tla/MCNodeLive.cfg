SPECIFICATION FairSpec
CONSTANTS
  s1 = s1
  s2 = s2
  r1 = r1
  NoFetch = NoFetch
  NoSession = NoSession
  Sessions = {s1}
  Fetches <- MixedFetches
  Swisses <- SwissesUsed
  FetchSession <- TheFetchSession
  FetchSwiss <- TheFetchSwiss
  Requests = {r1}
  Routable = {r1}
  Peers = {"peer"}
  PeerOf <- OnePeer
INVARIANTS TypeOK FetchTracked
PROPERTIES KeepsService StartHandled AbortHandled FetchSettles
CHECK_DEADLOCK FALSE
