SPECIFICATION Spec
CONSTANTS
  s1 = s1
  s2 = s2
  r1 = r1
  NoFetch = NoFetch
  NoSession = NoSession
  Sessions = {s1}
  Fetches <- OneFetch
  Swisses <- SwissesUsed
  FetchSession <- TheFetchSession
  FetchSwiss <- TheFetchSwiss
  Requests = {r1}
  Routable = {r1}
  Peers = {"peer"}
  PeerOf <- OnePeer
INVARIANT PortalRequestNotLost
CHECK_DEADLOCK FALSE
