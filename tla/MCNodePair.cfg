SPECIFICATION Spec
CONSTANTS
  s1 = s1
  s2 = s2
  r1 = r1
  NoFetch = NoFetch
  NoSession = NoSession
  Sessions <- TwoSessions
  Fetches <- GatewayFetches
  Swisses <- SwissesUsed
  FetchSession <- TheFetchSession
  FetchSwiss <- TheFetchSwiss
  Requests = {}
  Routable = {}
  Peers = {"peer"}
  PeerOf <- OnePeer
INVARIANTS AnnouncedFirst LiveSessionKnown ForgottenIffAborted
  PortalRequestTracked PortalShown
PROPERTY ForgottenForGood
SYMMETRY Exchange
CHECK_DEADLOCK FALSE
