SPECIFICATION FairSpec
CONSTANTS
  Listen = {"v6", "v4"}
  MaxLaunches = 2
  Absent = Absent
  Partial = Partial
  Services <- Neighbours
  OwnName <- Named
  NoService = "none"
  MaxBrowse = 2
INVARIANTS IdentityOnDisk AnnouncesAll ListedIsKnown
PROPERTIES KeyForLife MdnsSettles StopEnds
CHECK_DEADLOCK FALSE
