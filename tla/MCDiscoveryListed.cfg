SPECIFICATION Spec
CONSTANTS
  Listen = {"v6"}
  MaxLaunches = 1
  Absent = Absent
  Partial = Partial
  Services <- OneNode
  OwnName <- Named
  NoService = "none"
  MaxBrowse = 2
INVARIANT KnownIsListed
CHECK_DEADLOCK FALSE
