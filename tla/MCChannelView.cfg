SPECIFICATION FairView
CONSTANTS
  talker = talker
  Host = Host
  Members = {talker}
  Introducers = {talker}
  MaxConnects <- Once
  MaxSaid <- Once
  MaxWritten = 2
INVARIANTS ViewOK UpToDate
PROPERTIES WrittenShown PushedDrawn
CHECK_DEADLOCK FALSE
