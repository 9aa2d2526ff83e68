SPECIFICATION Spec
CONSTANTS
  talker = talker
  listener = listener
  Host = Host
  Members <- Pair
  Introducers = {listener}
  MaxConnects <- Twice
  MaxSaid <- TalkerOnly
  MaxWritten = 3
INVARIANTS ExportedOnce ShownReached SaidKept
PROPERTY KeepsPromise
CHECK_DEADLOCK FALSE
