SPECIFICATION EventsFairSpec
CONSTANTS
  Runs = {r1}
  Cancellers = {k1}
  Workers = 1
  Pending = 0
  MaxActive = 1
  MaxRestarts = 1
  NoOne = NoOne
  Clients = {c1}
  MaxEvents = 3
  PollLimit = 2
  FinalLimit = 3
  PageLimit = 2
  MaxDrops = 1
INVARIANTS
  LogIsWhole
  ReplayIsComplete
  StreamEndIsComplete
PROPERTIES
  EveryRunSettles
  FollowerCatchesUp
CHECK_DEADLOCK FALSE
