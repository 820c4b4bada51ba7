SPECIFICATION Spec
CONSTANTS
  Conns = {c1, c2}
  SlotLimit = 1
  QueueSize = 1
  CoreSize = 2
  MaxDeltas = 3
  MaxLog = 4
  PageSize = 2
  MaxShown = 2
  MaxFails = 1
  MaxRunEvents = 3
  EventPage = 2
  Loads = {1, 2}
  MaxTrouble = 1
  Operations <- JournalOperations
  TreeAgents = {"manager"}
  Requests = {"r1"}
  MaxJournal = 3
  Catalogued = {m1, m2}
  MaxMounts = 1
  MaxLost = 1
  MaxFlows = 3
INVARIANTS
  LiveTypeOK
  GapsAreSignalled
  ViewIsTrue
  ConsoleSettles
  JournalIsExact
PROPERTIES
  StreamsEnd
  ResultIsShown
  ProvidersSettle
CHECK_DEADLOCK FALSE
