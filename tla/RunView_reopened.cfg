SPECIFICATION FairSpec
CONSTANTS
  MaxLog = 2
  PageSize = 2
  MaxShown = 2
  MaxFails = 0
PROPERTIES
  TerminalHasNoStream
CHECK_DEADLOCK FALSE
