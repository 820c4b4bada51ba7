SPECIFICATION Spec
CONSTANTS
  Runs = {r1}
  Cancellers = {c1}
  Workers = 1
  Pending = 0
  MaxActive = 1
  MaxRestarts = 0
  NoOne = NoOne
PROPERTIES
  TerminalIsFinal
CHECK_DEADLOCK FALSE
