SPECIFICATION FairSpec
CONSTANTS
  Runs = {r1}
  Editors = {e1}
  Slots = {d1, d2, d3}
INVARIANTS
  CallsAreOnRecord
  FailuresDoNotSpread
PROPERTIES
  DeliveriesEnd
CHECK_DEADLOCK FALSE
