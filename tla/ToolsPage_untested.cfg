SPECIFICATION ToolsSpec
CONSTANTS
  Setups = {s1, s2}
  Agents = {a}
  MaxTools = 3
  MaxOps = 3
INVARIANTS
  AddNeedsTest
CHECK_DEADLOCK FALSE
