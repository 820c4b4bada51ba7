SPECIFICATION SubmissionSpec
CONSTANTS
  Runs = {r1, r2}
  Cancellers = {}
  Workers = 1
  Pending = 0
  MaxActive = 1
  MaxRestarts = 1
  NoOne = NoOne
  Requests = {q1, q2}
  Bodies = {b1}
  Life = 2
  MaxClock = 0
INVARIANTS
  OneRunPerKey
CHECK_DEADLOCK FALSE
