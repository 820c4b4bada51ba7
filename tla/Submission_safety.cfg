SPECIFICATION SubmissionSpec
CONSTANTS
  Runs = {r1, r2}
  Cancellers = {}
  Workers = 1
  Pending = 0
  MaxActive = 1
  MaxRestarts = 1
  NoOne = NoOne
  Requests = {q1, q2}
  Bodies = {b1, b2}
  Life = 3
  MaxClock = 3
SYMMETRY Symmetry
INVARIANTS
  AnswersAgree
  AcceptedIsDurable
  JobRunsOnce
CHECK_DEADLOCK FALSE
