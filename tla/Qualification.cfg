SPECIFICATION QualificationSpec
CONSTANTS
  Models = {m1}
  Discoveries = {d1}
  Verifications = {v1, v2}
  MaxRequests = 4
  MaxStarts = 1
  MaxUpsets = 1
  Catalogued = {p1, p2}
  MaxMounts = 2
  MaxLost = 0
  MaxFlows = 2
SYMMETRY Symmetry
INVARIANTS
  ClaimIsExclusive
  StatusMatchesProof
  StopReaches
  StopIsHeard
CHECK_DEADLOCK FALSE
