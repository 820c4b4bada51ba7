SPECIFICATION Spec
CONSTANTS
  Runs = {r1, r2}
  Cancellers = {c1, c2}
  Workers = 1
  Pending = 0
  MaxActive = 1
  MaxRestarts = 1
  NoOne = NoOne
SYMMETRY Symmetry
INVARIANTS
  OwnedUntilSettled
  PermitsMatchWork
  RegistryHasWorker
  CoreIsAccountedFor
  ShutdownLosesNothing
PROPERTIES
  FollowsPromise
  ClaimedTerminalIsFinal
  CancellationBinds
CHECK_DEADLOCK FALSE
