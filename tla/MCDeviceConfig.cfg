CONSTANTS
  Thread = {r1, r2, p1}
  Rpc = {r1, r2}
  Receiver = {p1}
  Parameter = {a, b}
  None = None
  MaxValue = 2
  MaxSessions = 1
SPECIFICATION Spec
SYMMETRY Symmetry
INVARIANTS
  NoParameterLost
  QueuedIsSent
  OpenOnlyAfterFailure
PROPERTIES
  NothingStaleApplied
