CONSTANTS
  Caller = {c1, c2}
  Worker = {}
  None = None
  Skip = 3
  MaxQueue = 3
  MaxChunks = 2
  MaxTelegrams = 4
  MaxCode = 12
SPECIFICATION Spec
INVARIANTS
  CodesInOrder
