CONSTANTS
  Caller = {c1}
  Worker = {w1}
  None = None
  Skip = 3
  MaxQueue = 3
  MaxChunks = 1
  MaxTelegrams = 3
  MaxCode = 6
SPECIFICATION ResendSpec
INVARIANTS
  CodesInOrder
