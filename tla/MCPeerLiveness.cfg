CONSTANTS
  Caller = {c1, c2}
  Receiver = {x1}
  Request = {r1, r2}
  Frame = {}
  AnyKey = AnyKey
  None = None
  Resends = 1
SPECIFICATION FairSpec
PROPERTIES
  CommandReturns
  EntryLeaves
