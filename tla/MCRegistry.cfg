CONSTANTS
  Receiver = {x1, x2}
  Rpc = {r1}
  Timer = timer
  None = None
  Unpaired = TRUE
  MaxPeers = 2
  MaxModes = 1
  MaxTicks = 1
  MaxCalls = 1
  MaxRestarts = 1
SPECIFICATION Spec
INVARIANTS
  TypeOK
  MapsAgree
  PairedOnce
  InUseIsStored
PROPERTIES
  ImplementsPeerLife
  DeletionsEnd
CHECK_DEADLOCK FALSE
