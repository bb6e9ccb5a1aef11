CONSTANTS
  Rpc = {t1}
  Pinger = pinger
  Endpoint = {a, b}
  Repeater = {b, c}
  Enforced = {a}
  None = None
  Slots = 1
  MaxTries = 2
  Budgets <- MCBudgets
  Updater = updater
  Worker = worker
  Updatable = {a, b}
  LastBlock = 2
  MaxBlockRetries = 1
  MaxTotalRetries = 3
SPECIFICATION Spec
INVARIANTS
  TypeOK
  TableAgrees
  HalvesAgree
  VersionIsTrue
PROPERTIES
  UpdateEnds
CHECK_DEADLOCK FALSE
