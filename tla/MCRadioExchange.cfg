CONSTANTS
  c1 = c1
  c2 = c2
  d1 = d1
  ping = ping
  path = path
  Caller = {c1, c2}
  Device = {d1}
  Function = {ping, path}
  Telegram <- MCTelegram
  Chunks <- MCChunks
  Retries <- MCRetries
  AnyFunction = AnyFunction
  Ack = Ack
  None = None
  Orphan = Orphan
  Torn = Torn
  MaxLine = 3
SPECIFICATION Spec
INVARIANTS
  TypeOK
  RegistryExact
  AnswerMatchesRequest
