CONSTANTS
  Caller = {c1, c2}
  Request = {r1, r2, r3}
  None = None
  Torn = Torn
SPECIFICATION FairSpec
INVARIANTS
  TypeOK
  OneExchange
  OwnAnswerOnQuietLine
PROPERTIES
  ImplementsChannel
  ExchangeEnds
