CONSTANTS
  Caller = {c1, c2}
  Receiver = {x1}
  Request = {r1, r2, r3}
  Frame = {f1}
  AnyKey = AnyKey
  None = None
  Resends = 2
SYMMETRY Symmetry
SPECIFICATION Spec
INVARIANTS
  TypeOK
  LoopUndisturbed
  SuccessIsAnswered
PROPERTIES
  AnsweredNotResent
