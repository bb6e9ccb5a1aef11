CONSTANTS
  Thread = {t1, t2}
  Codes = 4
  Window = 2
  MaxDelay = 2
  MaxSent = 6
  Named = {0, 3}
  MaxRaced = 2
SYMMETRY Symmetry
CONSTRAINT Followed
SPECIFICATION Spec
INVARIANTS
  FreshVerifies
PROPERTIES
  AcceptedOnce
  ReadableInSequence
  ForgottenIsRefused
