SPECIFICATION Spec
CONSTANTS
  Session = {s1, s2}
  Legacy = legacy
  Operator = {o1}
  Mortal = {"launcher", "stop"}
  MayStop = TRUE
  None = None
SYMMETRY Symmetric
INVARIANTS
  TypeOK
  VerifiedMeansDeleted
  BilledIsOpen
  NeverUnattended
PROPERTIES
  ScopedDestroy
CHECK_DEADLOCK FALSE
