SPECIFICATION Spec
CONSTANTS
  Session = {s1}
  Legacy = legacy
  Operator = {}
  Mortal = {}
  MayStop = TRUE
  None = None
INVARIANTS
  OneTeardown
CHECK_DEADLOCK FALSE
