SPECIFICATION Spec
CONSTANTS
  Session = {s1, s2}
  Legacy = legacy
  Operator = {}
  Mortal = {}
  MayStop = TRUE
  None = None
PROPERTIES
  PausedByStop
CHECK_DEADLOCK FALSE
