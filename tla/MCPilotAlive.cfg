SPECIFICATION FairSpec
CONSTANTS
  Session = {s1}
  Legacy = legacy
  Operator = {o1}
  Mortal = {"guard", "launcher", "operator", "stop"}
  MayStop = TRUE
  None = None
PROPERTIES
  EventuallyDeleted
  StopDeletes
CHECK_DEADLOCK FALSE
