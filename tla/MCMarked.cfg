SPECIFICATION FairSpec
CONSTANTS
  Session = {s1}
  Legacy = legacy
  Operator = {o1}
  Mortal = {"operator"}
  MayStop = FALSE
  None = None
PROPERTIES
  CompletionIsMarked
CHECK_DEADLOCK FALSE
