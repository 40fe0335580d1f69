SPECIFICATION FairSpec
CONSTANTS
  GpuRate = 2  SupportRate = 1  Cap = 18  Margin = 2  MinFunds = 16
  Cleanup = 1  Work = 2  OriginalTarget = 4  Remaining = 30
  AckTime = 0  Placement = 1  EndOfTime = 4
  MacDies = {"cleaning"}
  NotRequested = NotRequested  None = None
CHECK_DEADLOCK FALSE
PROPERTIES GpusDeleted
