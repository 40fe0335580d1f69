SPECIFICATION RouterSpec
CONSTANTS
  Decoder = {"local", "remote"}
  diagnostic = diagnostic
  hard = hard
  Policy = {diagnostic, hard}
  Outcome <- MCOutcome
  MaxIncidents = 1
  Trials <- MCTrials
  Horizon = 6
  Reserve = 1
  IdleReserve = 4
  EvalReserve = 3
  Limit = 1
  Slack = 1
  QualifyTime = 2
  ReadTime = 1
  KillTime = 1
  None = None
CHECK_DEADLOCK FALSE
INVARIANTS RouterTypeOK OnePicker TransfersAccounted NoneCutOff
