SPECIFICATION HostSpec
CONSTANTS
  Epochs = 2
  Pids = {1, 2, 3}
  Requests = 2
  Rounds = 2
  MaxProbes = 1
  MaxCrashes = 1
  MetadataWait = 1
  CopyWait = 1
  ExecWait = 3
  ReadWait = 1
  StopWait = 1
  ImporterTime = 1
  ImporterLimit = 2
  ExporterTime = 9
  ExporterLimit = 10
  CaseWait = 12
CHECK_DEADLOCK FALSE
INVARIANTS HostTypeOK EpochsDisjoint SignalsOwn QualifiedWhole ImportsBacked CasesApart
PROPERTIES StopEnds CaseEnds
