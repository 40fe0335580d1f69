SPECIFICATION Spec
CONSTANTS
  Decoder = {"local", "remote"}
  soft = soft
  hard = hard
  Policy = {soft, hard}
  Deployed = hard
  Declared = soft
  Outcome <- MCOutcome
  MaxIncidents = 2
  Plan <- MCPlan
  Attempts = 1
  None = None
CHECK_DEADLOCK FALSE
INVARIANTS TypeOK MarkerTruthful ArmTruthful SameWorkers PolicyHeld
PROPERTIES ValidatedRetained
