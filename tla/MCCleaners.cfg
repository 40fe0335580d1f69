SPECIFICATION Spec
CONSTANTS
  once = once
  many = many
  lower = lower
  Session = {legacy, s1, s2}
  Legacy = legacy
  Launcher = {l1}
  Cleaner = {c1, c2}
  Approval = {many, lower}
  SingleUse = {}
  Replace = {lower}
  Budget <- MCBudget
  Historical <- LegacySpend
  Expires <- MCExpires
  Admission <- MCAdmission
  Rate <- MCRate
  DeletionTarget <- MCTarget
  CostSlack = 0
  Costs = {2}
  MaxTime = 2
  NoFile = NoFile
  Free = Free
SYMMETRY Symmetric
INVARIANTS
  NoOverspend
  ChargedAfterCleanup
  AttemptFileLeads
PROPERTIES
  NeverForgets
  OneRentalAtATime
CHECK_DEADLOCK FALSE
