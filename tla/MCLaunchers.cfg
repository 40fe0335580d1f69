SPECIFICATION FreshSpec
CONSTANTS
  once = once
  many = many
  lower = lower
  Session = {legacy, s1, s2}
  Legacy = legacy
  Launcher = {l1, l2}
  Cleaner = {c1}
  Approval = {once, lower}
  SingleUse = {once}
  Replace = {lower}
  Budget <- MCBudget
  Historical <- MCHistorical
  Expires <- MCExpires
  Admission <- MCAdmission
  Rate <- MCRate
  DeletionTarget <- MCTarget
  CostSlack = 0
  Costs = {1, 4}
  MaxTime = 1
  NoFile = NoFile
  Free = Free
SYMMETRY Symmetric
INVARIANTS
  TypeOK
  NoOverlap
  SingleUseOnce
CHECK_DEADLOCK FALSE
