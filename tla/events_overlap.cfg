SPECIFICATION EventsFairSpec
CONSTANTS
  l1 = l1
  l2 = l2
  w1 = w1
  v1 = v1
  v2 = v2
  Free = Free
  Listener <- OneListener
  Writer <- NoOps
  Vacuum <- TwoVacuums
  Unsafe <- NoOps
  Assigned <- NoOps
  MaxChanges = 1
INVARIANTS
  VacuumIsAlwaysSilent
