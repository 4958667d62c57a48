SPECIFICATION EventsFairSpec
CONSTANTS
  l1 = l1
  l2 = l2
  w1 = w1
  v1 = v1
  v2 = v2
  Free = Free
  Listener <- TwoListeners
  Writer <- OneWriter
  Vacuum <- OneVacuum
  Unsafe <- OneWriter
  Assigned <- AnyValue
  MaxChanges = 1
INVARIANTS
  EventsTypeOK
  HookMatchesListeners
  VacuumIsSilent
  FireEventsKept
PROPERTIES
  NoMissedEvent
  RegistrationReturns
