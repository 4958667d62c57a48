SPECIFICATION ConnectionFairSpec
CONSTANTS
  w = w
  r = r
  e = e
  a = a
  v = v
  Nobody = Nobody
  Vague = Vague
  Item <- EachAllRun
  Op <- EachAllRun
  Kind <- KindOf
  Writer <- NoCalls
  MayInsert <- NoCalls
  Inserts <- NoCalls
  Observed <- NoCalls
  Vacuum <- NoCalls
  Unsafe <- NoCalls
  Cancellable <- EachAndRun
  Throwing <- OnlyRun
  MaxRows = 1
INVARIANTS
  CleanClose
  NoLostWakeup
PROPERTIES
  SettleUnlessLost
