SPECIFICATION QueueFairSpec
CONSTANTS
  c1 = c1
  c2 = c2
  c3 = c3
  c4 = c4
  Item <- FourCalls
  Cancellable <- TwoCalls
  Throwing <- OneCall
INVARIANTS
  OneAtATime
  BoundedInFlight
PROPERTIES
  ServesInOrder
  SettleUnlessLost
