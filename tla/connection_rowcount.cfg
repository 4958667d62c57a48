SPECIFICATION ConnectionFairSpec
CONSTANTS
  w = w
  r = r
  e = e
  a = a
  v = v
  Nobody = Nobody
  Vague = Vague
  Item <- ReadAndWrite
  Op <- ReadAndWrite
  Kind <- KindOf
  Writer <- OnlyWriter
  MayInsert <- OnlyWriter
  Inserts <- NoCalls
  Observed <- NoCalls
  Vacuum <- NoCalls
  Unsafe <- NoCalls
  Cancellable <- NoCalls
  Throwing <- NoCalls
  MaxRows = 1
INVARIANTS
  RowCountIsOwn
