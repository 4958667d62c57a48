SPECIFICATION ConnectionFairSpec
CONSTANTS
  w = w
  r = r
  e = e
  a = a
  v = v
  Nobody = Nobody
  Vague = Vague
  Item <- WriteAndEach
  Op <- WriteEachVacuum
  Kind <- KindOf
  Writer <- OnlyWriter
  MayInsert <- OnlyWriter
  Inserts <- OnlyWriter
  Observed <- OnlyWriter
  Vacuum <- OnlyVacuum
  Unsafe <- OnlyEach
  Cancellable <- NoCalls
  Throwing <- NoCalls
  MaxRows = 1
INVARIANTS
  ErrorTextIsOwn
  CleanClose
PROPERTIES
  AnswersAsIfAlone
  WorkersEnd
