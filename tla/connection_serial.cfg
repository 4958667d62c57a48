SPECIFICATION ConnectionFairSpec
CONSTANTS
  w = w
  r = r
  e = e
  a = a
  v = v
  Nobody = Nobody
  Vague = Vague
  Item <- WriteEachAll
  Op <- WriteEachAll
  Kind <- KindOf
  Writer <- WriteAndAll
  MayInsert <- WriteAndAll
  Inserts <- OnlyWriter
  Observed <- NoCalls
  Vacuum <- NoCalls
  Unsafe <- NoCalls
  Cancellable <- NoCalls
  Throwing <- NoCalls
  MaxRows = 2
INVARIANTS
  NoOverlap
  EachDeliversAll
  WriterCountIsOwn
PROPERTIES
  AnswersAsIfAlone
  RowIdIsOwn
  AllSettle
