SPECIFICATION ValueSpec
CONSTANTS
  Nothing = Nothing
  Char <- Characters
  Given <- GivenValues
  Names <- NameLists
  MaxRows = 2
  Width = 256
  Tick = 2
  Epoch = 40
  Decimal <- DecimalText
  Digits <- DigitsText
INVARIANTS
  RowsComeBack
  ErrorTellsCode
CHECK_DEADLOCK FALSE
