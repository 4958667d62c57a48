SPECIFICATION ItemFairSpec
CONSTANTS
  rc = rc
  r0 = r0
  r2 = r2
  s1 = s1
  s2 = s2
  a1 = a1
  a2 = a2
  CountOnly = CountOnly
  Unknown = Unknown
  Request <- Requests
  Wanted <- Pages
  Query <- Queries
  Size <- Sizes
INVARIANTS
  ItemTypeOK
  QueryWhole
  CountAndPageAgree
PROPERTIES
  ItemRequestsEnd
