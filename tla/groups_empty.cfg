SPECIFICATION GroupFairSpec
CONSTANTS
  r1 = r1
  r2 = r2
  r3 = r3
  ka = ka
  kb = kb
  kc = kc
  Absent = Absent
  Request <- Requests
  Sought <- Seeks
  Key <- Keys
  Table <- Tables
INVARIANTS
  KeyAlwaysLeadsToGroup
