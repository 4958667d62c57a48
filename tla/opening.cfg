SPECIFICATION OpeningFairSpec
CONSTANTS
  o1 = o1
  o2 = o2
  o3 = o3
  Opener <- Openers
INVARIANTS
  VersionKnown
  HandlesAccounted
  CacheAsSet
PROPERTIES
  OpenSettles
