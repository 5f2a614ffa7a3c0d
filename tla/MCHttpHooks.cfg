SPECIFICATION FairSpec
CONSTANTS
  h1 = h1
  s1 = s1
  s2 = s2
  Requests <- Mixed
  Preview <- PreviewOf
INVARIANTS
  TypeOK
  SentOnlyIfAllowed
  LocksAreShort
  
PROPERTIES
  BracketSpec
  EachIsDecided
  DroppedIsTold
