SPECIFICATION Spec
CONSTANTS
  p1 = p1
  p2 = p2
  p3 = p3
  c1 = c1
  c2 = c2
  Places <- MCPlaces
  NoPlace = NoPlace
  NoCopy = NoCopy
  Asked = Asked
  Tiers = {0, 2, 3}
  MaxSessions = 1
  Characters <- MCCharacters
  Described <- MCCharacters
  ANCHOR_LIMIT = 2
  RecheckStale = FALSE
  MaxActs = 2
  MaxCrashes = 1
INVARIANTS
  WalksEnd
  PickableDisjoint
  MinorsNeverPrimary
  
SYMMETRY Interchangeable
CHECK_DEADLOCK FALSE
