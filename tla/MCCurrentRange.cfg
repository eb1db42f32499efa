SPECIFICATION FairSpec
CONSTANTS
  Loads <- MCLoads
  High <- MCHigh
  Offsets = {0, 2}
  SameTimes = 1
  TryTimes = 2
  MaxChanges = 2
  MaxFaults = 0
INVARIANTS
  FlagMatchesPin
PROPERTIES
  PassEnds
  RangeFollowsLoad
