SPECIFICATION Spec
CONSTANTS
  Tiers <- UserAndSystem
  DropIns <- TwoDropIns
  Sections <- MCSections
  Keys <- MCKeys
  Contents <- MCContents
  MaxFiles = 2
  MaxTouched = 1
  Absent = Absent
  Garbled = Garbled
  Unset = Unset
CHECK_DEADLOCK FALSE
INVARIANTS
  TypeOK
  MergedInOrder
  FirstTierWins
  NothingStableIsLost
