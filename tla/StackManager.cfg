SPECIFICATION Spec
CONSTANTS
  NoAddr = NoAddr
  AllocIds <- MCIds
  SizeOf <- MCSizes
INVARIANTS TypeOK BlocksDisjoint FreeFindsSlot FrameShrinks
PROPERTIES GrowsOnlyWhenFull BlocksSpec
