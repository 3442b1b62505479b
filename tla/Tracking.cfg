SPECIFICATION FairSpec
CONSTANTS
  x = x
  y = y
  NumSlots = 3
  Objects = {x, y}
  Emissions = {e1, e2}
  Tracks <- CrossedTracks
  Blockable = {2}
INVARIANTS
  TypeOK
  LocksOfTheSlot
  ExpiredSlotsRetired
  TrackingInvariant
PROPERTIES
  ImplementsTrackedCalls
  LocksReleased
