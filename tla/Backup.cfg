SPECIFICATION Spec
CONSTANTS
  saves = saves
  settings = settings
  Member <- Members
  Torn = Torn
  Retain = 2
  MaxTime = 4
  MaxChanges = 2
SYMMETRY MemberSymmetry
INVARIANTS
  NamedIsWhole SnapshotIsCurrent KeptWhileSteady
PROPERTIES
  NewestKept
CHECK_DEADLOCK FALSE
