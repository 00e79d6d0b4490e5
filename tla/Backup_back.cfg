SPECIFICATION Spec
CONSTANTS
  saves = saves
  settings = settings
  Member <- Members
  Torn = Torn
  Retain = 2
  MaxTime = 3
  MaxChanges = 2
SYMMETRY MemberSymmetry
INVARIANTS
  NewArchiveKept
CHECK_DEADLOCK FALSE
