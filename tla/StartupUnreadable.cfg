SPECIFICATION Spec
CONSTANTS
  Gen <- MCGen
  Build <- MCBuild
  Configs <- DefaultConfig
  None = None
  Fold <- MCFold
  Branch = "public"  Public = "public"
  NoBuild = NoBuild
  Mixed = Mixed
  MaxStarts = 2
  MaxFaults = 2
  MaxReleases = 1
INVARIANTS SavesBackedUp
CHECK_DEADLOCK FALSE
