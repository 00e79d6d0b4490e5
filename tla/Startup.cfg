SPECIFICATION FairSpec
CONSTANTS
  Gen <- MCGen
  Build <- MCBuild
  Configs <- AllConfigs
  None = None
  Fold <- MCFold
  Branch = "public"  Public = "public"
  NoBuild = NoBuild
  Mixed = Mixed
  MaxStarts = 5
  MaxFaults = 3
  MaxReleases = 1
INVARIANTS
  TreeIsWhole SavesBackedUpIfRead FallbackKnownGood
PROPERTIES
  ImplementsModUpdate SelfHeals
CHECK_DEADLOCK FALSE
