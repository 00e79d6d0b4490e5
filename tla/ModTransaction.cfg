SPECIFICATION FairSpec
CONSTANTS
  g1 = g1  g2 = g2  g3 = g3  a = a  b = b
  user = user  userQuiet = userQuiet  game = game
  None = None  Absent = Absent  Foreign = Foreign
  Gen <- MCGen
  Path <- MCPath
  Hash <- MCHash
  Manifest <- MCManifest
  Cfg <- MCCfg
  Disable <- MCDisable
  Template = user
  MaxFaults = 2
  MaxExternal = 1
INVARIANTS
  TypeOK ManagedFilesAtomic GameSeesOneGeneration LockMatchesActive NeverBlocked OthersKept
PROPERTIES
  TrialsEnd ImplementsModUpdate
