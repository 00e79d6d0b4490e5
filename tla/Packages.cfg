SPECIFICATION PackagesSpec
CONSTANTS
  Body <- MCBody
  Length <- MCLength
  Good <- MCGood
  Attempts = 3
  MaxUnknown = 3
  MaxCalls = 3
  MaxMeddles = 1
  MaxRepublish = 1
  BepInEx = "bepinex"
  Plugins <- MCPlugins
  ManagedFile <- MCManagedFile
  ManagedDir <- MCManagedDir
  RequiredDir <- MCRequiredDir
  Allowed <- MCAllowed
  Dll <- MCDll
  Lower <- MCLower
  Inputs <- MCInputs
  MaxExtra = 3
INVARIANTS ReturnedIsVouched NamedIsWhole UnpacksCleanly UsedAsPackaged
PROPERTIES LockStands
CHECK_DEADLOCK FALSE
