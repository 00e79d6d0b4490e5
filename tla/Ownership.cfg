SPECIFICATION Spec
CONSTANTS
  server = server data = data private = private home = home game = game save = save
  spareDir = spareDir spareFile = spareFile foreign = foreign None = None
  Inode = {server, data, private, home, game, save, spareDir, spareFile, foreign}
  Name = {"state", "home", "x"}
  Rank <- MCRank
  Root <- MCRoot
  Kind <- MCKind
  MountOf <- MCMountOf
  OtherDevice = {foreign}
  StateName = "state"
  Private = {"home", "x"}
  Made = {"home"}
  InitEntries <- MCEntries
  InitOwner <- MCOwner
  InitMode <- MCMode
  Uid = {0, 1000}
  Admin = 0
  GivenModes <- MCGiven
  MaxStarts = 2
  MaxEdits = 2
INVARIANTS HandedOver AccessKept
PROPERTIES ForeignUntouched
CHECK_DEADLOCK FALSE
