SPECIFICATION FairSpec
CONSTANTS
  Log <- MCLog
  startup = startup
  loaded = loaded
  fatal = fatal
  Marker <- MCMarker
  Fatal = {fatal}
  MaxPending = 1
  Budget = 2
  Scenes <- MCLate
PROPERTIES
  ReadyWhenComplete
CHECK_DEADLOCK FALSE
