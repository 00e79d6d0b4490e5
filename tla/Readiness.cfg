SPECIFICATION FairSpec
CONSTANTS
  Log <- MCLog
  startup = startup
  loaded = loaded
  fatal = fatal
  Marker <- MCMarker
  Fatal = {fatal}
  MaxPending = 1
  Budget = 2
  Scenes <- MCScenes
INVARIANTS
  TypeOK OldFailuresIgnored
PROPERTIES
  DrainedBeforeRetired EvidenceIsFresh NothingMissed ReadyUnlessCut
CHECK_DEADLOCK FALSE
