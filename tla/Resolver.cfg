SPECIFICATION Spec
CONSTANTS
  Package <- MCPackage
  NameOf <- MCNameOf
  Rank <- MCRank
  RootName <- MCRootName
  None = None
  MaxAttempts = 2
PROPERTIES Promised
CHECK_DEADLOCK FALSE
