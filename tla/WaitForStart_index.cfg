SPECIFICATION Spec
CONSTANTS
  Mac = {"m0", "m8"}
  Requested = {"m0"}
  Builds = {"unix"}
  Idx <- WindowsIdx
  Atoi <- MacAtoi
  MAX_POLLS = 6
  Unplug = FALSE
CHECK_DEADLOCK FALSE
PROPERTIES
  ReadyMeansListed
