SPECIFICATION Spec
CONSTANTS
  Mac = {"m0", "m8", "m9"}
  Requested = {"m8", "m9"}
  Builds = {"unix", "windows"}
  Idx <- WindowsIdx
  Atoi <- MacAtoi
  MAX_POLLS = 6
  Unplug = TRUE
CHECK_DEADLOCK FALSE
PROPERTIES
  ReadyMeansListed
  ReadyMeansKept
  GivesUpOnlyIfMissing
  WaitEnds
