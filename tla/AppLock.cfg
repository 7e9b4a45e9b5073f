SPECIFICATION FairSpec
CONSTANTS
  Proc = {p1, p2}
  NoProc = NoProc
  Values = {v1, v2}
  NoValue = NoValue
  MUTEX_TIMEOUT = 3
  MaxJobs = 2
  Faults = {"open", "fcntl", "kill"}
INVARIANTS
  NoLostUpdate
PROPERTIES
  GiveUpOnlyIfOwned
  EveryInvocationEnds
  LockAlwaysFreed
  ImplementsMutex
