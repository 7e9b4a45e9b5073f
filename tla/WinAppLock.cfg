SPECIFICATION FairSpec
CONSTANTS
  Proc = {p1, p2, p3}
  NoProc = NoProc
  Faults = {"create", "wait", "kill"}
INVARIANTS
  DoomedNeverWork
PROPERTIES
  EveryWaitEnds
  ImplementsMutex
