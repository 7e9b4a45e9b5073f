SPECIFICATION FairSpec
CONSTANTS
  Adapter = {a1, a2}
  NoAdapter = NoAdapter
  Builds = {FALSE, TRUE}
  Faults = {"kill", "netsh", "regread", "regwrite"}
  MaxFaults = 3
INVARIANTS
  DisabledIsRecorded
  LeftDownOnlyIfRefused
  RestoredBeforeListing
PROPERTIES
  EventuallyEnabled
