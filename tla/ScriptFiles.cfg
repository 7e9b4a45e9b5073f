SPECIFICATION Spec
CONSTANTS
  d = d  a = a  b = b  c = c  a6 = a6  p6 = p6  q6 = q6  g = g
  None = None  Half = Half
  Dev = {d}
  Addr4 = {a, b, c}  Addr6 = {a6, p6, q6}
  PartOf <- PartOfNext
  Gw4 = {g}  Gw6 = {}
  Route = {}
  Requests <- MCRequests
  Files <- MCFiles
  Faults = {"kill", "full"}
  MaxScripts = 3
INVARIANTS EndsAsAsked OldOrNew FailureChangesNothing
CHECK_DEADLOCK FALSE
