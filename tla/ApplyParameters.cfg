SPECIFICATION Spec
CONSTANTS
  eth1 = eth1  eth10 = eth10  gone = gone
  a = a  b = b  a6 = a6  p6 = p6  g = g  h = h  g6 = g6  r = r
  None = None
  Dev = {eth1, eth10}
  Missing = {gone}
  Addr4 = {a, b}  Addr6 = {a6, p6}
  PartOf <- PartOfLonger
  Gw4 = {g, h}  Gw6 = {g6}
  Route = {r}
  Devices <- MCDevices
  Configurations <- Found
  CommandLines <- Lines3
  LongerName <- NameOfOther
  CompareModes = {FALSE, TRUE}
  Failures = TRUE
INVARIANTS AddressingAsAsked GatewaysAsAsked RoutesAsAsked FailureReported
PROPERTIES OthersUntouched
CHECK_DEADLOCK FALSE
