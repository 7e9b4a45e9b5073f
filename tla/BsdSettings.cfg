SPECIFICATION Spec
CONSTANTS
  Dev = {em0}
  Gateway4 = {gw4}
  Gateway6 = {gw6}
  None = None
  NoFile = NoFile
  RemoveV4 = RemoveV4
  RemoveV6 = RemoveV6
  DHCP = DHCP
  Yes = Yes
  em0 = em0
  addr = addr
  addr2 = addr2
  gw4 = gw4
  gw6 = gw6
  r1 = r1
  r2 = r2
  r3 = r3
  host = host
  s1 = s1
  s2 = s2
  domain = domain
  domain2 = domain2
  Blank = Blank
  Garbled = Garbled
  Begins <- MCBegins
  Requests <- MCRequests
  RcFiles <- MCRcFiles
  ResolvFiles <- MCResolvFiles
  MainDhcp = {6}
  Overlong <- MCOverlong
  MAX_ROUTES = 2
  MAX_LINES = 3
  Faults = {"kill", "command", "open", "short"}
  MaxOps = 3
  MaxFaults = 1
INVARIANTS
  SuccessIsStored
  GatewayAgrees
  SkippedOnlyIfDhcp
  ServersOnce
PROPERTIES
  ImplementsSettings
CHECK_DEADLOCK FALSE
