SPECIFICATION Spec
CONSTANTS
  a1 = a1  b1 = b1  x = x  y = y  s = s  s2 = s2  t = t  g = g  h = h  k = k  r = r  r2 = r2
  here = here  other = other  NAME = NAME  corp = corp
  RemoveV4 = RemoveV4  RemoveV6 = RemoveV6  Invalid = Invalid  Empty = Empty
  None = None  DHCP = DHCP
  Addr4 = {a1, b1}  Addr6 = {x, y}
  Dns4 = {s, s2}  Dns6 = {t}
  Gateway4 = {g, h}  Gateway6 = {k}
  Route = {r, r2}
  Host = {here, other}  Domain = {corp}
  NetbiosOf <- MCNetbiosOf
  CommandLines <- MCLines
  Systems <- MCSystems
  CompareModes = {FALSE, TRUE}
  Faults = {"exit", "crash", "kill"}
  MaxFaults = 1
  MaxRuns = 2
INVARIANTS AddressesAsAsked NoAddressSilentlyMissing RefusedForAReason ServersAsAsked
           GatewaysAsAsked DhcpIsRestarted
PROPERTIES ComputerNameLast
CHECK_DEADLOCK FALSE
