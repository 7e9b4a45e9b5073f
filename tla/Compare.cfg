SPECIFICATION Spec
CONSTANTS
  e1 = e1  e2 = e2  vlan = vlan  br = br  m1 = m1  m2 = m2
  a = a  a10 = a10  a6 = a6  g = g  h = h  s = s  domain = domain  remove = remove
  NULL = NULL  NoMac = NoMac
  Commands <- MCCommands
  EnvCompare = {FALSE, TRUE}
  Links <- MCLinks
  MacOf <- MCMacOf
  Bridges = {br}
  Kernels <- MCKernels
  Guests <- MCGuests
  Ip6 = {a6}
  Removing = {remove}
  Part <- MCPart
  Failures = {"dump", "script"}
  MaxChanges = 1
INVARIANTS OptionsAsGiven NamedIsHandled SparedIsAsAsked PrintedIsAsked
CHECK_DEADLOCK FALSE
