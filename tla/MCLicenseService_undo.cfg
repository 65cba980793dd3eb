SPECIFICATION Spec
CONSTANTS
  a1 = a1
  a2 = a2
  h1 = h1
  h2 = h2
  pve = pve
  pbs = pbs
  r1 = r1
  r2 = r2
  r3 = r3
  r4 = r4
  x1 = x1
  None = None
  Products = {pve}
  PVE = pve
  ValidSockets = {1}
  Serials = {r1, r2, r3}
  Requests = {r1, r2, r3}
  Accounts = {a1}
  Hosts = {}
  Calls <- RegisterCalls
  AddableKeys = {}
  AddStatuses = {"APPROVED"}
  Faults = {}
  OneOrderPerAccount = FALSE
PROPERTIES
  AdminBlockStands
SYMMETRY Symmetry
CHECK_DEADLOCK FALSE
