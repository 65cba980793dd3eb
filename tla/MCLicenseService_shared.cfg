SPECIFICATION Spec
CONSTANTS
  a1 = a1
  a2 = a2
  h1 = h1
  h2 = h2
  pve = pve
  pbs = pbs
  r1 = r1
  r2 = r2
  r3 = r3
  r4 = r4
  x1 = x1
  None = None
  Products = {pve, pbs}
  PVE = pve
  ValidSockets = {1}
  Serials = {r1, r2, x1}
  Requests = {r1, r2}
  Accounts = {a1, a2}
  Hosts = {h1}
  Calls <- ClientAndHostCalls
  AddableKeys <- MintedAndAdminKeys
  AddStatuses = {"REVOKED"}
  Faults = {"write", "crash"}
  OneOrderPerAccount = FALSE
INVARIANTS
  TypeOK
  IssuedUnderApproval
  IssuedKeyIsOwn
  RevokedKeyGoesDark
  IssuedKeyIsHonoured
  ActiveIsEarned
PROPERTIES
  OnlyOwnerRevokes
  ReRegistrationKeepsStatus
  HostDecisionStands
SYMMETRY Symmetry
VIEW Observed
CHECK_DEADLOCK FALSE
CONSTRAINTS ClientsApart HostApart CallersExist
