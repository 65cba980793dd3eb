SPECIFICATION Spec
CONSTANTS
  k1 = k1
  k2 = k2
  k3 = k3
  h1 = h1
  h2 = h2
  a1 = a1
  p1 = p1
  p2 = p2
  d1 = d1
  d2 = d2
  Processes = {p1, p2}
  Keys = {k1, k2, k3}
  ValidKeys = {k1, k3}
  LabKeys = {k1, k2}
  Hosts = {h1, h2}
  Accounts = {a1}
  Dues = {d1, d2}
  DefaultDue = d1
  Entries <- SomeEntries
  Stored <- SomeStored
  Decisions = {"APPROVED", "REJECTED", "BLOCKED"}
  MaxFile = 2
  MaxEvents = 2
  Faults = {"write", "kill"}
  None = None
  Torn = Torn
INVARIANTS TypeOK OnlyLabKeys
PROPERTIES SuccessLands RecordStands RestoreMatchesExport
CONSTRAINT OneArea
SYMMETRY Symmetry
CHECK_DEADLOCK FALSE
