SPECIFICATION Spec
CONSTANTS
  i1 = i1
  i2 = i2
  f1 = f1
  v1 = v1
  Processes = {p1, p2}
  IPs = {i1, i2}
  Foreign = {f1}
  Start <- SomeStart
  Versions = {v1}
  KeyIds = {k1, k2}
  Requests <- SomeRequests
  Begin = Begin
  End = End
  Blank = Blank
  MaxCalls = 3
  Faults = {"fail", "kill", "misread"}
  None = None
  Torn = Torn
INVARIANTS TypeOK FilesKept OneIdentity
PROPERTIES ReportsTrue
CONSTRAINT LastAlone
SYMMETRY Symmetry
CHECK_DEADLOCK FALSE
