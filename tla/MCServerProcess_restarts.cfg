SPECIFICATION FairSpec
CONSTANTS
  c1 = c1
  c2 = c2
  c3 = c3
  c4 = c4
  c5 = c5
  r1 = r1
  r2 = r2
  Certs = {c1, c2, c3, c4, c5}
  Requests = {r1}
  None = None
  Torn = Torn
  Faults = {"read", "write", "bind", "crash"}
  DrainDelay = 1
  Grace = 1
  ProbeEvery = 2
INVARIANTS TypeOK RefusedBriefly NoAccidentalPlaintext
PROPERTIES CurrentRegistryKept TrustKept CutOnlyAfterGrace StopEnds ServesAgain
CONSTRAINTS Missed FourServed
