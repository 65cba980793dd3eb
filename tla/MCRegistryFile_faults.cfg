SPECIFICATION FairSpec
CONSTANTS
  m1 = m1
  m2 = m2
  m3 = m3
  r1 = r1
  r2 = r2
  i1 = i1
  i2 = i2
  i3 = i3
  i4 = i4
  Mutations = {m1, m2, m3}
  Readers = {r1}
  Inodes = {i1, i2, i3}
  Torn = Torn
  None = None
  Faults = {"read", "write", "crash"}
INVARIANTS TypeOK BackupAtMostOneBehind
PROPERTIES ImplementsAtomic EveryMutationEnds
