SPECIFICATION FairSpec
CONSTANTS
  h1 = h1
  h2 = h2
  p1 = p1
  p2 = p2
  n1 = n1
  n2 = n2
  n3 = n3
  n4 = n4
  n5 = n5
  k1 = k1
  k2 = k2
  k3 = k3
  Hosts = {h1}
  Trusted = {}
  Products = {p1}
  Keys = {k1, k2, k3}
  Nonces = {n1, n2}
  TTL = 3
  MaxWait = 1
  Room = 2
  Events = {"drop", "refuse", "restart", "operator"}
  Absent = Absent
  None = None
PROPERTIES EveryRunEnds HostCatchesUp
