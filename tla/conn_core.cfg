CONSTANTS
  Client = {c1, c2}
  Ip = {i1, i2}
  Port = {p1}
  HostIps <- Own
  Task = {t1, t2, t3}
  None = None
  Reasons = {"WakeCode", "LocallyClosed"}
  Edits = {"hostname", "ips", "remove"}
  StreamErrors = TRUE

SPECIFICATION Spec
SYMMETRY TaskSymmetry
INVARIANTS
  ConnectingHasDial
  PeersAreSupervised
  ActiveHasSession
  SendsToOwnSession
