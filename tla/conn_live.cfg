CONSTANTS
  Client = {c1}
  Ip = {i1}
  Port = {p1, p2}
  HostIps <- Shared
  Task = {t1, t2, t3}
  None = None
  Reasons = {"TimedOut", "PeerClosed"}
  Edits = {"port"}
  StreamErrors = FALSE

SPECIFICATION LiveSpec
PROPERTIES
  Reconnects
