CONSTANTS
  Addr = {a1}
  Key = {k1}
  Backend = "linux"
  RequestCap = 2
  EventCap = 2
  NoKey = NoKey
  MaxSessions = 1
  Pos = {}
  Frame = {"Leave", "Cut"}
  ListenCap = 1
  MaxTriggers = 3
  NoSession = NoSession
  NoSel = NoSel
  NoFile = NoFile
SPECIFICATION MCSpec
INVARIANTS KeysAreWatched NoStuckKey  SessionIsFaithful
PROPERTIES KeysAreReleased  FramesArrive
CHECK_DEADLOCK FALSE
