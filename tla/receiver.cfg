CONSTANTS
    Addr = {a1}
    Key = {}
    Backend = "windows"
    RequestCap = 1
    EventCap = 2
    NoKey = NoKey
    MaxSessions = 2
    Pos = {"left"}
    Frame = {"left", "Leave", "Ping", "Cut", "Fin", "Bad"}
    ListenCap = 2
    MaxTriggers = 2
    NoSession = NoSession
SPECIFICATION Spec
INVARIANTS RegisteredIsSupervised OneTriggerPerPeer
CHECK_DEADLOCK FALSE
