CONSTANTS
    Key = {k1}
    None = None
    Client = {c1}
    Trigger = {}
    Scancode = {}
    ReleaseBind = {esc}
    Input <- Inputs
    EventCap = 1
    Backlog = 0
    NetCap = 1
    SendFailuresThreshold = 1
    CrossingStormThreshold = 1
SPECIFICATION LiveSpec
PROPERTIES CrossingIsResolved AbandonedCaptureEnds DeadLinkFreesMouse
