CONSTANTS
    Key = {k1}
    None = None
    Client = {c1}
    Trigger = {t1}
    Scancode = {}
    ReleaseBind = {esc}
    Input <- Inputs
    EventCap = 1
    Backlog = 0
    NetCap = 1
    SendFailuresThreshold = 1
    CrossingStormThreshold = 1
SPECIFICATION Spec
INVARIANT EventHasCapture
