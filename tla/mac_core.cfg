CONSTANTS
    Key = {k1}
    None = None
    Client = {c1}
    Trigger = {}
    Scancode = {}
    ReleaseBind = {esc}
    Input <- MCInput
    EventCap = 2
    Backlog = 1
    CoreGraphicsFails = FALSE
    NetCap = 1
    SendFailuresThreshold = 1
    CrossingStormThreshold = 1
SPECIFICATION Spec
INVARIANTS CursorFollowsCapture CaptureIsOwned PendingIsTracked
PROPERTY ImplementsContract
