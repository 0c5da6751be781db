CONSTANTS
    Key = {k1}
    None = None
    Client = {c1}
    Trigger = {}
    Scancode = {}
    ReleaseBind = {esc}
    Input <- Inputs
    EventCap = 2
    Backlog = 1
    NetCap = 1
    SendFailuresThreshold = 1
    CrossingStormThreshold = 1
SPECIFICATION Spec
INVARIANTS BarrierStates CaptureIsOwned PendingIsTracked
PROPERTY ImplementsContract
