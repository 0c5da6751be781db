CONSTANTS
    Key = {k1, k2}
    None = None
    Client = {c1, c2}
    Trigger = {}
    Scancode = {}
    ReleaseBind = {esc}
    Input <- MCInput
    EventCap = 1
    Backlog = 0
    CoreGraphicsFails = TRUE
    NetCap = 1
    SendFailuresThreshold = 1
    CrossingStormThreshold = 1
SPECIFICATION Spec
SYMMETRY Symmetry
CONSTRAINT QuietNetwork
INVARIANT BarrierStates
