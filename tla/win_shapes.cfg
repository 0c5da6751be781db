CONSTANTS
    edge = edge
    peer = peer
    guest = guest
    esc = esc
    k1 = k1
    k2 = k2
    c1 = c1
    c2 = c2
    None = None
    ReleaseBind = {esc}
    EventCap = 1
    Backlog = 0
    NetCap = 1
    SendFailuresThreshold = 1
    CrossingStormThreshold = 1
SPECIFICATION Spec
INVARIANT CrossingIsTracked
SYMMETRY Symmetry
CONSTRAINT QuietNetwork
