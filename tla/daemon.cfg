CONSTANTS
    Handle = {0, 1}
    Position = {"Left", "Right"}
    DefaultPosition = "Left"
    Monitor = {m1, m2}
    Geometry = {g1, g2}
    None = None
SPECIFICATION MCSpec
INVARIANTS
    BarriersAgree
    RegistryIsPublished
    
    
    
    
    OneMaster
    
    
    
