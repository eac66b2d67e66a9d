SPECIFICATION CalmSpec
CONSTANTS
    Conns = {c1, c2, c3}
    MaxFrames = 2
    None = None
SYMMETRY Symmetry
PROPERTIES
    FirstComeFirstServed
CHECK_DEADLOCK FALSE
