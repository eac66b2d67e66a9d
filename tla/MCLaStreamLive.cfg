SPECIFICATION FairSpec
CONSTANTS
    Conns = {c1, c2}
    MaxFrames = 1
    None = None
PROPERTIES
    FrameSettled
    InferenceBounded
