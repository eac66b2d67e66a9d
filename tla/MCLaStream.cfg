SPECIFICATION Spec
CONSTANTS
    Conns = {c1, c2}
    MaxFrames = 2
    None = None
SYMMETRY Symmetry
INVARIANTS
    IInv
    GpuExclusive
    Correlated
    OneOutstanding
    TypedErrorFirst
PROPERTIES
    CloseIsLast
    ServesClients
