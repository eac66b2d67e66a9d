SPECIFICATION Spec
CONSTANTS
    Modules = {m1, m2}
    Blocks = {b1, b2}
    MaxFaults = 3
    MaxBoots = 2
INVARIANTS ServesAsTrained WrappedOnce AllOrNothing RefusesOnlyWithCause
CHECK_DEADLOCK FALSE
