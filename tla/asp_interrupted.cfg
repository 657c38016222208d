\* An effect interrupts the stream, which then ends.
CONSTANTS
    Gains = {}
    AspScale = 100
    MaxRing = 6
SPECIFICATION Spec
INVARIANTS
    PllRestored
