\* One reset before a cooldown; the messages of two effects; no fault strikes and users ask
\* for nothing while the line is disabled oftener than once.
CONSTANTS
    Setups = {"plain", "pads", "manual", "faults", "swaps", "no_gpio"}
    MaxCount = 1
    MaxRing = 2
    MaxDepth = 1
SPECIFICATION FairSpec
INVARIANTS
    TypeOK
    LineSound
    CountsSound
PROPERTIES
    ResetEnds
