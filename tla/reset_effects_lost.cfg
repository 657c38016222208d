\* An effect is uploaded and the chip is reset.
CONSTANTS
    Setups = {"plain"}
    MaxCount = 1
    MaxRing = 2
    MaxDepth = 1
SPECIFICATION Spec
INVARIANTS
    ListedIsLoaded
