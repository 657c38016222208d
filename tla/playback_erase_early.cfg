\* The erase finds the playing effect not yet reported.
CONSTANTS
    Effects = {a, b}
    NoEffect = none
    Endless = {}
    NoWait = {}
    PadEffects = {}
    StopDelay = FALSE
    SlowDsp = FALSE
    MaxRing = 4
SPECIFICATION Spec
PROPERTIES
    EraseWaits
