\* Three effects: one endless, one that cannot be stopped, one a pad may trigger.
CONSTANTS
    Effects = {a, b, c}
    NoEffect = none
    Endless = {b}
    NoWait = {c}
    PadEffects = {a}
    StopDelay = TRUE
    SlowDsp = TRUE
    MaxRing = 4
SPECIFICATION FairSpec
INVARIANTS
    TypeOK
    InFlightExact
    NoLostWakeUp
PROPERTIES
    CalmEraseWaits
    EraseTerminates
