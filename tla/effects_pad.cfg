SPECIFICATION Spec
CONSTANTS
    Ids = {a, b}
    Waves = {u}
    Garbage = Garbage
    Nothing = Nothing
    Absent = Absent
    NumBuzz = 1
    NumRam = 1
    NumRom = 1
    MaxIndex = 1
    OwtSpace = 2
    OwtIndexEnd = 1
    Kinds = {"OWT"}
    Buttons = {"INVALID", "PRESS"}
    GpoMon = FALSE
    Faults = {}
INVARIANT PadFollowsIndex
