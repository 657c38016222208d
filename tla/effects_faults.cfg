\* Every bank and every failure, firmware reloads included.
CONSTANTS
    Ids = {a, b}
    Waves = {u}
    Garbage = Garbage
    Nothing = Nothing
    Absent = Absent
    NumBuzz = 2
    NumRam = 1
    NumRom = 1
    MaxIndex = 0
    OwtSpace = 1
    OwtIndexEnd = 0
    Kinds = {"SINE", "OWT", "RAM", "ROM"}
    Buttons = {"INVALID", "PRESS"}
    GpoMon = FALSE
    Faults = {"io", "push_late", "buzz_io", "map_io", "waves_io", "delete_io", "pm", "gpi_io", "delete_late", "reload"}
SPECIFICATION Spec
VIEW EffectsView
INVARIANTS
    OneSlotEach
