\* Two effects contend for the slots and the wavetable; failures the driver survives.
CONSTANTS
    Ids = {a, b}
    Waves = {u, w}
    Garbage = Garbage
    Nothing = Nothing
    Absent = Absent
    NumBuzz = 2
    NumRam = 1
    NumRom = 1
    MaxIndex = 1
    OwtSpace = 2
    OwtIndexEnd = 1
    Kinds = {"SINE", "OWT"}
    Buttons = {"INVALID", "OTHER"}
    GpoMon = FALSE
    Faults = {"io", "push_late", "buzz_io", "map_io", "waves_io", "delete_io"}
SPECIFICATION Spec

INVARIANTS
    TypeOK
    OwtPrivate
PROPERTIES
    ImplementsStore
    NoSlotLost
