\* Boards with and without an interrupt line, a timer for streams, the clamp, recovery
\* and buttons, and user space that stores some kinds of index; strings of four tokens,
\* which hold an inner loop of two sections, over counts within and beyond a u8 of two
\* bits; settings with a cache of two addresses, of which three may be stored, and a write
\* sequence that three loads fill.
CONSTANTS
    Parts = {"vibe", "queue", "settings"}
    Setups = {
        {"events", "gnd", "VIBE", "PBQ"},
        {"events", "gnd", "VIBE", "DIAG"},
        {"events", "VIBE", "CLICK"},
        {"VIBE", "PBQ", "CLICK"},
        {"events", "PEAK", "QEST", "DIAG"},
        {"events", "asp", "gnd", "PBQ"},
        {"events", "pads", "gnd", "PBQ"},
        {"events", "auto", "gnd", "PBQ"},
        {"events", "panics"},
        {"events", "a2h", "gnd", "PBQ"},
        {"events", "gnd", "resets", "PBQ"},
        {"events", "faults"},
        {"faults", "PBQ"}}
    Scales = {"LOUD", "SOFT"}
    FreshScale = "LOUD"
    MaxWakes = 2
    Waveforms = {"A", "B"}
    Lengths <- SampleLengths
    Delays = {1}
    Counts = {1, 4}
    Marker = 3
    MaxSections = 4
    MaxTokens = 4
    MaxTokensLater = 1
    MaxPlayed = 9
    Cached = {"c1", "c2"}
    Uncached = {"u"}
    Values = {0, 1}
    FreshValue = 0
    Remaps = {"R1", "R2"}
    Addresses = {"m1", "m2", "m3", "m4"}
    Address <- Places
    CacheMax = 2
    WseqMax = 5
    amp_gnd_stby = TRUE
SPECIFICATION Spec
INVARIANTS
    TypeOK
    FreeWhilePlaying
    SettingsKept
    QueueExact
PROPERTIES
    WakeFollowsState
    PlaybackEnds
