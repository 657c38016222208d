\* Eight services of the CS40L26 driver.  A ring of three words that wraps twice; a
\* write sequence that is full after two or three writes; two users of two kinds of
\* measurement; bytes of two bits, so that three of the widest fields overfill a
\* chunk.  The gain is set at any time, beside streams with and without effects.  One
\* access of a configuration fails.  Composites of three sections,
\* which a room of 16 words holds or not.  The bounded ones come to an end.
CONSTANTS
    QueueLen = 3
    MaxSent = 6
    Attempts = 2
    Data = {1, 2}
    MaxSize = 8
    Faults = 1
    Users = {u1, u2}
    Kinds = {"F0_AND_Q", "LS_CALIBRATION"}
    MaxJobs = 2
    Bits = 2
    Size = 3
    MaxFields = 3
    Gains = {40, 100}
    AspScale = 50
    MaxRing = 4
    Settings = {
        "errata", "aux_ng", "hiz", "masks", "pad", "dcm", "ipk", "boost",
        "boost_sel", "global_en", "clip", "aux_input", "noise_gate", "brownout",
        "masks2", "watchdog", "asp", "gpio", "gpo", "zero_cross", "dbc", "f0",
        "redc", "q", "stdby", "active", "timeout_ms", "comp", "log", "scale",
        "f0_offset", "redc_est", "freq_span", "freq_centre", "op_gain", "ls_temp",
        "ls_results", "peq", "logging_en", "control", "braking"}
    Revisions = {"a1", "b2"}
    Trees = {"bare", "monitor", "rom", "short", "defer", "maint", "stored", "dbc", "calib"}
    ConfigFaults = 1
    MaxWaves = 3
    Amplitude = 50
    Delays = {0, 1}
    Durations = {0, 1}
    Repeats = {0, 1, 255}
    OwtSize = 16
    MaxSections = 3
SPECIFICATION Spec
INVARIANTS
    TypeOK
    DataIntact
    RequestsMet
    ReplaysAsked
    StreamsSound
PROPERTIES
    ServicesEnd
CHECK_DEADLOCK FALSE
