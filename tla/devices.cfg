\* Starts and stops that always come first to last, every attribute, and everything at
\* once; two threads of the HAL, counters up to three, a table of offload effects that
\* two of three fill; a DSP that answers in time, late, and a boot switch that is stored
\* twice; a volume that a slope reaches from its floor and one out of range; controls of one
\* of two firmwares; a ring of three words that a stream of four goes round; an amplifier
\* that does as it is told, one that fails, and one whose work is overtaken, of which a few
\* settings show what there is to show, with one interrupt left disabled for good.
CONSTANTS
    Parts = {"drv2624", "metrics", "power45", "volume45", "firmware", "stream", "power41",
             "controls41"}
    Setups = {"calm", "attributes", "any"}
    MaxDepth = 2
    Adders = {a1, a2}
    MaxAdded = 3
    Effects = {e1, e2, e3}
    MaxEffects = 2
    PowerSetups = {"steady", "slow", "repeat"}
    MaxUsage = 2
    Volumes = {3, 920}
    Attenuations = {0, 1}
    Times = {0, 1}
    Timeouts = {0, 1, 65535}
    DspSetups = {"sound", "faulty"}
    Mine = "spk"
    Other = "cal"
    Inputs = {"a", "b"}
    StreamSetups = {"sound", "restarts", "faulty"}
    Fragments = {1, 2}
    MaxWords = 4
    FirstWords = 2
    SecondWords = 1
    AmpSetups = {"sound", "faulty", "race"}
    RaceSettings = {"ctl", "rate", "force_int"}
    MaxDisabled = 1
SPECIFICATION Spec
INVARIANTS
    TypeOK
    AwakeAndKept
    Reported
    DspKept
    VolumeSafe
    AmpSound
    ControlsKept
    StreamInOrder
PROPERTIES
    OffStops
    ReaderWoken
\* Nothing more is added to counters at their bound, and a stream ends with
\* its words.
CHECK_DEADLOCK FALSE
