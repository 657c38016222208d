\* Three composites, one too long for a slot of ten words or fewer, two wavetables, one
\* virtual index; two buttons, an f0 range, a table of two resonances and errors that
\* are given up on at the third; two faults of chips that each kind of action answers, and
\* of those of the older driver with a setting of each kind of restoration; every setting
\* of a probe, with an access or answer that fails and two further loads; three requests
\* for two speakers, one resistance out of the range, two within, and an access that fails;
\* binaries of two channels, and three requests for one.
CONSTANTS
    Parts = {"waveforms", "attributes", "config", "tas25xx", "tas256x", "speakers", "binary"}
    Contents = {"a", "b", "c"}
    TooLong = {"c"}
    Tables <- SampleTables
    Space = 40
    Want = 24
    Step = 6
    Least = 12
    Edges = {"rise"}
    MaxVirtual = 1
    F0Min = 100
    F0Max = 300
    Gpios = {1, 2}
    Entries = 2
    Resonances = {1, 2}
    ErrorMax = 2
    ConfigSettings = {
        "errata", "lbst", "trim", "key", "pad", "pll", "boost", "ipk", "limit", "ovp",
        "vctrl2", "global_en", "routing", "volume", "mpu", "wksrc", "asp", "dcm", "pwr3",
        "vpbr", "vbbr", "amp", "gpio_mask", "gpio_pol", "gpio_enable", "spk_auto",
        "events", "irq_mask", "timeout_ms", "comp", "f0", "redc", "q", "pr_timeout",
        "edge1", "edge2", "edge3", "edge4", "wt", "exc", "df0", "clab", "cal"}
    Devices = {"l20", "l25", "l25a", "l25b"}
    Trees = {"bare", "full", "auto", "clamp", "classh", "indv", "nodyn"}
    ConfigFaults = 1
    MaxLoads = 2
    TasSetups = {"shutdown", "restart", "software", "hardware", "clock", "faulty"}
    IrqLimit = 1
    MaxFaults = 2
    OldSetups = {"switches", "mutes", "faults", "failing", "reload", "suspend"}
    Watched = {"dvc_pcm", "ampoutput_lvl", "reciever_enable", "fmt", "rx_width", "sample_rate",
               "iv_enable"}
    Tas2564 = {1}
    RESTART_MAX = 1
    CalibSetups = {"calibration", "validation", "streams", "statistics", "rounding"}
    Rounds = 2
    Measured = {5, 7, 8}
    RdcRange = {7, 8}
    Ohms = {0, 7, 32, 80}
    Requests = 3
    AccessFaults = 1
    BinChannels = 2
    Tries = 3
SPECIFICATION Spec
INVARIANTS
    TypeOK
    SavedInForce
    ShownIsTrue
    SmartAmpSound
\* A table of resonances that is full, and a chip that lost its state, may stay so.
CHECK_DEADLOCK FALSE
