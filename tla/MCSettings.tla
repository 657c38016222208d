----------------------------- MODULE MCSettings -----------------------------
(***************************************************************************)
(* What drivers must keep over loads, swaps and resets, checked in one     *)
(* run: the waveforms, attributes and configuration of the CS40L25, what   *)
(* is set in the TAS25xx and TAS256x, with the power states that resets    *)
(* restore, the calibration of the TAS25xx's speakers, and how the binary  *)
(* of the TAS25xx is parsed, which has no state.  They share nothing, so a *)
(* behaviour exercises one of them, chosen at its start, and the state of  *)
(* the others stays initial.                                               *)
(***************************************************************************)
EXTENDS Integers

CONSTANTS
    Parts,                                              \* of those in SettingsAssumption
    Contents, TooLong, Tables, Space, Want, Step, Least,    \* Cs40l2xWaveforms
    Edges, MaxVirtual,
    F0Min, F0Max, Gpios, Entries, Resonances, ErrorMax, \* Cs40l2xAttributes
    ConfigSettings, Devices, Trees, ConfigFaults, MaxLoads,     \* Cs40l2xConfig
    TasSetups, IrqLimit, MaxFaults,                     \* Tas25xx
    OldSetups, Watched, Tas2564, RESTART_MAX,           \* Tas256x
    CalibSetups, Rounds, Measured, RdcRange, Ohms, Requests, AccessFaults,  \* Tas25xxCalib
    BinChannels, Tries                                  \* Tas25xxRegbin

VARIABLES
    part,               \* what a behaviour exercises
    table, fw, open_wt_enable, cal_disabled_owt, virtual_bin, num_waves, virtual, queue, ovwr_wav,
    loaded, cp_trigger_index, gpio_reg, slot, asked, erased, moved,
    pair, memory, dsp_cache, lost, blind, wanted, dynamic_f0, f0_table, unread, apart, latched,
    hw_err_count, stuck,
    setting_cfg, device, tree, unit, load, started, configured, pm, playing_cfg, loads, cut,
    setup, setting, fmt_table, tas, dac_power, suspended, wanted_tas, faults,
    setup_old, setting_old, old, playing, suspended_old, wanted_old, faults_old,
    use, calib, prepared, valid, user, stream, stats, dsp, requests, failed, again, seen

(* Tables of one waveform and of two *)
SampleTables == {<<2>>, <<1, 3>>}

Owt == INSTANCE Cs40l2xWaveforms

Attrs == INSTANCE Cs40l2xAttributes WITH Pairs <- {}

(* Attributes that share a word, those that follow clab_enable, and a few of the rest
   beside one that is in a shared word *)
Pairs ==
    LET beside(a) == {{a, b} : b \in Attrs!Attributes \ {a}}
        shares(a, b) == a # b /\ a.word = b.word
    IN  {{}} \cup beside(Attrs!CpDigScale) \cup beside(Attrs!ClabEnable)
        \cup {p \in UNION {beside(a) : a \in Attrs!Attributes} : \E a, b \in p : shares(a, b)}

Attributes == INSTANCE Cs40l2xAttributes

Config == INSTANCE Cs40l2xConfig
    WITH Settings <- ConfigSettings, setting <- setting_cfg, playing <- playing_cfg

Tas == INSTANCE Tas25xx WITH Setups <- TasSetups, table <- fmt_table, wanted <- wanted_tas

Old == INSTANCE Tas256x
    WITH Setups <- OldSetups, setup <- setup_old, setting <- setting_old, tas <- old,
         suspended <- suspended_old, wanted <- wanted_old, faults <- faults_old

Calib == INSTANCE Tas25xxCalib WITH asked <- requests

Regbin == INSTANCE Tas25xxRegbin

ASSUME SettingsAssumption ==
    /\ Parts \subseteq {"waveforms", "attributes", "config", "tas25xx", "tas256x", "speakers",
                  "binary"}
    /\ Owt!WaveformsAssumption /\ Attributes!AttributesAssumption
    /\ Config!ConfigAssumption /\ Tas!TasAssumption /\ Old!TasAssumption
    /\ Calib!CalibAssumption /\ Regbin!RegbinAssumption

waveform_vars == <<table, fw, open_wt_enable, cal_disabled_owt, virtual_bin, num_waves, virtual,
                   queue, ovwr_wav, loaded, cp_trigger_index, gpio_reg, slot, asked, erased,
                   moved>>
attribute_vars == <<pair, memory, dsp_cache, lost, blind, wanted, dynamic_f0, f0_table, unread,
                    apart, latched, hw_err_count, stuck>>
config_vars == <<setting_cfg, device, tree, unit, load, started, configured, pm, playing_cfg,
                 loads, cut>>
tas_vars == <<setup, setting, fmt_table, tas, dac_power, suspended, wanted_tas, faults>>
old_vars == <<setup_old, setting_old, old, playing, suspended_old, wanted_old, faults_old>>
calib_vars == <<use, calib, prepared, valid, user, stream, stats, dsp, requests, failed, again,
                seen>>
vars == <<part, waveform_vars, attribute_vars, config_vars, tas_vars, old_vars, calib_vars>>

(* The values a behaviour of another part starts with. *)
Start(p, S) == IF part = p THEN S ELSE {CHOOSE s \in S : TRUE}

Init ==
    /\ part \in Parts
    /\ Owt!Init /\ (part # "waveforms" => table = (CHOOSE t \in Tables : TRUE) /\ open_wt_enable)
    /\ Attributes!Init /\ (part # "attributes" => pair = {})
    /\ setting_cfg \in Start("config", ConfigSettings)
    /\ Config!Init /\ (part # "config" => device = "l25" /\ tree = "bare")
    /\ setup \in Start("tas25xx", TasSetups) /\ setting \in Start("tas25xx", Tas!SettingsOf(setup))
    /\ Tas!Init /\ (part # "tas25xx" => fmt_table = {1})
    /\ setup_old \in Start("tas256x", OldSetups)
    /\ setting_old \in Start("tas256x", Old!SettingsOf(setup_old)) /\ Old!Init
    /\ use \in Start("speakers", CalibSetups) /\ Calib!Init

Others(p) ==
    /\ part = p /\ UNCHANGED part
    /\ IF p = "waveforms" THEN TRUE ELSE UNCHANGED waveform_vars
    /\ IF p = "attributes" THEN TRUE ELSE UNCHANGED attribute_vars
    /\ IF p = "config" THEN TRUE ELSE UNCHANGED config_vars
    /\ IF p = "tas25xx" THEN TRUE ELSE UNCHANGED tas_vars
    /\ IF p = "tas256x" THEN TRUE ELSE UNCHANGED old_vars
    /\ IF p = "speakers" THEN TRUE ELSE UNCHANGED calib_vars

Next ==
    \/ part = "waveforms" /\ Owt!Next /\ Others("waveforms")
    \/ part = "attributes" /\ Attributes!Next /\ Others("attributes")
    \/ part = "config" /\ Config!Next /\ Others("config")
    \/ part = "tas25xx" /\ Tas!Next /\ Others("tas25xx")
    \/ part = "tas256x" /\ Old!Next /\ Others("tas256x")
    \/ part = "speakers" /\ Calib!Next /\ Others("speakers")

Spec == Init /\ [][Next]_vars

------------------------------------------------------------------------------
(* The state of every part is well formed. *)
TypeOK ==
    /\ part \in Parts
    /\ CASE part = "waveforms" -> Owt!TypeOK
         [] part = "attributes" -> Attributes!TypeOK
         [] part = "config" -> Config!TypeOK
         [] part = "tas25xx" -> Tas!TypeOK
         [] part = "tas256x" -> Old!TypeOK
         [] part = "speakers" -> Calib!TypeOK
         [] part = "binary" -> TRUE

(* A slot of Cs40l2xWaveforms that is triggered holds what was saved under its index, and
   slots lie beside the waveforms of the table; what was stored last in an attribute of
   Cs40l2xAttributes is in force, and so is what Cs40l2xConfig configures, once the last
   file that was asked for is answered.  Tas25xxRegbin: each channel gets its own blocks of
   the binary, and the first binary that is found decides. *)
SavedInForce ==
    CASE part = "waveforms" -> Owt!PlaysSaved /\ Owt!SlotsApart
      [] part = "attributes" -> Attributes!InForce
      [] part = "config" -> Config!InForce /\ Config!AllAnswered
      [] part = "binary" -> Regbin!OwnBlocks /\ Regbin!FirstFileDecides
      [] OTHER -> TRUE

(* Cs40l2xAttributes: the resonances that are shown are those the DSP goes by, and an
   error that was given up on shows in its count.  Tas25xxCalib: a speaker that shows as
   calibrated or validated shows what the DSP answered last, the greatest excursion is not
   forgotten, and a resistance reads back as it was stored. *)
ShownIsTrue ==
    CASE part = "attributes" -> Attributes!ResonancesShown /\ Attributes!GivenUpShown
      [] part = "speakers" -> Calib!ResultsShown /\ Calib!ExcursionsKept /\ Calib!Rounded
      [] OTHER -> TRUE

(* Tas25xx, Tas256x: no chip is on without a stream, a stream that plays is heard, resets
   bring back what was set, and a fault while playing is seen.  Tas25xxCalib: speakers are
   not left in calibration or validation, and get the calibration that is stored. *)
SmartAmpSound ==
    CASE part = "tas25xx" -> Tas!SmartAmpSound
      [] part = "tas256x" -> Old!SmartAmpSound
      [] part = "speakers" -> Calib!LeftClean /\ Calib!CalibrationSent
      [] OTHER -> TRUE
==============================================================================
