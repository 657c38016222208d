------------------------------ MODULE MCDevices ------------------------------
(***************************************************************************)
(* The drivers beside those of the CS40L26 and the CS40L25, checked in one *)
(* run: amplifiers, the DRV2624 and the audio metrics.  Their components   *)
(* share nothing, so a behaviour exercises one of them, chosen at its      *)
(* start, and the state of the others stays initial.                       *)
(***************************************************************************)
EXTENDS Integers

CONSTANTS
    Parts,                                              \* of those in DevicesAssumption
    Setups, MaxDepth,                                   \* Drv2624
    Adders, MaxAdded, Effects, MaxEffects,              \* Audiometrics
    PowerSetups, MaxUsage,                              \* Cs35l45Power
    Volumes, Attenuations, Times, Timeouts,             \* Cs35l45Volume
    DspSetups, Mine, Other, Inputs,                     \* CsDsp
    StreamSetups, Fragments, MaxWords,                  \* AdspStream
    FirstWords, SecondWords,                            \* AdspStream: of the ring's regions
    AmpSetups, RaceSettings, MaxDisabled                \* Cs35l41Power

VARIABLES
    part,               \* what a behaviour exercises
    setup, attr, vibrator_playing, work_mode, snapshot, awake, depth, wq, wq_pc, vibrator_work,
    trigger_pc, lp_trigger_effect, cache, chip, wanted, brightness, unanswered,
    group, held, added, reported, spilled, adder, clearing, effect_uuid, effect_seconds,
    offload_effects_count, owner,
    setup45, setting, boot, boot_pc, open, power, pmu, pmd, usage, rpm, runtime_error, irq45,
    force_int, virt2_mbox_comp, mbox, dsp, asleep, cache_only, kept, chip45, wanted45, classh,
    classh_tracking,
    tuned_by, pc, playing, spk, amplifier_mode, prev_active_dev, recent, global_en, circuit, volume,
    dig_vol, ramp_init_att, ramp_knee_att, ramp_knee_time, ramp_end_time, auto_ramp_timeout,
    manual_ramp, vol_ramp, ramp, knee_y, end_y, wanted_vol, strayed,
    setup_dsp, kind, tuned, fw, preload, dsp1, booted, running, listed, enabled, set, cache_ctl,
    code, mem, wanted_ctl,
    setup_buf, stream, frag, copied_total, attached, waiting, on, fatal_error, read_index, avail,
    irq_odd, buf_error, next_read_index, error, armed, irq, high_water_mark, first, produced,
    taken, origin, torn,
    setup41, setting41, stream41, path, preloaded, booted41, running41, halo_booted, enabled41,
    reload_tuning, gpi_global_en, amp_hibernate, hibernate_force_wake, hb_work, irq_depth,
    force_int41, cache_only41, kept41, stored41, chip41, fw41, asleep41, mbox_8, wanted41,
    storing, forgotten,
    setup_wm, type, flags, tuned_wm, fw_wm, preloaded_wm, stream_wm, boot_work, halo_booted_wm,
    booted_wm, running_wm, ctl, added_wm, fast_switch_en, copying, code_wm, mem_wm, wanted_wm

haptics_vars == <<setup, attr, vibrator_playing, work_mode, snapshot, awake, depth, wq, wq_pc,
    vibrator_work, trigger_pc, lp_trigger_effect, cache, chip, wanted, brightness, unanswered>>
metrics_vars == <<group, held, added, reported, spilled, adder, clearing, effect_uuid,
    effect_seconds, offload_effects_count, owner>>
power_vars == <<setup45, setting, boot, boot_pc, open, power, pmu, pmd, usage, rpm, runtime_error,
    irq45, force_int, virt2_mbox_comp, mbox, dsp, asleep, cache_only, kept, chip45, wanted45,
    classh, classh_tracking>>
volume_vars == <<tuned_by, pc, playing, spk, amplifier_mode, prev_active_dev, recent, global_en,
    circuit, volume, dig_vol, ramp_init_att, ramp_knee_att, ramp_knee_time, ramp_end_time,
    auto_ramp_timeout, manual_ramp, vol_ramp, ramp, knee_y, end_y, wanted_vol, strayed>>
dsp_vars == <<setup_dsp, kind, tuned, fw, preload, dsp1, booted, running, listed, enabled, set,
    cache_ctl, code, mem, wanted_ctl>>
stream_vars == <<setup_buf, stream, frag, copied_total, attached, waiting, on, fatal_error,
    read_index, avail, irq_odd, buf_error, next_read_index, error, armed, irq, high_water_mark,
    first, produced, taken, origin, torn>>
amp_vars == <<setup41, setting41, stream41, path, preloaded, booted41, running41, halo_booted,
    enabled41, reload_tuning, gpi_global_en, amp_hibernate, hibernate_force_wake, hb_work,
    irq_depth, force_int41, cache_only41, kept41, stored41, chip41, fw41, asleep41, mbox_8,
    wanted41, storing, forgotten>>
wm_vars == <<setup_wm, type, flags, tuned_wm, fw_wm, preloaded_wm, stream_wm, boot_work,
    halo_booted_wm, booted_wm, running_wm, ctl, added_wm, fast_switch_en, copying, code_wm, mem_wm,
    wanted_wm>>
vars == <<part, haptics_vars, metrics_vars, power_vars, volume_vars, dsp_vars, stream_vars,
    amp_vars, wm_vars>>

(* Values below, within and beyond what the attributes take *)
Haptics == INSTANCE Drv2624 WITH Inputs <- {-2, 1, 300}

Metrics == INSTANCE Audiometrics

Power == INSTANCE Cs35l45Power
    WITH Setups <- PowerSetups, setup <- setup45, irq <- irq45, chip <- chip45, wanted <- wanted45

Volume == INSTANCE Cs35l45Volume WITH tuned <- tuned_by, wanted <- wanted_vol

Firmware == INSTANCE CsDsp
    WITH Setups <- DspSetups, setup <- setup_dsp, cache <- cache_ctl, wanted <- wanted_ctl

(* A ring of two regions. *)
Stream == INSTANCE AdspStream
    WITH Setups <- StreamSetups, setup <- setup_buf, Regions <- <<FirstWords, SecondWords>>

Amp == INSTANCE Cs35l41Power
    WITH Setups <- AmpSetups, setup <- setup41, setting <- setting41, stream <- stream41,
         booted <- booted41, running <- running41, enabled <- enabled41,
         force_int <- force_int41, cache_only <- cache_only41, kept <- kept41,
         stored <- stored41, chip <- chip41, fw <- fw41, asleep <- asleep41, wanted <- wanted41

Controls == INSTANCE WmAdsp
    WITH Setups <- AmpSetups, setup <- setup_wm, tuned <- tuned_wm, fw <- fw_wm,
         preloaded <- preloaded_wm, stream <- stream_wm, halo_booted <- halo_booted_wm,
         booted <- booted_wm, running <- running_wm, added <- added_wm, code <- code_wm,
         mem <- mem_wm, wanted <- wanted_wm

(* Parameters, of the driver's own too, one without flags and one that is
   volatile; one of each other type as it must be, and some that must not be so. *)
Descriptors ==
    {<<"BYTES", f>> : f \in {{}, {"READABLE", "WRITEABLE"}, {"SYS", "READABLE"},
                             {"VOLATILE", "READABLE", "WRITEABLE"}}}
    \cup {<<"ACKED", f>> : f \in {Controls!Flags, Controls!Flags \ {"SYS"}, {"VOLATILE"}}}
    \cup {<<"HOSTEVENT", f>> : f \in {Controls!Flags, {"SYS"}}}
    \cup {<<"HOST_BUFFER", Controls!Flags \ {"WRITEABLE"}>>, <<"unknown", {}>>}

ASSUME DevicesAssumption ==
    /\ Parts \subseteq {"drv2624", "metrics", "power45", "volume45", "firmware", "stream",
                       "power41", "controls41"}
    /\ Haptics!DrvAssumption /\ Metrics!MetricsAssumption
    /\ Power!PowerAssumption /\ Volume!VolumeAssumption /\ Firmware!CsDspAssumption
    /\ Stream!StreamAssumption /\ Amp!PowerAssumption /\ Controls!WmAdspAssumption

(* The values a behaviour of another part starts with. *)
Start(p, S) == IF part = p THEN S ELSE {CHOOSE s \in S : TRUE}

Init ==
    /\ part \in Parts
    /\ setup \in Start("drv2624", Setups) /\ Haptics!Init
    /\ part # "drv2624" => attr = "ctrl_loop" /\ ~lp_trigger_effect
    /\ Metrics!Init /\ (part # "metrics" => group = "offload")
    /\ setup45 \in Start("power45", PowerSetups) /\ setting \in Start("power45", Power!Settings)
    /\ Power!Init
    /\ tuned_by \in Start("volume45", {"attenuation", "time", "timeout"}) /\ Volume!Init
    /\ setup_dsp \in Start("firmware", DspSetups) /\ kind \in Start("firmware", Firmware!Kinds)
    /\ tuned \in Start("firmware", BOOLEAN) /\ Firmware!Init
    /\ setup_buf \in Start("stream", StreamSetups) /\ Stream!Init
    /\ setup41 \in Start("power41", AmpSetups) /\ setting41 \in Start("power41", Amp!Settings)
    /\ Amp!Init
    /\ setup_wm \in Start("controls41", AmpSetups) 
    /\ \E d \in Start("controls41", Descriptors) : type = d[1] /\ flags = d[2]
    /\ tuned_wm = (setup_wm = "sound" /\ type = "BYTES") /\ Controls!Init

Others(p) ==
    /\ part = p /\ UNCHANGED part
    /\ IF p = "drv2624" THEN TRUE ELSE UNCHANGED haptics_vars
    /\ IF p = "metrics" THEN TRUE ELSE UNCHANGED metrics_vars
    /\ IF p = "power45" THEN TRUE ELSE UNCHANGED power_vars
    /\ IF p = "volume45" THEN TRUE ELSE UNCHANGED volume_vars
    /\ IF p = "firmware" THEN TRUE ELSE UNCHANGED dsp_vars
    /\ IF p = "stream" THEN TRUE ELSE UNCHANGED stream_vars
    /\ IF p = "power41" THEN TRUE ELSE UNCHANGED amp_vars
    /\ IF p = "controls41" THEN TRUE ELSE UNCHANGED wm_vars

Next ==
    \/ part = "drv2624" /\ Haptics!Next /\ Others("drv2624")
    \/ part = "metrics" /\ Metrics!Next /\ Others("metrics")
    \/ part = "power45" /\ Power!Next /\ Others("power45")
    \/ part = "volume45" /\ Volume!Next /\ Others("volume45")
    \/ part = "firmware" /\ Firmware!Next /\ Others("firmware")
    \/ part = "stream" /\ Stream!Next /\ Others("stream")
    \/ part = "power41" /\ Amp!Next /\ Others("power41")
    \/ part = "controls41" /\ Controls!Next /\ Others("controls41")

(* The ordered work queue of the DRV2624 is served; a DSP's interrupt comes and its thread
   runs. *)
Spec ==
    /\ Init /\ [][Next]_vars
    /\ WF_vars(part = "drv2624" /\ Haptics!Wq /\ Others("drv2624"))
    /\ WF_vars(part = "stream" /\ Stream!DspInterrupts /\ Others("stream"))
    /\ WF_vars(part = "stream" /\ Stream!HandleIrq /\ Others("stream"))

------------------------------------------------------------------------------
(* The state of every part is well formed. *)
TypeOK ==
    /\ part \in Parts
    /\ CASE part = "drv2624" -> Haptics!TypeOK
         [] part = "metrics" -> Metrics!TypeOK
         [] part = "power45" -> Power!TypeOK
         [] part = "volume45" -> Volume!TypeOK
         [] part = "firmware" -> Firmware!TypeOK
         [] part = "stream" -> Stream!TypeOK
         [] part = "power41" -> Amp!TypeOK
         [] part = "controls41" -> Controls!TypeOK

(* Drv2624: the wake lock is held while the motor runs, and settings outlive resets. *)
AwakeAndKept == part = "drv2624" => Haptics!AwakeWhileDriving /\ Haptics!SettingKept

(* Drv2624: a stop is carried out. *)
OffStops == Haptics!OffStops

(* Audiometrics: what is added is reported once, and an id goes with its seconds. *)
Reported == part = "metrics" => Metrics!ReportedOnce /\ Metrics!OffloadPaired

(* Cs35l45Power: the firmware runs when it should, the chip is awake when it is used, and
   hibernation loses none of the settings that are saved. *)
DspKept ==
    part = "power45" => Power!DspFollows /\ Power!AwakeWhenUsed /\ Power!SettingsSurvive

(* Cs35l45Volume: the mode changes while nothing plays, and what is heard is never louder
   than what was asked for. *)
VolumeSafe == part = "volume45" => Volume!VolumeSafe

(* Cs35l41Power: a chip that plays is awake, nothing stored is lost over hibernation and
   resets, the firmware runs when it should, and the interrupt is disabled as often as it
   is enabled. *)
AmpSound == part = "power41" => Amp!AmpSound

(* CsDsp, WmAdsp: controls keep what was stored over loads, starts and stops, and are written
   to their own firmware alone. *)
ControlsKept ==
    /\ part = "firmware" => Firmware!ControlsTrue /\ Firmware!ForeignUntouched
    /\ part = "controls41" => Controls!ControlsTrue /\ Controls!ForeignUntouched

(* AdspStream: the reader gets each word once, in order. *)
StreamInOrder == part = "stream" => Stream!StreamInOrder

(* AdspStream: a reader that sleeps while a fragment is there is woken. *)
ReaderWoken == Stream!ReaderWoken
==============================================================================
