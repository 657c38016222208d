------------------------------ MODULE Tas256x ------------------------------
(***************************************************************************)
(* The TAS256x driver with two amplifiers: the power states that a stream, *)
(* the switches of its channels and the mute controls walk them through,   *)
(* the interrupt work that reads what happened, resets the chips and       *)
(* writes all again, and the controls themselves.  The interrupt work      *)
(* holds codec_lock, which the events of the stream and most controls do   *)
(* not: its steps are actions of their own.                                *)
(***************************************************************************)
EXTENDS Integers, FiniteSets

CONSTANTS
    Setups,       \* what happens in a behaviour, of those in SetupsKnown
    Watched,      \* what is set in a behaviour that resets chips, of Settings
    Tas2564,      \* the channels whose chip is a TAS2564, the others have a TAS2562
    RESTART_MAX,
    MaxFaults     \* a bound: faults in a behaviour

Channels == {1, 2}
SetupsKnown == {"switches", "mutes", "faults", "failing", "reload", "suspend"}

------------------------------------------------------------------------------
(* The controls of a channel and the values their updates take *)

LevelRange == [dvc_pcm |-> 0..56, lim_max_attn |-> 0..15, lim_thr_max |-> 0..26,
               lim_thr_min |-> 0..26, lim_infl_pt |-> 0..40, lim_trk_slp |-> 0..6,
               bop_thd |-> 0..15, bosd_thd |-> 0..15]

(* The level of the output takes one less than its control offers. *)
BoostRange == [bst_vltg |-> IF 1 \in Tas2564 THEN 0..31 ELSE 0..15, ampoutput_lvl |-> 1..27,
               bst_ilm |-> 0..63]

LimiterRange == [lim_switch |-> 0..1, lim_att_rate |-> 0..7, lim_att_stp_size |-> 0..3,
                 lim_rel_rate |-> 0..7, lim_rel_stp_size |-> 0..3]

BopRange == [bop_enable |-> 0..1, bop_mute |-> 0..1, bosd_enable |-> 0..1,
             bop_att_rate |-> 0..7, bop_att_stp_size |-> 0..3, bop_hld_time |-> 0..7]

SupplyRange == [vbat_lpf |-> 0..3, rx_cfg |-> 0..3]

(* Not checked but by the control. *)
ClasshRange == [classh_timer |-> 0..22]

RecieverRange == [reciever_enable |-> 0..1, rx_mode |-> 0..1]

IcnRange == [icn_thr |-> 0..84, icn_hyst |-> 0..19]

NoiseRange == [noise_gate |-> 0..1]

Groups == <<LevelRange, BoostRange, LimiterRange, BopRange, SupplyRange, ClasshRange,
            RecieverRange, IcnRange, NoiseRange>>

Controls == UNION {DOMAIN Groups[i] : i \in DOMAIN Groups}

Range == [k \in Controls |-> Groups[CHOOSE i \in DOMAIN Groups : k \in DOMAIN Groups[i]][k]]

(* What the controls offer, where it is not what the updates take. *)
Maximum(k) ==
    CASE k = "bst_vltg" -> IF 1 \in Tas2564 THEN 15 ELSE 12
      [] k = "bst_ilm" -> IF 1 \in Tas2564 THEN 63 ELSE 55
      [] k = "ampoutput_lvl" -> 28
      [] OTHER -> LET r == Range[k] IN CHOOSE m \in r : m + 1 \notin r

Settings == Controls \cup {"fmt", "rx_width", "sample_rate", "iv_enable"}

TasAssumption ==
    /\ Setups \subseteq SetupsKnown /\ Watched \subseteq Settings /\ Tas2564 \subseteq Channels
    /\ RESTART_MAX \in Nat /\ MaxFaults \in Nat

VARIABLES
    setup, setting,
    tas,          \* struct tas256x_priv, its chips and the work queued
    playing,      \* a stream is open; the DACs of the channels switched on are powered
    suspended,
    wanted,       \* what the watched setting was last set to
    faults

vars == <<setup, setting, tas, playing, suspended, wanted, faults>>

Unset == -1     \* what the chip, or the device tree, starts with

Resets == setup \in {"faults", "failing", "reload"}

SettingsOf(s) ==
    CASE s \in {"faults", "reload"} -> Watched
      [] s = "failing" -> Watched \cap DOMAIN LevelRange
      [] OTHER -> {"fmt"}

Reset == [power |-> "off", open |-> FALSE, set |-> Unset]

Init ==
    /\ setup \in Setups
    /\ setting \in SettingsOf(setup)
    /\ tas = [mn_power_state |-> "shutdown", mb_power_up |-> FALSE, mb_mute |-> FALSE,
              dac_mute |-> FALSE, spk |-> Channels, held |-> Unset, putting |-> Unset,
              mn_fmt_mode |-> 0, mn_slots |-> 0, mn_rx_slot_width |-> 0, mn_tx_slot_width |-> 0,
              failsafe |-> FALSE, mn_restart |-> 0,
              chip |-> [c \in Channels |-> Reset], latched |-> [c \in Channels |-> {}],
              irq_enable |-> FALSE, irq_work |-> FALSE, init_work |-> FALSE, dc_work |-> FALSE,
              pc |-> "idle", arg |-> "shutdown",
              \* what the driver is known to leave behind
              lost |-> FALSE, stray |-> FALSE, hushed |-> FALSE, quiet |-> {}, stale |-> {},
              missed |-> FALSE]
    /\ playing = FALSE /\ suspended = FALSE /\ wanted = Unset /\ faults = 0

------------------------------------------------------------------------------
(* Registers *)

(* The channels a power state is for, and those a write to both reaches. *)
Chn(t) == IF t.spk = {} THEN {1} ELSE t.spk
Reach(t) == IF t.spk = {} THEN Channels ELSE t.spk

Chips(t, s, Op(_)) ==
    [t EXCEPT !.chip = [c \in Channels |-> IF c \in s THEN Op(t.chip[c]) ELSE t.chip[c]]]

SetPower(t, s, p) == LET Op(c) == [c EXCEPT !.power = p] IN Chips(t, s, Op)

InterruptClear(t, s) == [t EXCEPT !.latched = [c \in Channels |-> IF c \in s THEN {} ELSE @[c]]]

(* A fault that may be reported pulls the line, whose handler queues the work. *)
Pulled(t) == \E c \in Channels : t.chip[c].open /\ t.latched[c] # {}

Report(t) == [t EXCEPT !.irq_work = @ \/ (t.irq_enable /\ Pulled(t))]

InterruptEnable(t, val, s) ==
    LET Op(c) == [c EXCEPT !.open = val] IN Report(Chips(t, s, Op))

EnableIrq(t, enable) == Report([t EXCEPT !.irq_enable = enable])

(* A setting written to both channels, which one that is switched off misses. *)
WriteBoth(t, k, v) ==
    IF setting # k THEN t
    ELSE LET Op(c) == [c EXCEPT !.set = v]
         IN [Chips(t, Reach(t), Op) EXCEPT !.stale = (@ \ Reach(t)) \cup (Channels \ Reach(t))]

(* Of the controls of a channel, those of the first are watched. *)
WriteLeft(t, k, v) == IF setting = k THEN [t EXCEPT !.chip[1].set = v] ELSE t

------------------------------------------------------------------------------
(* Power *)

SetPowerActive(t) ==
    LET s == Chn(t)
        u == InterruptEnable(InterruptClear(t, s), FALSE, Reach(t))
        v == WriteBoth(u, "iv_enable", 1)
    IN [SetPower(v, s, "on")
          EXCEPT !.mb_power_up = TRUE, !.mn_power_state = "active", !.init_work = TRUE,
                 !.lost = @ \/ setting = "iv_enable",
                 !.quiet = {}, !.hushed = FALSE, !.stray = @ \/ ~playing]

SetPowerMute(t) ==
    [InterruptEnable(SetPower(t, Chn(t), "muted"), FALSE, Chn(t))
       EXCEPT !.mb_power_up = TRUE, !.mn_power_state = "mute"]

\* MUTANT of SetPowerShutdown: a TAS2564 is left as it is.
SetPowerShutdownOne(t) ==
    LET u == SetPower(t, Chn(t) \ Tas2564, "off")
    IN [EnableIrq(InterruptEnable(u, FALSE, Chn(t)), FALSE)
          EXCEPT !.mb_power_up = FALSE, !.mn_power_state = "shutdown", !.stray = FALSE,
                 !.lost = @ \/ setting = "iv_enable"]

(* A TAS2564 is only muted. *)
SetPowerShutdown(t) ==
    LET u == SetPower(SetPower(t, Chn(t) \ Tas2564, "off"), Chn(t) \cap Tas2564, "muted")
    IN [EnableIrq(InterruptEnable(u, FALSE, Chn(t)), FALSE)
          EXCEPT !.mb_power_up = FALSE, !.mn_power_state = "shutdown", !.stray = FALSE,
                 !.lost = @ \/ setting = "iv_enable"]

SetPowerState(t, s) ==
    CASE s = "active" -> IF t.mb_mute THEN SetPowerMute(t) ELSE SetPowerActive(t)
      [] s = "mute" -> SetPowerMute(t)
      [] s = "shutdown" -> SetPowerShutdown(t)

------------------------------------------------------------------------------
(* What a reset forgets and what is written again *)

HwReset(t) ==
    [InterruptClear(t, Channels)
       EXCEPT !.chip = [c \in Channels |-> Reset], !.failsafe = FALSE, !.stray = FALSE,
              !.stale = {}]

SoftwareReset(t) ==
    LET Op(c) == Reset IN InterruptClear(Chips(t, Reach(t), Op), Reach(t))

\* MUTANT of LoadCtrlValues: the controls of the channels are not written again.
LoadCtrlValuesNot(t) == t

(* A value that a control is about to remember is not the one written. *)
LoadCtrlValues(t) ==
    IF setting \in Controls \ {"rx_mode"}
      THEN [WriteLeft(t, setting, t.held) EXCEPT !.lost = @ \/ t.putting # Unset]
      ELSE [t EXCEPT !.lost = @ \/ (setting = "rx_mode" /\ {t.held, t.putting} # {Unset})]

(* Takes the receiver's mode, and a TAS2564's level, for its own. *)
LoadInit(t) ==
    LET own == \/ setting = "reciever_enable"
               \/ setting = "ampoutput_lvl" /\ 1 \in Tas2564
    IN [WriteBoth(IF own THEN WriteLeft(t, setting, Unset) ELSE t, "fmt", t.held)
          EXCEPT !.lost = @ \/ (own /\ t.held # Unset)]

(* The noise thresholds exist for two rates; at another, writing them ends what it is part of. *)
RateKnown(t) == setting = "sample_rate" => t.held \in {Unset, 48000, 96000}

(* The width of the slots is all that is remembered of one with time slots. *)
SetTdmRxSlot(t, w) == WriteBoth(t, "rx_width", IF w = 16 THEN 16 ELSE 24)

SlotsKnown(t) == t.mn_slots >= 4 /\ t.mn_tx_slot_width # 0

LoadFormat(t) ==
    IF t.mn_fmt_mode = 2
      THEN [SetTdmRxSlot(t, t.mn_rx_slot_width)
              EXCEPT !.lost = @ \/ (setting = "rx_width"
                                    /\ t.held # (IF t.mn_rx_slot_width = 16 THEN 16 ELSE 24))]
      ELSE WriteBoth(t, "rx_width", t.held)

SetSamplerate(t) == WriteBoth(t, "sample_rate", t.held)

(* Ends where a step fails: the chips stay off. *)
Ended(t) == [t EXCEPT !.pc = "end", !.lost = TRUE, !.quiet = Channels]

Powering(t) == [t EXCEPT !.pc = "power", !.arg = t.mn_power_state]

(* The power state is shut down when restarting did not help. *)
Failsafe(t) ==
    IF t.mn_restart < RESTART_MAX
      THEN SetPowerState([t EXCEPT !.mn_restart = @ + 1, !.failsafe = TRUE, !.lost = TRUE,
                                   !.pc = "end"], t.mn_power_state)
      ELSE LET off == [SetPower(t, Reach(t), "off")
                         EXCEPT !.mb_power_up = FALSE, !.mn_power_state = "shutdown"]
           IN [SoftwareReset(HwReset(EnableIrq(InterruptEnable(off, FALSE, Reach(t)), FALSE)))
                 EXCEPT !.lost = TRUE, !.hushed = TRUE, !.pc = "end"]

LoadConfig(t, fails) ==
    LET a == SoftwareReset(HwReset(t))
        b == LoadInit(LoadCtrlValues(a))
        c == LoadFormat(WriteBoth(b, "iv_enable", 1))
        d == SetSamplerate(c)
    IN IF fails THEN Failsafe(a)
       ELSE IF ~RateKnown(a) THEN Ended(a)
       ELSE IF t.mn_fmt_mode = 2 /\ ~SlotsKnown(t) THEN Ended(c)
       ELSE Powering(d)

------------------------------------------------------------------------------
(* The interrupt work *)

Others == UNCHANGED <<setup, setting, playing, suspended, wanted, faults>>

(* While suspended, what was reported is not looked at. *)
IrqWorkStarts ==
    LET t == [tas EXCEPT !.irq_work = FALSE]
        u == [t EXCEPT !.irq_enable = FALSE]
        m == [InterruptEnable(u, FALSE, Reach(u)) EXCEPT !.failsafe = FALSE]
        seen == UNION {t.latched[c] : c \in Chn(t)}
    IN /\ tas.irq_work /\ tas.pc = "idle"
       /\ tas' = IF suspended THEN [t EXCEPT !.missed = Pulled(t)]
                 ELSE IF t.failsafe THEN [u EXCEPT !.pc = "config"]
                 ELSE IF t.mn_power_state = "shutdown" THEN EnableIrq(u, TRUE)
                 ELSE IF "error" \in seen THEN Powering(m)
                 ELSE IF \A c \in Chn(t) : t.chip[c].power = "on"
                   THEN EnableIrq(InterruptEnable(m, TRUE, Reach(m)), TRUE)
                 ELSE [m EXCEPT !.pc = "config"]
       /\ Others

IrqReload(fails) ==
    /\ tas.pc = "config" /\ (fails => setup = "failing")
    /\ tas' = LoadConfig(tas, fails)
    /\ Others

(* A stop or a start since the state was read is undone. *)
IrqPower ==
    /\ tas.pc = "power"
    /\ tas' = [SetPowerState(tas, tas.arg)
                 EXCEPT !.pc = "end", !.hushed = tas.arg = "shutdown" /\ (playing \/ @)]
    /\ Others

IrqEnds ==
    /\ tas.pc = "end"
    /\ tas' = [EnableIrq(tas, TRUE) EXCEPT !.pc = "idle", !.arg = "shutdown"]
    /\ Others

(* The algorithm asks for another reset, with the settings written the other way round. *)
DcDetected ==
    /\ setup = "reload" /\ ~tas.dc_work /\ faults < MaxFaults
    /\ tas' = [tas EXCEPT !.dc_work = TRUE] /\ faults' = faults + 1
    /\ UNCHANGED <<setup, setting, playing, suspended, wanted>>

DcWork ==
    LET t == [tas EXCEPT !.dc_work = FALSE, !.irq_enable = FALSE]
        b == LoadCtrlValues(LoadInit(SoftwareReset(t)))
        kept == [b EXCEPT !.lost = t.lost \/ t.putting # Unset
                                     \/ (setting = "rx_mode" /\ t.held # Unset)]
        c == WriteBoth(WriteBoth(kept, "iv_enable", 1), "rx_width", t.held)
    IN /\ tas.dc_work /\ tas.pc = "idle"
       /\ tas' = IF RateKnown(t) THEN Powering(SetSamplerate(c)) ELSE Ended(SoftwareReset(t))
       /\ Others

(* Forgets what was latched since power-up, and with it a chip that turned off; nobody cancels
   it. *)
InitWork ==
    LET t == [tas EXCEPT !.init_work = FALSE,
                         !.quiet = @ \cup {c \in Channels : tas.latched[c] # {}}]
        s == Reach(t)
    IN /\ tas.init_work /\ tas.pc = "idle"
       /\ tas' = EnableIrq(InterruptEnable(InterruptClear(t, s), TRUE, s), TRUE)
       /\ Others

------------------------------------------------------------------------------
(* The stream and the switches of its channels *)

DacPostPmu(t) == IF t.mb_power_up THEN t ELSE SetPowerState(t, "active")

\* MUTANT of DacPrePmd: a stream that ends muted leaves the device as it is.
DacPrePmdActive(t) ==
    IF t.mb_power_up /\ t.mn_power_state = "active" THEN SetPowerState(t, "shutdown") ELSE t

DacPrePmd(t) == IF t.mb_power_up THEN SetPowerState(t, "shutdown") ELSE t

StreamStarts ==
    /\ ~playing /\ playing' = TRUE
    /\ tas' = IF tas.spk = {} THEN [tas EXCEPT !.hushed = TRUE]
              ELSE [DacPostPmu(tas) EXCEPT !.stray = FALSE, !.hushed = FALSE]
    /\ UNCHANGED <<setup, setting, suspended, wanted, faults>>

StreamStops ==
    /\ playing /\ playing' = FALSE
    /\ tas' = IF tas.spk = {} THEN tas ELSE DacPrePmd(tas)
    /\ UNCHANGED <<setup, setting, suspended, wanted, faults>>

(* Switching a channel off stops the DAC of all before the switch is stored, switching one on
   finds the device powered up. *)
CodecWrite(c) ==
    LET off == [(IF playing THEN DacPrePmd(tas) ELSE tas) EXCEPT !.spk = @ \ {c}, !.hushed = TRUE]
        on == [tas EXCEPT !.spk = @ \cup {c}]
    IN /\ setup = "switches"
       /\ tas' = IF c \in tas.spk THEN off
                 ELSE IF playing
                   THEN [DacPostPmu(on) EXCEPT !.quiet = IF on.mb_power_up THEN @ \cup {c} ELSE @,
                                               !.stray = FALSE]
                 ELSE on
       /\ Others

(* Mutes of the device, of the DAC alone and of what activation does. *)
MuteCtrlPut(mute) ==
    /\ setup = "mutes" /\ tas.pc = "idle"
    /\ tas' = SetPowerState(tas, IF mute THEN "mute" ELSE "active")
    /\ Others

DacMuteCtrlPut(mute) ==
    LET t == SetPower(tas, Chn(tas), IF mute THEN "muted" ELSE "on")
    IN /\ setup = "mutes" /\ tas.pc = "idle"
       /\ tas' = [t EXCEPT !.dac_mute = mute, !.stray = @ \/ (~playing /\ ~mute),
                           !.quiet = IF mute THEN @ \cup Chn(tas) ELSE @ \ Chn(tas)]
       /\ Others

SystemMuteCtrlPut ==
    /\ setup = "mutes" /\ tas' = [tas EXCEPT !.mb_mute = ~@] /\ Others

------------------------------------------------------------------------------
(* Settings *)

Inputs(k) == {1, Maximum(k) - 1, Maximum(k)}

(* Writes, then remembers what it wrote; the interrupt work may come between. *)
Put(v) ==
    /\ Resets /\ setting \in Controls /\ tas.putting = Unset
    /\ v \in Inputs(setting) \cap Range[setting]
    /\ tas' = [WriteLeft(tas, setting, v) EXCEPT !.putting = v] /\ wanted' = v
    /\ UNCHANGED <<setup, setting, playing, suspended, faults>>

PutEnds ==
    /\ tas.putting # Unset
    /\ tas' = [tas EXCEPT !.held = tas.putting, !.putting = Unset,
                          !.lost = @ /\ tas.chip[1].set # tas.putting]
    /\ Others

Set(t, k, v) == [WriteBoth(t, k, v) EXCEPT !.held = IF setting = k THEN v ELSE @,
                                           !.lost = @ /\ setting # k]

Ready == (Resets \/ setup = "switches") /\ ~playing /\ tas.pc = "idle"

SetDaiFmt ==
    /\ Ready /\ setting = "fmt"
    /\ \E fmt \in {0, 1} : tas' = Set(tas, "fmt", fmt) /\ wanted' = fmt
    /\ UNCHANGED <<setup, setting, playing, suspended, faults>>

(* A stream of more than two channels has time slots. *)
Streamed(mode, w, slots) ==
    [tas EXCEPT !.mn_fmt_mode = mode,
                !.mn_rx_slot_width = IF mode = 2 THEN w ELSE IF w = 24 THEN 32 ELSE 16,
                !.mn_slots = IF mode = 2 THEN slots ELSE @]

Width(mode, w) == IF mode = 2 /\ w = 32 THEN 24 ELSE w

HwParamsPlayback ==
    /\ Ready /\ setting \in {"rx_width", "sample_rate"}
    /\ \E mode \in {1, 2}, w \in {16, 24, 32}, slots \in {3, 4}, rate \in {44100, 48000, 96000} :
         /\ setting = "rx_width" => rate = 48000
         /\ setting = "sample_rate" => mode = 1 /\ w = 16
         /\ mode = 1 => slots = 4
         /\ tas' = Set(Set(Streamed(mode, w, slots), "rx_width", Width(mode, w)),
                       "sample_rate", rate)
         /\ wanted' = IF setting = "rx_width" THEN Width(mode, w) ELSE rate
    /\ UNCHANGED <<setup, setting, playing, suspended, faults>>

HwParamsCapture ==
    /\ Resets /\ tas.pc = "idle" /\ setting = "rx_width"
    /\ \E mode \in {1, 2} :
         tas' = [tas EXCEPT !.mn_fmt_mode = mode, !.mn_tx_slot_width = 16,
                            !.mn_slots = IF mode = 2 THEN 4 ELSE @]
    /\ Others

IvPut ==
    /\ Resets /\ setting = "iv_enable"
    /\ \E v \in {0, 1} : tas' = Set(tas, "iv_enable", v) /\ wanted' = v
    /\ UNCHANGED <<setup, setting, playing, suspended, faults>>

------------------------------------------------------------------------------
(* Suspension and the chips *)

Suspend ==
    /\ setup = "suspend" /\ ~suspended /\ tas.pc = "idle" /\ suspended' = TRUE
    /\ tas' = [tas EXCEPT !.irq_work = FALSE, !.missed = @ \/ tas.irq_work]
    /\ UNCHANGED <<setup, setting, playing, wanted, faults>>

Resume ==
    /\ suspended /\ suspended' = FALSE
    /\ UNCHANGED <<setup, setting, tas, playing, wanted, faults>>

(* Errors a reset may cure; others only raise the line, or are of a chip that turned off. *)
Fault(c, k) ==
    /\ setup \in {"faults", "failing", "suspend"} /\ faults < MaxFaults
    /\ tas.chip[c].power # "off" /\ k \notin tas.latched[c]
    /\ LET t == [tas EXCEPT !.latched[c] = @ \cup {k}, !.missed = FALSE]
       IN tas' = Report(IF k = "off" THEN SetPower(t, {c}, "off") ELSE t)
    /\ faults' = faults + 1
    /\ UNCHANGED <<setup, setting, playing, suspended, wanted>>

Next ==
    \/ IrqWorkStarts \/ IrqPower \/ IrqEnds \/ DcDetected \/ DcWork \/ InitWork
    \/ StreamStarts \/ StreamStops \/ SystemMuteCtrlPut \/ PutEnds \/ SetDaiFmt
    \/ HwParamsPlayback \/ HwParamsCapture \/ IvPut \/ Suspend \/ Resume
    \/ \E b \in BOOLEAN : IrqReload(b) \/ MuteCtrlPut(b) \/ DacMuteCtrlPut(b)
    \/ \E c \in Channels : CodecWrite(c) \/ \E k \in {"error", "off"} : Fault(c, k)
    \/ \E v \in (IF setting \in Controls THEN Inputs(setting) ELSE {}) : Put(v)

Spec == Init /\ [][Next]_vars

------------------------------------------------------------------------------
TypeOK ==
    /\ setup \in Setups /\ setting \in Settings /\ playing \in BOOLEAN /\ suspended \in BOOLEAN
    /\ faults \in 0..MaxFaults /\ tas.spk \subseteq Channels /\ tas.mn_restart \in 0..RESTART_MAX
    /\ tas.mn_power_state \in {"active", "mute", "shutdown"}
    /\ tas.pc \in {"idle", "config", "power", "end"}
    /\ \A c \in Channels :
         /\ tas.chip[c].power \in {"off", "on", "muted"} /\ tas.chip[c].open \in BOOLEAN
         /\ tas.latched[c] \subseteq {"error", "off"}

(* Without a stream no chip is on, but one that was unmuted without a stream or turned on by an
   interrupt whose work had read the state before the stream ended. *)
Silent ==
    ~playing /\ ~tas.stray => \A c \in Channels : tas.chip[c].power # "on"

(* While a stream plays the device is not shut down, and a channel that is switched on sounds
   or its fault is being handled. *)
Sounding ==
    playing /\ tas.spk # {} /\ ~tas.hushed =>
      /\ tas.mn_power_state # "shutdown"
      /\ tas.mn_power_state = "active" =>
           \A c \in tas.spk \ tas.quiet :
             tas.chip[c].power = "on" \/ tas.latched[c] # {} \/ tas.pc # "idle"

(* A chip that is on has what was last set, whatever resets it went through. *)
Kept ==
    ~tas.lost /\ tas.pc = "idle" /\ tas.mn_power_state = "active" =>
      \A c \in (IF setting \in Controls THEN {1} ELSE Channels) \ tas.stale :
        tas.chip[c].power = "on" => tas.chip[c].set = wanted

(* A fault a playing chip may report is going to be looked at. *)
Heard ==
    tas.mn_power_state = "active" /\ ~tas.missed /\ Pulled(tas) =>
      tas.irq_work \/ tas.init_work \/ tas.pc # "idle"

SmartAmpSound == Silent /\ Sounding /\ Kept /\ Heard
==============================================================================
