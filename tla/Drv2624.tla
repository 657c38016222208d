------------------------------- MODULE Drv2624 -------------------------------
(***************************************************************************)
(* The haptic driver of the DRV2624: an LED class device whose brightness   *)
(* queues a start or a stop on an ordered work queue, an interrupt whose    *)
(* work is on another one, a wake lock held while the motor runs, the low-  *)
(* power trigger set up by suspend, and attributes over a register cache.   *)
(*                                                                          *)
(* A register that is not volatile is read from the cache.                  *)
(***************************************************************************)
EXTENDS Integers, Sequences

CONSTANTS
    Setups,             \* what happens: "calm": starts and stops in real-time playback, and
                        \* nothing fails; "attributes": these, resets and any attribute;
                        \* "any": everything, beside one attribute
    Inputs,             \* values written to an attribute
    MaxDepth            \* bound: how often the interrupt line is disabled

DrvAssumption ==
    /\ Setups \subseteq {"calm", "attributes", "any"}
    /\ Inputs \subseteq Int /\ MaxDepth \in Nat \ {0}

VARIABLES
    setup,
    attr,               \* the attribute user space stores in this behaviour
    vibrator_playing, work_mode,
    snapshot,           \* work_mode when the start let the motor go
    awake,              \* pm_stay_awake, pm_relax
    depth,              \* kernel: how often the line is disabled
    wq,                 \* drv2624_wq: works pending
    wq_pc,              \* "idle", or haptics_work holds the lock: "set" before GO, "go" after
    vibrator_work,      \* pending on the system's work queue
    trigger_pc,         \* where drv2624_lp_trigger_enable is
    lp_trigger_effect,
    cache,              \* regmap: registers that are not volatile
    chip,               \* chip: its registers
    wanted,             \* what user space last stored in the attribute
    brightness,         \* what user space last asked the LED for
    unanswered          \* history: the motor may run and no stop will see it: GO did not clear
                        \* while a stop polled it, or a start crossed the trigger's stop

vars == <<setup, attr, vibrator_playing, work_mode, snapshot, awake, depth, wq, wq_pc,
          vibrator_work, trigger_pc, lp_trigger_effect, cache, chip, wanted, brightness, unanswered>>

Modes == {"rtp", "waveform", "diag", "autocal"}
Bits == {"WORK_VIBRATOR", "WORK_IRQ"}

(* drv2624_is_volatile_reg: the others are cached, STATUS among them. *)
Volatile == {"GO", "LRA_PERIOD", "LOOP_CONTROL", "DIAG", "CAL_COMP", "CAL_BEMF", "RAM"}

(* MUTANT of Register: calibration is taken for cached. *)
RegisterCached(a) == IF a = "autocal" THEN "OL_PERIOD" ELSE "SETTING"

(* Attributes whose store function writes one register, or bits of one. *)
Register(a) == IF a = "autocal" THEN "CAL_COMP" ELSE "SETTING"

Clamp(v, low, high) == IF v < low THEN low ELSE IF v > high THEN high ELSE v

(* What the store functions write, -9 where they reject the value. *)
RtpInput(v) == IF v \in -128 .. 127 THEN v ELSE -9
Loop(v) == LET loop == Clamp(v, -1, 7) IN IF loop = -1 THEN 7 ELSE loop
Interval(v) == Clamp(v, 0, 1)
Scale(v) == Clamp(v, 0, 3)
CtrlLoop(v) == Clamp(v, 0, 1)
OdClamp(v) == IF v \in 0 .. 255 THEN v ELSE -9
Autocal(v) == IF v < 0 THEN -9 ELSE v % 256
OlLraPeriod(v) == IF v < 0 THEN -9 ELSE (((v \div 256) % 4) * 256) + (v % 256)
LraWaveShape(v) == IF v < 0 THEN -9 ELSE v % 2

Stored(a, v) ==
    CASE a = "rtp_input" -> RtpInput(v)
      [] a = "loop" -> Loop(v)
      [] a = "interval" -> Interval(v)
      [] a = "scale" -> Scale(v)
      [] a = "ctrl_loop" -> CtrlLoop(v)
      [] a = "od_clamp" -> OdClamp(v)
      [] a = "autocal" -> Autocal(v)
      [] a = "ol_lra_period" -> OlLraPeriod(v)
      [] a = "lra_wave_shape" -> LraWaveShape(v)

Attributes == {"rtp_input", "loop", "interval", "scale", "ctrl_loop", "od_clamp", "autocal",
               "ol_lra_period", "lra_wave_shape"}

(* A chip that was reset, and the cache after dev_init_platform_data: the pin is an
   interrupt, the settings are the device tree's. *)
RegDefaults == [mode |-> "rtp", pin |-> "level", setting |-> -10, go |-> FALSE, mask |-> TRUE]
Configured == [mode |-> "rtp", pin |-> "int", setting |-> 0, mask |-> TRUE]

ChipState == [mode : Modes, pin : {"int", "level", "pulse"}, setting : Int, go : BOOLEAN,
              mask : BOOLEAN]

CacheState == [mode : Modes, pin : {"int", "level", "pulse"}, setting : Int, mask : BOOLEAN]

TypeOK ==
    /\ setup \in Setups /\ attr \in Attributes
    /\ vibrator_playing \in BOOLEAN /\ awake \in BOOLEAN
    /\ work_mode \subseteq Bits /\ snapshot \subseteq Bits
    /\ depth \in Nat /\ depth <= MaxDepth
    /\ wq \in {<<>>, <<"work">>, <<"stop">>, <<"work", "stop">>, <<"stop", "work">>}
    /\ wq_pc \in {"idle", "set", "go"} /\ vibrator_work \in BOOLEAN /\ unanswered \in BOOLEAN
    /\ trigger_pc \in {"idle", "stop", "go", "poll", "setup"} /\ lp_trigger_effect \in BOOLEAN
    /\ chip \in ChipState /\ cache \in CacheState /\ wanted \in Int /\ brightness \in {"off", "full"}

Init ==
    /\ setup \in Setups
    /\ attr \in (IF setup = "attributes" THEN Attributes ELSE {"ctrl_loop"})
    /\ vibrator_playing = FALSE /\ work_mode = {} /\ snapshot = {} /\ awake = FALSE
    /\ depth = 1 /\ wq = <<>> /\ wq_pc = "idle" /\ vibrator_work = FALSE
    /\ trigger_pc = "idle" /\ lp_trigger_effect \in (IF setup = "any" THEN BOOLEAN ELSE {FALSE})
    /\ cache = Configured /\ wanted = 0 /\ brightness = "off" /\ unanswered = FALSE
    /\ chip = [mode |-> "rtp", pin |-> "int", setting |-> 0, go |-> FALSE, mask |-> TRUE]

Faulty == setup # "calm"
Unlocked == wq_pc = "idle"

--------------------------------------------------------------------------------
(* drv2624_reset: a pulse of the line, then regcache_sync. *)
ResetChip(c) == [RegDefaults EXCEPT !.mode = c.mode, !.pin = c.pin, !.mask = c.mask,
                    !.setting = IF Register(attr) = "SETTING" THEN c.setting ELSE -10]

(* MUTANT of Stopped: the motor is left running. *)
StoppedNot(c, k) == {k}

(* drv2624_set_go_bit(STOP): retried, and confirmed by polling; in the end the chip
   is reset, or the poll gives up on a GO bit that stays set. *)
Stopped(c, k) ==
    {[k EXCEPT !.go = FALSE]} \cup (IF Faulty THEN {ResetChip(c), k} ELSE {})

(* MUTANT of Ignored: the modes are confused. *)
IgnoredOthers == cache.mode # "waveform"

(* A sequence is left to end by itself. *)
Ignored == cache.mode = "waveform"

DisableIrq(d) == IF d < MaxDepth THEN d + 1 ELSE d

(* MUTANT of EnableIrq: as if the kernel did not refuse. *)
EnableIrqAgain(d) == d - 1

(* enable_irq beside a line that is enabled is refused by the kernel. *)
EnableIrq(d) == IF d > 0 THEN d - 1 ELSE d

(* The poll gave up, and the motor runs on. *)
TimedOut(k) == Faulty /\ k.go

Stops == vibrator_playing /\ ~Ignored

(* drv2624_disable_irq, in drv2624_stop *)
Masked == [chip EXCEPT !.mask = TRUE]

(* drv2624_stop under the lock: the motor is given up on whether it obeys or not. *)
Stop ==
    IF Stops
    THEN /\ depth' = DisableIrq(depth)
         /\ cache' = [cache EXCEPT !.mask = TRUE]
         /\ chip' \in Stopped(cache', Masked)
         /\ work_mode' = {} /\ vibrator_playing' = FALSE /\ awake' = FALSE
         /\ unanswered' = TimedOut(chip')
    ELSE UNCHANGED <<depth, cache, chip, work_mode, vibrator_playing, awake, unanswered>>

(* vibrator_enable: each work is pending once. *)
VibratorEnable ==
    /\ \E value \in {"off", "full"} :
         LET work == IF value = "off" THEN "stop" ELSE "work" IN
         /\ brightness' = value
         /\ wq' = IF \E i \in DOMAIN wq : wq[i] = work THEN wq ELSE Append(wq, work)
    /\ UNCHANGED <<setup, attr, vibrator_playing, work_mode, snapshot, awake, depth, wq_pc,
                   vibrator_work, trigger_pc, lp_trigger_effect, cache, chip, wanted, unanswered>>

HapticsStopwork ==
    /\ Unlocked /\ wq # <<>> /\ Head(wq) = "stop"
    /\ Stop
    /\ wq' = Tail(wq)
    /\ UNCHANGED <<setup, attr, snapshot, wq_pc, vibrator_work, trigger_pc, lp_trigger_effect,
                   wanted, brightness>>

(* drv2624_haptics_work up to the GO bit: a stop, then the line is enabled ... *)
HapticsWork ==
    /\ Unlocked /\ wq # <<>> /\ Head(wq) = "work"
    /\ depth' = EnableIrq(IF Stops THEN DisableIrq(depth) ELSE depth)
    /\ \E k \in (IF Stops THEN Stopped([cache EXCEPT !.mask = TRUE], Masked) ELSE {chip}) :
         chip' = [k EXCEPT !.mask = FALSE]
    /\ cache' = [cache EXCEPT !.mask = FALSE]
    /\ work_mode' = IF Stops THEN {} ELSE work_mode
    /\ vibrator_playing' = TRUE /\ awake' = TRUE /\ unanswered' = FALSE
    /\ wq_pc' = "set" /\ wq' = Tail(wq)
    /\ UNCHANGED <<setup, attr, snapshot, vibrator_work, trigger_pc, lp_trigger_effect, wanted,
                   brightness>>

(* ... and the motor let go, whatever the trigger did meanwhile; or that fails in the end,
   and the chip is reset.  A GO bit between the trigger's and the end of its poll crosses
   that stop. *)
HapticsWorkGo ==
    /\ wq_pc = "set"
    /\ \/ /\ chip' = [chip EXCEPT !.go = TRUE]
          /\ unanswered' = (unanswered \/ trigger_pc = "poll")
          /\ snapshot' = work_mode /\ wq_pc' = "go"
          /\ UNCHANGED <<depth, cache, vibrator_playing, awake>>
       \/ /\ Faulty
          /\ chip' = [ResetChip(cache) EXCEPT !.mask = TRUE]
          /\ cache' = [cache EXCEPT !.mask = TRUE] /\ depth' = DisableIrq(depth)
          /\ vibrator_playing' = FALSE /\ awake' = FALSE /\ unanswered' = FALSE
          /\ wq_pc' = "idle" /\ UNCHANGED snapshot
    /\ UNCHANGED <<setup, attr, work_mode, wq, vibrator_work, trigger_pc, lp_trigger_effect,
                   wanted, brightness>>

(* The rest of it.  work_mode is also written by the interrupt handler and the trigger,
   without the lock: what came between may be lost. *)
HapticsWorkEnd ==
    /\ wq_pc = "go" /\ wq_pc' = "idle"
    /\ \E seen \in {snapshot, work_mode} : work_mode' = seen \cup {"WORK_VIBRATOR"}
    /\ snapshot' = {}
    /\ UNCHANGED <<setup, attr, vibrator_playing, awake, depth, wq, vibrator_work, trigger_pc,
                   lp_trigger_effect, cache, chip, wanted, brightness, unanswered>>

(* drv2624_irq_handler *)
IrqHandler == work_mode' = work_mode \cup {"WORK_IRQ"} /\ vibrator_work' = TRUE

(* The chip sees its sequence, or the brake after a stop, to an end, or reports an error:
   the pin falls. *)
ChipInterrupts ==
    /\ chip.go /\ setup = "any"
    /\ \E done \in BOOLEAN :
         /\ done => chip.mode # "rtp" \/ unanswered
         /\ chip' = [chip EXCEPT !.go = ~done]
    /\ IF ~chip.mask /\ chip.pin = "int" /\ depth = 0
       THEN IrqHandler
       ELSE UNCHANGED <<work_mode, vibrator_work>>
    /\ UNCHANGED <<setup, attr, vibrator_playing, snapshot, awake, depth, wq, wq_pc, trigger_pc,
                   lp_trigger_effect, cache, wanted, brightness, unanswered>>

(* regmap_read of STATUS: not what the chip reports, but the cache's default, for it is not
   volatile. *)
Status == IF "STATUS" \in Volatile THEN {"PROCESS_DONE"} ELSE {}

(* vibrator_work_routine *)
VibratorWorkRoutine ==
    /\ Unlocked /\ vibrator_work /\ vibrator_work' = FALSE
    /\ LET irq == "WORK_IRQ" \in work_mode
           relax == irq /\ "PROCESS_DONE" \in Status /\ cache.mode # "rtp"
           plays == vibrator_playing /\ ~relax
           stops == "WORK_VIBRATOR" \in work_mode /\ plays /\ ~Ignored
           once == IF irq THEN DisableIrq(depth) ELSE depth
           masked == IF irq THEN Masked ELSE chip IN
       /\ depth' = IF stops THEN DisableIrq(once) ELSE once
       /\ cache' = [cache EXCEPT !.mask = @ \/ irq \/ stops]
       /\ chip' \in IF stops THEN Stopped(cache', Masked) ELSE {masked}
       /\ vibrator_playing' = (plays /\ ~stops)
       /\ awake' = (awake /\ (relax => ~vibrator_playing) /\ ~stops)
       /\ unanswered' = IF stops THEN TimedOut(chip') ELSE unanswered
       /\ work_mode' = {}
    /\ UNCHANGED <<setup, attr, snapshot, wq, wq_pc, trigger_pc, lp_trigger_effect, wanted,
                   brightness>>

--------------------------------------------------------------------------------
(* drv2624_suspend and lp_trigger_enable_store: drv2624_lp_trigger_enable takes no lock.
   Works are cancelled, or waited for. *)
TriggerCancel ==
    /\ setup = "any" /\ trigger_pc = "idle" /\ wq_pc = "idle"
    /\ wq' = <<>> /\ vibrator_work' = FALSE /\ trigger_pc' = "stop"
    /\ UNCHANGED <<setup, attr, vibrator_playing, work_mode, snapshot, awake, depth, wq_pc,
                   lp_trigger_effect, cache, chip, wanted, brightness, unanswered>>

(* drv2624_stop without the lock: it looks whether the motor runs, ... *)
TriggerStop ==
    /\ trigger_pc = "stop"
    /\ IF Stops
       THEN /\ depth' = DisableIrq(depth)
            /\ cache' = [cache EXCEPT !.mask = TRUE] /\ chip' = Masked
            /\ trigger_pc' = "go"
       ELSE /\ trigger_pc' = IF lp_trigger_effect THEN "setup" ELSE "idle"
            /\ UNCHANGED <<depth, cache, chip>>
    /\ UNCHANGED <<setup, attr, vibrator_playing, work_mode, snapshot, awake, wq, wq_pc,
                   vibrator_work, lp_trigger_effect, wanted, brightness, unanswered>>

(* ... stops it and sleeps while it polls, ... *)
TriggerStopGo ==
    /\ trigger_pc = "go" /\ trigger_pc' = "poll"
    /\ chip' \in Stopped(cache, chip)
    /\ unanswered' = (unanswered \/ TimedOut(chip'))
    /\ UNCHANGED <<setup, attr, vibrator_playing, work_mode, snapshot, awake, depth, wq, wq_pc,
                   vibrator_work, lp_trigger_effect, cache, wanted, brightness>>

(* ... and takes the motor for stopped, also one that a start let go meanwhile, or is about
   to let go. *)
TriggerStopEnd ==
    /\ trigger_pc = "poll"
    /\ work_mode' = {} /\ vibrator_playing' = FALSE /\ awake' = FALSE
    /\ unanswered' = (unanswered \/ wq_pc = "set")
    /\ trigger_pc' = IF lp_trigger_effect THEN "setup" ELSE "idle"
    /\ UNCHANGED <<setup, attr, snapshot, depth, wq, wq_pc, vibrator_work, lp_trigger_effect,
                   cache, chip, wanted, brightness>>

(* Waveform, mode, loop, scale and the function of the pin. *)
TriggerSetup ==
    /\ trigger_pc = "setup" /\ trigger_pc' = "idle"
    /\ LET set == IF attr \in {"scale", "ctrl_loop"} THEN 0 ELSE cache.setting IN
       /\ cache' = [cache EXCEPT !.mode = "waveform", !.pin = "pulse", !.setting = set]
       /\ chip' = [chip EXCEPT !.mode = "waveform", !.pin = "pulse",
                                !.setting = IF attr \in {"scale", "ctrl_loop"} THEN 0 ELSE @]
       /\ wanted' = IF attr \in {"scale", "ctrl_loop"} THEN 0 ELSE wanted
    /\ UNCHANGED <<setup, attr, vibrator_playing, work_mode, snapshot, awake, depth, wq, wq_pc,
                   vibrator_work, lp_trigger_effect, brightness, unanswered>>

(* drv2624_resume: the pin is an interrupt again; the mode stays as it is. *)
TriggerDisable ==
    /\ setup = "any" /\ trigger_pc = "idle"
    /\ cache' = [cache EXCEPT !.pin = "int"] /\ chip' = [chip EXCEPT !.pin = "int"]
    /\ UNCHANGED <<setup, attr, vibrator_playing, work_mode, snapshot, awake, depth, wq, wq_pc,
                   vibrator_work, trigger_pc, lp_trigger_effect, wanted, brightness, unanswered>>

(* mode_store: other names are ignored.  A register that has the value already is not
   written. *)
ModeStore ==
    /\ setup = "any" /\ Unlocked
    /\ \E m \in Modes :
         /\ cache' = [cache EXCEPT !.mode = m]
         /\ chip' = IF m = cache.mode THEN chip ELSE [chip EXCEPT !.mode = m]
    /\ UNCHANGED <<setup, attr, vibrator_playing, work_mode, snapshot, awake, depth, wq, wq_pc,
                   vibrator_work, trigger_pc, lp_trigger_effect, wanted, brightness, unanswered>>

AttributeStore ==
    /\ Unlocked /\ trigger_pc = "idle"
    /\ \E v \in Inputs :
         LET stored == Stored(attr, v) IN
         /\ stored # -9
         /\ wanted' = stored
         /\ chip' = [chip EXCEPT !.setting = stored]
         /\ cache' = IF Register(attr) = "SETTING" THEN [cache EXCEPT !.setting = stored]
                     ELSE cache
    /\ UNCHANGED <<setup, attr, vibrator_playing, work_mode, snapshot, awake, depth, wq, wq_pc,
                   vibrator_work, trigger_pc, lp_trigger_effect, brightness, unanswered>>

Next ==
    \/ VibratorEnable \/ HapticsStopwork \/ HapticsWork \/ HapticsWorkGo \/ HapticsWorkEnd
    \/ ChipInterrupts \/ VibratorWorkRoutine
    \/ TriggerCancel \/ TriggerStop \/ TriggerStopGo \/ TriggerStopEnd \/ TriggerSetup
    \/ TriggerDisable
    \/ ModeStore \/ AttributeStore

Wq == HapticsStopwork \/ HapticsWork \/ HapticsWorkGo \/ HapticsWorkEnd

--------------------------------------------------------------------------------
(* The wake lock is held while the motor runs, whichever of the works, the interrupt or the
   attributes came between: a stop that is ignored keeps it, one that is carried out stops
   the motor before it gives it back.  Two things alone break this, until the next start:
   a stop whose poll of GO times out, and the trigger's stop, which takes no lock, when a
   start crosses it between its GO bit and its end. *)
AwakeWhileDriving == chip.go /\ ~unanswered => vibrator_playing /\ awake

(* A setting outlives the resets by which the driver ends what it cannot stop; but
   calibration, in volatile registers, is lost. *)
SettingKept == attr # "autocal" => chip.setting = wanted

(* A stop is carried out, unless a start is asked for after it, or was pending behind the
   stop already: then the stop is not queued once more, and the motor runs. *)
OffStops ==
    (setup = "calm" /\ wq \in {<<"stop">>, <<"work", "stop">>})
        ~> (~chip.go \/ brightness = "full")
==============================================================================
