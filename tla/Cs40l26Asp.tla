------------------------------ MODULE Cs40l26Asp ------------------------------
(***************************************************************************)
(* Streaming audio through the CS40L26's serial port (ASP) while haptic    *)
(* effects interrupt it: the codec's power-up and power-down of the clock, *)
(* which takes the driver's lock only in places; the interrupt thread that *)
(* restarts the stream when an effect completes; the PLL whose loop is     *)
(* opened and closed around a change of clock; and the gain that is scaled *)
(* while audio streams.  Effects are started by pads or by the mailbox at  *)
(* any time; the firmware reports all of them.  The chip is not revision B2. *)
(***************************************************************************)
EXTENDS Integers, Sequences, SequencesExt

CONSTANTS
    Gains,              \* gains, in percent, that user space sets
    AspScale,           \* asp_scale_pct
    MaxRing             \* messages the DSP has outstanding at most

FullScale == 100        \* CS40L26_GAIN_FULL_SCALE

AspAssumption ==
    /\ Gains \subseteq 0 .. FullScale
    /\ AspScale \in 0 .. FullScale
    /\ MaxRing \in Nat

VARIABLES
    haptics,            \* effects are played; chosen once
    effects_in_flight,  \* effects the driver believes are playing
    asp_enable,         \* audio is meant to stream
    vibe_state,         \* what sysfs reports
    refclk_input,       \* the PLL loop the driver means to restore
    i2s_cont,           \* completion: it was completed and not consumed
    gain_pct,           \* the gain in use, scaled or not
    gain_tmp,           \* the gain before it was scaled
    scaling_applied,    \* gain_pct is scaled
    gain_work,          \* set_gain_work is pending
    irq,                \* the interrupt thread drains the ring
    audio,              \* how far the codec is in powering the stream
    pll,                \* chip: the PLL's loop
    refclk,             \* chip: the PLL's reference clock
    attn,               \* chip: the gain SOURCE_ATTENUATION stands for
    ring,               \* DSP: messages not yet read
    playing,            \* DSP: an effect plays
    i2s,                \* DSP: its I2S stream
    user_gain,          \* the gain user space set last
    set_calmly          \* and it did so while no audio was powered

state == <<effects_in_flight, asp_enable, vibe_state>>
gain == <<gain_pct, gain_tmp, scaling_applied, gain_work>>
stream == <<refclk_input, i2s_cont>>
clock == <<pll, refclk>>
dsp == <<ring, playing, i2s>>
user == <<haptics, user_gain, set_calmly>>
vars == <<state, gain, stream, irq, audio, clock, attn, dsp, user>>

Messages == {"TRIGGER", "COMPLETE", "TRIGGER_I2S", "COMPLETE_I2S"}
Loops == {"open", "closed"}

(* The places where the codec's power sequence gives other threads a turn. *)
UpSteps == {"starting", "up_open", "up_clocked"}
DownSteps == {"stopped", "down_open", "down_clocked", "down_closed"}

TypeOK ==
    /\ effects_in_flight \in Nat
    /\ asp_enable \in BOOLEAN /\ scaling_applied \in BOOLEAN
    /\ haptics \in BOOLEAN /\ set_calmly \in BOOLEAN
    /\ gain_work \in BOOLEAN /\ irq \in BOOLEAN /\ playing \in BOOLEAN
    /\ vibe_state \in {"STOPPED", "HAPTIC", "ASP"}
    /\ refclk_input \in Loops /\ pll \in Loops
    /\ refclk \in {"MCLK", "BCLK"}
    /\ i2s_cont \in BOOLEAN
    /\ {gain_pct, gain_tmp, attn, user_gain} \subseteq 0 .. FullScale
    /\ audio \in {"off", "on"} \cup UpSteps \cup DownSteps
    /\ ring \in Seq(Messages)
    /\ i2s \in {"off", "starting", "on"}

Init ==
    /\ haptics \in BOOLEAN /\ set_calmly = TRUE
    /\ effects_in_flight = 0 /\ asp_enable = FALSE /\ vibe_state = "STOPPED"
    /\ refclk_input = "closed" /\ i2s_cont = FALSE
    /\ gain_pct = FullScale /\ gain_tmp = FullScale
    /\ scaling_applied = FALSE /\ gain_work = FALSE
    /\ irq = FALSE
    /\ audio = "off" /\ pll = "open" /\ refclk = "MCLK"
    /\ attn = FullScale /\ user_gain = FullScale
    /\ ring = <<>> /\ playing = FALSE /\ i2s = "off"

Scaled(g) == (AspScale * g) \div FullScale

--------------------------------------------------------------------------------
(* The DSP. *)

Room(n) == Len(ring) + n <= MaxRing

(* An effect displaces the one that plays, or interrupts the stream. *)
DspPlay ==
    /\ haptics /\ Room(4)
    /\ ring' = ring \o (IF playing THEN <<"COMPLETE">> ELSE <<>>)
                    \o (IF i2s = "on" THEN <<"COMPLETE_I2S">> ELSE <<>>)
                    \o <<"TRIGGER">>
    /\ playing' = TRUE
    /\ i2s' = IF i2s = "on" THEN "off" ELSE i2s
    /\ UNCHANGED <<state, gain, stream, irq, audio, clock, attn, user>>

DspComplete ==
    /\ playing /\ Room(1)
    /\ ring' = Append(ring, "COMPLETE")
    /\ playing' = FALSE
    /\ UNCHANGED <<state, gain, stream, irq, audio, clock, attn, i2s, user>>

(* The stream starts once nothing plays. *)
DspStartsI2s ==
    /\ i2s = "starting" /\ ~playing /\ Room(1)
    /\ ring' = Append(ring, "TRIGGER_I2S")
    /\ i2s' = "on"
    /\ UNCHANGED <<state, gain, stream, irq, audio, clock, attn, playing, user>>

--------------------------------------------------------------------------------
(* What the driver's functions do to the gain, the stream and the state. *)

(* cs40l26_remove_asp_scaling *)
RemoveAspScaling ==
    IF AspScale >= FullScale \/ ~scaling_applied
    THEN UNCHANGED gain
    ELSE /\ gain_pct' = gain_tmp
         /\ scaling_applied' = FALSE
         /\ gain_work' = TRUE
         /\ UNCHANGED gain_tmp

(* cs40l26_asp_start; the commands STOP_PLAYBACK and START_I2S reach the DSP,
   which completes an effect it was told to stop in its own time and starts
   the stream afresh. *)
AspStart ==
    /\ gain_work' = (gain_work \/ AspScale < FullScale)
    /\ UNCHANGED <<gain_pct, gain_tmp, scaling_applied>>
    /\ i2s_cont' = FALSE
    /\ refclk_input' = pll
    /\ i2s' = "starting"

VibeState(n, asp) ==
    IF n > 0 THEN "HAPTIC" ELSE IF asp THEN "ASP" ELSE "STOPPED"

(* The part of cs40l26_vibe_state_update after its switch. *)
UpdateState(n, asp) ==
    /\ effects_in_flight' = n
    /\ asp_enable' = asp
    /\ vibe_state' = VibeState(n, asp)

--------------------------------------------------------------------------------
(* The codec's power sequence: cs40l26_clk_en, cs40l26_asp_rx. *)

ClkUp ==
    /\ audio = "off" /\ ~irq
    /\ UpdateState(effects_in_flight, TRUE)
    /\ AspStart
    /\ audio' = "starting"
    /\ UNCHANGED <<irq, clock, attn, ring, playing, user>>

(* The wait, for which a completion that came first is not consumed, ends with
   the completion or with its timer, and the loop is opened to change the clock. *)
ClkUpOpens ==
    /\ audio = "starting"
    /\ i2s_cont' \in {i2s_cont, FALSE}
    /\ pll' = "open"
    /\ audio' = "up_open"
    /\ UNCHANGED <<state, gain, refclk_input, irq, refclk, attn, dsp, user>>

ClkUpSwaps ==
    /\ audio = "up_open"
    /\ refclk' = "BCLK"
    /\ audio' = "up_clocked"
    /\ UNCHANGED <<state, gain, stream, irq, pll, attn, dsp, user>>

ClkUpCloses ==
    /\ audio = "up_clocked"
    /\ pll' = "closed"
    /\ audio' = "on"
    /\ UNCHANGED <<state, gain, stream, irq, refclk, attn, dsp, user>>

(* cs40l26_asp_rx, on the way down: STOP_I2S. *)
AspRxDown ==
    /\ audio = "on" /\ ~irq /\ Room(1)
    /\ ring' = IF i2s = "on" THEN Append(ring, "COMPLETE_I2S") ELSE ring
    /\ i2s' = "off"
    /\ audio' = "stopped"
    /\ UNCHANGED <<state, gain, stream, irq, clock, attn, playing, user>>

ClkDownOpens ==
    /\ audio = "stopped"
    /\ pll' = "open"
    /\ audio' = "down_open"
    /\ UNCHANGED <<state, gain, stream, irq, refclk, attn, dsp, user>>

ClkDownSwaps ==
    /\ audio = "down_open"
    /\ refclk' = "MCLK"
    /\ audio' = "down_clocked"
    /\ UNCHANGED <<state, gain, stream, irq, pll, attn, dsp, user>>

ClkDownCloses ==
    /\ audio = "down_clocked"
    /\ pll' = "closed"
    /\ audio' = "down_closed"
    /\ UNCHANGED <<state, gain, stream, irq, refclk, attn, dsp, user>>

(* MUTANT of ClkDown: the loop stays as the change of clock left it. *)
ClkDownUnrestored ==
    /\ audio = "down_closed" /\ ~irq
    /\ RemoveAspScaling
    /\ UpdateState(effects_in_flight, FALSE)
    /\ audio' = "off"
    /\ UNCHANGED <<stream, irq, clock, attn, dsp, user>>

(* MUTANT of ClkDown: the gain stays scaled. *)
ClkDownScaled ==
    /\ audio = "down_closed" /\ ~irq
    /\ pll' = refclk_input
    /\ UpdateState(effects_in_flight, FALSE)
    /\ audio' = "off"
    /\ UNCHANGED <<gain, stream, irq, refclk, attn, dsp, user>>

ClkDown ==
    /\ audio = "down_closed" /\ ~irq
    /\ RemoveAspScaling
    /\ pll' = refclk_input
    /\ UpdateState(effects_in_flight, FALSE)
    /\ audio' = "off"
    /\ UNCHANGED <<stream, irq, refclk, attn, dsp, user>>

Codec ==
    \/ ClkUpOpens \/ ClkUpSwaps \/ ClkUpCloses
    \/ ClkDownOpens \/ ClkDownSwaps \/ ClkDownCloses \/ ClkDown

--------------------------------------------------------------------------------
(* Gain. *)

(* cs40l26_set_gain *)
SetGain(g) ==
    /\ gain_pct' = g
    /\ gain_work' = TRUE
    /\ user_gain' = g
    /\ set_calmly' = (audio = "off")
    /\ UNCHANGED <<haptics, state, gain_tmp, scaling_applied, stream, irq, audio, clock, attn, dsp>>

(* cs40l26_set_gain_worker *)
SetGainWork ==
    /\ gain_work /\ ~irq
    /\ gain_work' = FALSE
    /\ IF vibe_state = "ASP"
       THEN /\ gain_tmp' = gain_pct
            /\ gain_pct' = Scaled(gain_pct)
            /\ scaling_applied' = TRUE
       ELSE UNCHANGED <<gain_pct, gain_tmp, scaling_applied>>
    /\ attn' = gain_pct'
    /\ UNCHANGED <<state, stream, irq, audio, clock, dsp, user>>

--------------------------------------------------------------------------------
(* cs40l26_handle_mbox_buffer *)

IrqStart ==
    /\ ~irq /\ ring # <<>>
    /\ irq' = TRUE
    /\ UNCHANGED <<state, gain, stream, audio, clock, attn, dsp, user>>

IrqEnd ==
    /\ irq /\ ring = <<>>
    /\ irq' = FALSE
    /\ UNCHANGED <<state, gain, stream, audio, clock, attn, dsp, user>>

Read(m) ==
    /\ irq /\ ring # <<>> /\ Head(ring) = m
    /\ ring' = Tail(ring)
    /\ UNCHANGED <<irq, audio, clock, attn, playing, user>>

HandleTrigger ==
    /\ Read("TRIGGER")
    /\ RemoveAspScaling
    /\ UpdateState(effects_in_flight + 1, asp_enable)
    /\ UNCHANGED <<stream, i2s>>

Down(n) == IF n > 0 THEN n - 1 ELSE 0

(* MUTANT of HandleComplete: the stream is not restarted. *)
HandleCompleteNotRestarting ==
    /\ Read("COMPLETE")
    /\ UpdateState(Down(effects_in_flight), asp_enable)
    /\ UNCHANGED <<gain, stream, i2s>>

HandleComplete ==
    /\ Read("COMPLETE")
    /\ UpdateState(Down(effects_in_flight), asp_enable)
    /\ IF Down(effects_in_flight) = 0 /\ asp_enable
       THEN AspStart
       ELSE UNCHANGED <<gain, stream, i2s>>

(* MUTANT of HandleI2s: only an interrupted stream completes the wait. *)
HandleI2sStartUnseen ==
    /\ \/ Read("COMPLETE_I2S") /\ i2s_cont' = (i2s_cont \/ asp_enable)
       \/ Read("TRIGGER_I2S") /\ i2s_cont' = i2s_cont
    /\ UNCHANGED <<state, gain, refclk_input, i2s>>

HandleI2s ==
    /\ \/ Read("COMPLETE_I2S") /\ i2s_cont' = (i2s_cont \/ asp_enable)
       \/ Read("TRIGGER_I2S") /\ i2s_cont' = TRUE
    /\ UNCHANGED <<state, gain, refclk_input, i2s>>

Irq == IrqStart \/ HandleTrigger \/ HandleComplete \/ HandleI2s \/ IrqEnd

Next ==
    \/ ClkUp \/ AspRxDown \/ Codec
    \/ \E g \in Gains : SetGain(g)
    \/ SetGainWork
    \/ Irq
    \/ DspPlay \/ DspComplete \/ DspStartsI2s

Spec == Init /\ [][Next]_vars

--------------------------------------------------------------------------------
(* When no stream is powered the PLL runs from MCLK in open loop, as it was
   before: "The DSP may lock up if a haptic effect is triggered via GPI event
   or control port and the PLL is set to closed-loop" (cs40l26_probe), "Restore
   PLL configuration" (cs40l26_vibe_state_update). *)
PllRestored == audio = "off" => pll = "open" /\ refclk = "MCLK"

(* ... which holds of streams no effect interrupts. *)
PllRestoredAlone == ~haptics => PllRestored

(* A gain set while no audio is powered holds until the next is set, whatever
   gains were set before and however effects interrupt the streams after: once
   the gain worker has run, the chip attenuates by it, scaled exactly while
   audio streams (cs40l26_set_gain_worker, cs40l26_remove_asp_scaling). *)
GainHonoured ==
    (set_calmly /\ ~gain_work) =>
        attn = IF vibe_state = "ASP" /\ AspScale < FullScale
               THEN Scaled(user_gain) ELSE user_gain

(* The codec's wait for the stream to start is always going to be woken: an
   effect that interrupts the start brings its own completion and restart
   (reinit_completion in cs40l26_asp_start). *)
StartWillWake ==
    (audio = "starting" /\ ~i2s_cont) =>
        \/ i2s = "starting" \/ playing
        \/ \E m \in ToSet(ring) : m \in {"COMPLETE", "TRIGGER_I2S", "COMPLETE_I2S"}

(* A powered stream comes back after every effect that interrupts it
   (cs40l26_vibe_state_update, MBOX_COMPLETE). *)
StreamResumes == []<>(audio # "on" \/ i2s = "on" \/ playing)
================================================================================
