----------------------------- MODULE Cs40l2xVibe -----------------------------
(***************************************************************************)
(* Playback of the CS40L25 haptic driver: the four works of its ordered    *)
(* queue, its two timers and its interrupt thread, which all hold one lock *)
(* and share vibe_state, the state of the playback queue (PBQ), and the    *)
(* index that is being played; the DSP beside them, which says by a        *)
(* register what it does and by two others what it did; and recovery from  *)
(* a chip that has lost its state.  What a launch of the playback queue    *)
(* does next - play, wait, or end - is left open here.                     *)
(***************************************************************************)
EXTENDS Integers, Sequences, SequencesExt

CONSTANTS
    Setups,             \* boards and surroundings: sets of Features,
                        \* with the kinds of cp_trigger_index that are stored
    Scales,             \* values of the digital scale of triggered effects
    Default,            \* the one of freshly loaded firmware
    MaxWakes            \* wakes saturates here, on either side

VARIABLES
    setup,              \* the member of Setups; chosen once
    lock,               \* who holds the driver's lock over several steps
    queue,              \* vibe_workqueue
    vibe_state,
    wakes,              \* wl_apply less wl_relax
    pbq_state,
    cp_trigger_index,   \* what a start will play
    cp_trailer_index,   \* what is being played
    diag_state,
    fw,                 \* the kind of firmware that runs
    user_scale,         \* the scale user space stored last, outside a queue
    scale,              \* chip: the scale in force, and its copy in dsp_cache
    pbq_cp_dig_scale,   \* the scale to return to after the queue
    volume,             \* chip: the amplifier's digital volume, and in the sequence
    diag_dig_scale,     \* the volume to return to after a measurement
    a2h_enable,         \* an audio-to-haptics stream is on
    chip,               \* chip: works, has lost its state, has crashed, is in reset
    grounded,           \* chip: the amplifier's outputs are clamped
    plays,              \* DSP: what plays; a measurement's tone is not in STATUS
    ending,             \* DSP: ENDPLAYBACK was requested
    trigger_stop,       \* DSP: TRIGGERPLAYBACKEVENT is TRIG_STOP
    gpio_stop,          \* DSP: GPIOPLAYBACKEVENT is GPIO_STOP
    pbq_timer,          \* kernel: armed
    asp_timer           \* kernel: armed

vibe == <<vibe_state, wakes>>
index == <<cp_trigger_index, fw, user_scale>>
scales == <<scale, pbq_cp_dig_scale>>
measure == <<diag_state, volume, diag_dig_scale>>
dsp == <<plays, ending, trigger_stop, gpio_stop>>
timers == <<pbq_timer, asp_timer>>
vars == <<setup, lock, queue, vibe, pbq_state, cp_trailer_index, index, scales, measure,
          a2h_enable, chip, grounded, dsp, timers>>

Features == {"events",  \* an interrupt line: END events are enabled
             "asp",     \* asp_timeout is set
             "gnd",     \* amp_gnd_stby
             "auto",    \* auto_recovery, and chips that lose their state
             "panics",  \* the DSP may crash
             "pads",    \* buttons trigger effects
             "a2h",     \* audio streams come and go
             "resets",  \* user space writes hw_reset and fw_swap
             "faults"}  \* accesses may fail

Continuous == {"VIBE", "PEAK"}
Measures == {"DIAG", "QEST"}
Indices == Continuous \cup Measures \cup {"CLICK", "PBQ"}
Works == {"start", "stop", "mode", "pbq"}

VibeAssumption ==
    /\ Setups \subseteq SUBSET (Features \cup Indices)
    /\ Default \in Scales
    /\ Scales \cap {"QUEUE", "RESET"} = {}
    /\ MaxWakes \in Nat \ {0}

Init ==
    /\ setup \in Setups
    /\ lock = "FREE" /\ queue = <<>>
    /\ vibe_state = "STOPPED" /\ wakes = 0 /\ pbq_state = "IDLE"
    /\ cp_trigger_index = "VIBE" /\ cp_trailer_index = "IDLE"
    /\ diag_state = "INIT" /\ fw = "REMAP"
    /\ user_scale = Default /\ scale = Default /\ pbq_cp_dig_scale = "RESET"
    /\ volume = "USER" /\ diag_dig_scale = "RESET"
    /\ a2h_enable = FALSE
    /\ chip = "OK" /\ grounded = ("gnd" \in setup)
    /\ plays = "NONE" /\ ending = FALSE /\ trigger_stop = FALSE /\ gpio_stop = FALSE
    /\ pbq_timer = FALSE /\ asp_timer = FALSE

------------------------------------------------------------------------------
(* What the kernel, the chip and the helpers of the driver do for others. *)

(* MUTANT of Enqueue: a work that is pending is queued again. *)
EnqueueAgain(q, w) == Append(q, w)

Enqueue(q, w) == IF Contains(q, w) THEN q ELSE Append(q, w)

Runs(w) == /\ lock = "FREE" /\ queue # <<>> /\ Head(queue) = w
           /\ queue' = Tail(queue)

Saturate(n) == IF n > MaxWakes THEN MaxWakes ELSE IF n < -MaxWakes THEN -MaxWakes ELSE n

(* A register is reached unless the chip is held in reset; the DSP acknowledges a
   mailbox write if its firmware runs. *)
Reachable == chip # "PARKED"
AccessFails == chip = "PARKED" \/ "faults" \in setup
AckFails == chip # "OK" \/ "faults" \in setup

(* STATUS of the vibe algorithm. *)
Busy == plays \notin {"NONE", "TONE"}

Relax == vibe_state' = "STOPPED" /\ wakes' = Saturate(wakes - 1)

(* A trigger displaces what plays, of which the DSP may or may not report the end. *)
Trigger(e) ==
    /\ plays' = e /\ ending' = FALSE
    /\ trigger_stop' \in {trigger_stop}
         \cup IF Busy /\ plays # "PAD" /\ "events" \in setup THEN {TRUE} ELSE {}
    /\ gpio_stop' \in {gpio_stop} \cup IF plays = "PAD" /\ "events" \in setup THEN {TRUE} ELSE {}

Silent == plays' = "NONE" /\ ending' = FALSE /\ trigger_stop' = FALSE /\ gpio_stop' = FALSE

(* Freshly loaded firmware; the sequence has been executed, which holds the
   volume and the clamp, and not the scale. *)
Loaded ==
    /\ chip' = "OK" /\ Silent /\ grounded' = ("gnd" \in setup)

(* cs40l2x_firmware_swap, asked for by user space; refused while running. *)
Swap(id) ==
    /\ vibe_state = "STOPPED"
    /\ \/ chip = "OK" /\ Loaded /\ fw' = id
       \/ "faults" \in setup /\ chip' = "LOST" /\ Silent /\ fw' = fw /\ UNCHANGED grounded
    /\ diag_state' = IF id = "CAL" THEN "INIT" ELSE diag_state

(* cs40l2x_stop_playback: after three failures the chip is parked in reset. *)
StopPlayback ==
    \/ /\ Reachable
       /\ ending' = Busy
       /\ UNCHANGED <<plays, trigger_stop, gpio_stop, chip>>
    \/ /\ AccessFails
       /\ chip' = "PARKED" /\ Silent

(* cs40l2x_reset_recovery. dsp_cache is replayed, so the scale is as before; the
   queue's is taken back. *)
Recover ==
    /\ vibe_state' = "STOPPED"
    /\ wakes' = IF vibe_state = "RUNNING" THEN Saturate(wakes - 1) ELSE wakes
    /\ cp_trailer_index' = "IDLE"
    /\ Loaded
    /\ scale' = IF pbq_state # "IDLE" /\ pbq_cp_dig_scale # "RESET" THEN pbq_cp_dig_scale
                ELSE scale
    /\ pbq_state' = "IDLE"

(* The same, when the firmware cannot be loaded. *)
RecoverFails ==
    /\ "faults" \in setup
    /\ vibe_state' = "STOPPED"
    /\ cp_trailer_index' = "IDLE"
    /\ chip' = "LOST" /\ Silent
    /\ UNCHANGED <<wakes, grounded, scale, pbq_state>>

------------------------------------------------------------------------------
(* cs40l2x_pbq_pair_launch: what the queue does next. A delay at the end of an inner
   loop arms the timer and is followed by the next waveform at once. *)

(* MUTANT of QueuePlays: the clamp that a delay has set is not released. *)
QueuePlaysClamped ==
    /\ chip = "OK"
    /\ scale' = "QUEUE" /\ UNCHANGED grounded /\ Trigger("PBQ")
    /\ pbq_state' = "PLAYING"
    /\ pbq_timer' \in {pbq_timer \/ "events" \notin setup, TRUE}

QueuePlays ==
    /\ chip = "OK"
    /\ scale' = "QUEUE" /\ grounded' = FALSE /\ Trigger("PBQ")
    /\ pbq_state' = "PLAYING"
    /\ pbq_timer' \in {pbq_timer \/ "events" \notin setup, TRUE}

QueueWaits ==
    /\ Reachable
    /\ grounded' = (grounded \/ "gnd" \in setup)
    /\ pbq_timer' = TRUE /\ pbq_state' = "SILENT"
    /\ UNCHANGED <<scale, dsp>>

(* pbq_play gives up at the scale, at the clamp, or at the trigger. *)
QueuePlayFails ==
    /\ \/ AccessFails /\ UNCHANGED <<scale, grounded>>
       \/ Reachable /\ "faults" \in setup /\ scale' = "QUEUE" /\ UNCHANGED grounded
       \/ Reachable /\ AckFails /\ scale' = "QUEUE" /\ grounded' = FALSE
    /\ UNCHANGED <<dsp, pbq_state, pbq_timer>>

(* MUTANT of QueueEnds: the scale of the last section stays in force. *)
QueueEndsScaled(s) ==
    /\ Reachable /\ s # "RESET"
    /\ pbq_state' = "IDLE" /\ pbq_timer' = FALSE
    /\ UNCHANGED <<scale, dsp, grounded>>

(* The queue is at its end: pbq_cancel, in state IDLE, returns to the scale s. *)
QueueEnds(s) ==
    /\ Reachable /\ s # "RESET"
    /\ scale' = s
    /\ pbq_state' = "IDLE" /\ pbq_timer' = FALSE
    /\ UNCHANGED <<dsp, grounded>>

QueueEndFails ==
    /\ AccessFails
    /\ pbq_state' = "IDLE" /\ pbq_timer' = FALSE
    /\ UNCHANGED <<scale, dsp, grounded>>

------------------------------------------------------------------------------
(* cs40l2x_vibe_start_worker, in two steps: the checks, recovery included, and the
   launch. It keeps the lock in between; the DSP does not wait for it. *)

StartRefused == cp_trailer_index \in {"PEAK", "PBQ"} \cup Measures

StartChecks ==
    /\ Runs("start")
    /\ \/ /\ \/ StartRefused
             \/ ~StartRefused /\ "auto" \in setup /\ AccessFails
          /\ UNCHANGED <<lock, vibe, cp_trailer_index, chip, dsp, grounded, scale, pbq_state>>
       \/ /\ ~StartRefused
          /\ "auto" \notin setup \/ chip \in {"OK", "PANIC"}
          /\ lock' = "START"
          /\ UNCHANGED <<vibe, cp_trailer_index, chip, dsp, grounded, scale, pbq_state>>
       \/ /\ ~StartRefused /\ "auto" \in setup /\ chip = "LOST"
          /\ \/ Recover /\ lock' = "START"
             \/ RecoverFails /\ UNCHANGED lock
    /\ UNCHANGED <<setup, index, pbq_cp_dig_scale, measure, a2h_enable, timers>>

(* MUTANT of Applied: the blocker is taken by every start. *)
AppliedAgain == IF cp_trigger_index # "CLICK" \/ "events" \in setup THEN wakes + 1 ELSE wakes

(* vibe_state and the suspend blocker before the launch: a click counts only if
   its end will be reported. *)
Enters == cp_trigger_index # "CLICK" \/ "events" \in setup
Running == vibe_state = "RUNNING" \/ Enters
Applied == IF Enters /\ vibe_state # "RUNNING" THEN wakes + 1 ELSE wakes

Launched == /\ vibe_state' = IF Running THEN "RUNNING" ELSE "STOPPED"
            /\ wakes' = Saturate(Applied)

(* err_relax. *)
LaunchFailed == /\ vibe_state' = "STOPPED"
                /\ wakes' = Saturate(IF Running THEN Applied - 1 ELSE Applied)

Launching == lock = "START" /\ lock' = "FREE"

(* A quality measurement needs the results of the first one. *)
Unadministered == cp_trigger_index = "QEST" /\ diag_state \notin {"DONE1", "RUN2", "DONE2"}

StartUnadministered ==
    /\ Launching /\ Unadministered
    /\ cp_trailer_index' = "IDLE"
    /\ UNCHANGED <<setup, queue, vibe, pbq_state, index, scales, measure, a2h_enable, chip,
                   grounded, dsp, timers>>

StartEffect ==
    /\ Launching /\ cp_trigger_index \in Continuous \cup {"CLICK"}
    /\ cp_trailer_index' = cp_trigger_index
    /\ \/ chip = "OK" /\ Launched /\ grounded' = FALSE /\ Trigger(cp_trigger_index)
       \/ /\ AckFails /\ LaunchFailed /\ UNCHANGED dsp
          /\ grounded' \in {grounded} \cup IF Reachable THEN {FALSE} ELSE {}
       \* the trigger worked, and the set-up of the peak's capture did not
       \/ /\ "faults" \in setup /\ chip = "OK" /\ cp_trigger_index = "PEAK"
          /\ LaunchFailed /\ grounded' = FALSE /\ Trigger("PEAK")
    /\ UNCHANGED <<setup, queue, pbq_state, index, scales, measure, a2h_enable, chip, timers>>

StartQueue ==
    /\ Launching /\ cp_trigger_index = "PBQ"
    /\ \/ /\ Reachable /\ pbq_cp_dig_scale' = scale
          /\ \/ (QueuePlays \/ QueueWaits) /\ Launched /\ cp_trailer_index' = "PBQ"
             \/ /\ QueueEnds(scale) /\ cp_trailer_index' = "IDLE"
                /\ vibe_state' = "STOPPED" /\ wakes' = Saturate(Applied - 1)
             \/ (QueuePlayFails \/ QueueEndFails) /\ LaunchFailed /\ cp_trailer_index' = "PBQ"
       \/ /\ AccessFails /\ pbq_cp_dig_scale' = "RESET"
          /\ LaunchFailed /\ cp_trailer_index' = "PBQ"
          /\ UNCHANGED <<scale, grounded, dsp, pbq_state, pbq_timer>>
    /\ UNCHANGED <<setup, queue, index, measure, a2h_enable, chip, asp_timer>>

StartMeasure ==
    /\ Launching /\ cp_trigger_index \in Measures /\ ~Unadministered
    /\ cp_trailer_index' = cp_trigger_index
    /\ \/ /\ Reachable /\ fw = "CAL"
          /\ Launched /\ grounded' = FALSE
          /\ diag_dig_scale' = volume /\ volume' = "ZERO"
          /\ diag_state' = IF cp_trigger_index = "DIAG" THEN "RUN1" ELSE "RUN2"
          /\ plays' = IF plays = "NONE" THEN "TONE" ELSE plays
       \* at the tone: other firmware refuses it
       \/ /\ AccessFails \/ fw # "CAL"
          /\ LaunchFailed /\ grounded' \in {grounded, FALSE}
          /\ diag_state' = IF cp_trigger_index = "DIAG" THEN "INIT" ELSE diag_state
          /\ \/ diag_dig_scale' = "RESET" /\ UNCHANGED volume
             \/ Reachable /\ diag_dig_scale' = volume /\ volume' = "ZERO"
          /\ UNCHANGED plays
    /\ UNCHANGED <<setup, queue, pbq_state, index, scales, a2h_enable, chip, ending,
                   trigger_stop, gpio_stop, timers>>

StartLaunches == StartUnadministered \/ StartEffect \/ StartQueue \/ StartMeasure

------------------------------------------------------------------------------
(* cs40l2x_vibe_stop_worker, by what is being played. *)

(* With END events the state follows the event, else the request. *)
StopContinuous ==
    /\ cp_trailer_index \in Continuous
    /\ StopPlayback
    /\ IF "events" \in setup \/ vibe_state = "STOPPED" THEN UNCHANGED vibe ELSE Relax
    /\ UNCHANGED <<pbq_state, scale, measure, pbq_timer>>

StopClick ==
    /\ cp_trailer_index = "CLICK"
    /\ StopPlayback
    /\ UNCHANGED <<vibe, pbq_state, scale, measure, pbq_timer>>

(* cs40l2x_pbq_cancel: what fails leaves the rest undone. *)
StopQueue ==
    /\ cp_trailer_index = "PBQ"
    /\ pbq_timer' = FALSE
    /\ IF pbq_state = "PLAYING" THEN StopPlayback ELSE UNCHANGED <<dsp, chip>>
    /\ \/ /\ chip' # "PARKED" /\ pbq_cp_dig_scale # "RESET"
          /\ scale' = pbq_cp_dig_scale /\ Relax /\ pbq_state' = "IDLE"
       \/ /\ chip' = "PARKED" \/ "faults" \in setup \/ pbq_cp_dig_scale = "RESET"
          /\ UNCHANGED <<scale, vibe, pbq_state>>
    /\ UNCHANGED measure

(* The results may not be there yet, or be refused. *)
StopMeasure ==
    /\ cp_trailer_index \in Measures
    /\ diag_state' \in CASE diag_state = "RUN1" -> IF Reachable THEN {"DONE1"} ELSE {"RUN1"}
                         [] diag_state = "RUN2" -> {"RUN2", "DONE2"}
                         [] OTHER -> {diag_state}
    /\ \/ Reachable /\ diag_dig_scale # "RESET" /\ volume' = diag_dig_scale
       \/ (AccessFails \/ diag_dig_scale = "RESET") /\ UNCHANGED volume
    /\ plays' = IF plays = "TONE" THEN "NONE" ELSE plays
    /\ IF vibe_state = "STOPPED" THEN UNCHANGED vibe ELSE Relax
    /\ UNCHANGED <<pbq_state, scale, diag_dig_scale, chip, ending, trigger_stop, gpio_stop,
                   pbq_timer>>

StopNothing ==
    /\ cp_trailer_index = "IDLE"
    /\ UNCHANGED <<vibe, pbq_state, scale, measure, dsp, chip, pbq_timer>>

StopWork ==
    /\ Runs("stop")
    /\ StopContinuous \/ StopClick \/ StopQueue \/ StopMeasure \/ StopNothing
    /\ cp_trailer_index' = "IDLE"
    /\ UNCHANGED <<setup, lock, index, pbq_cp_dig_scale, a2h_enable, grounded, asp_timer>>

------------------------------------------------------------------------------
(* cs40l2x_vibe_mode_worker: after an end event, if nothing plays by now. With a
   stream the DSP is asked to go back to it; without, the amplifier is clamped. *)
ModeWork ==
    /\ Runs("mode")
    /\ \/ /\ Busy \/ AccessFails
          /\ UNCHANGED <<vibe, grounded>>
       \/ /\ ~Busy /\ a2h_enable
          /\ \/ chip = "OK" /\ Relax
             \/ AckFails /\ UNCHANGED vibe
          /\ UNCHANGED grounded
       \/ /\ ~Busy /\ ~a2h_enable
          /\ vibe_state = "STOPPED" \/ pbq_state # "IDLE"
          /\ UNCHANGED <<vibe, grounded>>
       \/ /\ ~Busy /\ ~a2h_enable /\ Reachable
          /\ vibe_state = "RUNNING" /\ pbq_state = "IDLE"
          /\ grounded' = (grounded \/ "gnd" \in setup) /\ Relax
    /\ UNCHANGED <<setup, lock, pbq_state, cp_trailer_index, index, scales, measure, a2h_enable,
                   chip, dsp, timers>>

(* cs40l2x_vibe_pbq_worker: after the timer or an end event. Without events it polls;
   otherwise, should anything play, it leaves the queue to a later event. *)
PbqWork ==
    /\ Runs("pbq")
    /\ \/ /\ \/ pbq_state = "IDLE"
             \/ AccessFails
             \/ Busy /\ (pbq_state = "SILENT" \/ "events" \in setup)
          /\ UNCHANGED <<vibe, pbq_state, cp_trailer_index, scale, grounded, dsp, pbq_timer>>
       \/ /\ pbq_state = "PLAYING" /\ "events" \notin setup /\ Busy /\ Reachable
          /\ pbq_timer' = TRUE
          /\ UNCHANGED <<vibe, pbq_state, cp_trailer_index, scale, grounded, dsp>>
       \/ /\ pbq_state # "IDLE" /\ ~Busy /\ Reachable
          /\ \/ /\ QueuePlays \/ QueueWaits \/ QueuePlayFails \/ QueueEndFails
                /\ UNCHANGED <<vibe, cp_trailer_index>>
             \/ QueueEnds(pbq_cp_dig_scale) /\ Relax /\ cp_trailer_index' = "IDLE"
    /\ UNCHANGED <<setup, lock, index, pbq_cp_dig_scale, measure, a2h_enable, chip, asp_timer>>

PbqTimer ==
    /\ pbq_timer /\ pbq_timer' = FALSE
    /\ queue' = Enqueue(queue, "pbq")
    /\ UNCHANGED <<setup, lock, vibe, pbq_state, cp_trailer_index, index, scales, measure,
                   a2h_enable, chip, grounded, dsp, asp_timer>>

AspTimer ==
    /\ asp_timer /\ asp_timer' = FALSE
    /\ queue' = Enqueue(queue, "mode")
    /\ UNCHANGED <<setup, lock, vibe, pbq_state, cp_trailer_index, index, scales, measure,
                   a2h_enable, chip, grounded, dsp, pbq_timer>>

(* MUTANT of Notified: the works are queued for the end of a button's effect only. *)
NotifiedPads(q) == IF gpio_stop /\ "asp" \notin setup THEN Enqueue(q, "mode") ELSE q

(* cs40l2x_irq: a crash of the DSP is recovered from at once; an end leads to the
   works, the buttons' event first. *)
Notified(q) ==
    LET Mode(p, stop) == IF stop /\ "asp" \notin setup THEN Enqueue(p, "mode") ELSE p
        Pbq(p) == IF trigger_stop THEN Enqueue(p, "pbq") ELSE p
    IN  Mode(Pbq(Mode(q, gpio_stop)), trigger_stop)

Irq ==
    /\ "events" \in setup /\ lock = "FREE"
    /\ \/ /\ chip = "PANIC"
          /\ Recover \/ RecoverFails
          /\ UNCHANGED <<queue, asp_timer>>
       \/ /\ chip = "OK"
          /\ trigger_stop \/ gpio_stop
          /\ queue' = Notified(queue)
          /\ asp_timer' = (asp_timer \/ "asp" \in setup)
          /\ \/ trigger_stop' = FALSE /\ gpio_stop' = FALSE
             \/ "faults" \in setup /\ UNCHANGED <<trigger_stop, gpio_stop>>
          /\ UNCHANGED <<vibe, cp_trailer_index, chip, plays, ending, grounded, scale, pbq_state>>
    /\ UNCHANGED <<setup, lock, index, pbq_cp_dig_scale, measure, a2h_enable, pbq_timer>>

------------------------------------------------------------------------------
(* User space. *)

Request(w) ==
    /\ queue' = Enqueue(queue, w)
    /\ UNCHANGED <<setup, lock, vibe, pbq_state, cp_trailer_index, index, scales, measure,
                   a2h_enable, chip, grounded, dsp, timers>>

(* cp_trigger_index_store: measurements run in other firmware than effects. *)
StoreIndex(e) ==
    LET id == IF e \in Measures THEN "CAL" ELSE "REMAP" IN
    /\ lock = "FREE" /\ e \in setup
    /\ \/ /\ fw = id /\ cp_trigger_index' = e
          /\ UNCHANGED <<fw, diag_state, chip, grounded, dsp, scale, user_scale>>
       \/ /\ fw # id /\ Swap(id)
          /\ cp_trigger_index' = IF chip' = "OK" THEN e ELSE cp_trigger_index
          /\ scale' = Default /\ user_scale' = Default
    /\ UNCHANGED <<setup, lock, queue, vibe, pbq_state, cp_trailer_index, pbq_cp_dig_scale,
                   volume, diag_dig_scale, a2h_enable, timers>>

(* cp_dig_scale_store. What is stored while a queue plays is lost with its end. *)
StoreScale(s) ==
    /\ lock = "FREE" /\ Reachable /\ s \in Scales
    /\ scale' = s
    /\ user_scale' = IF pbq_state = "IDLE" THEN s ELSE user_scale
    /\ UNCHANGED <<setup, lock, queue, vibe, pbq_state, cp_trailer_index, cp_trigger_index, fw,
                   pbq_cp_dig_scale, measure, a2h_enable, chip, grounded, dsp, timers>>

(* fw_swap_store, to other firmware for effects. *)
SwapFirmware ==
    /\ "resets" \in setup /\ lock = "FREE"
    /\ Swap("REMAP")
    /\ scale' = IF pbq_state # "IDLE" /\ pbq_cp_dig_scale # "RESET" THEN pbq_cp_dig_scale ELSE Default
    /\ user_scale' = scale'
    /\ pbq_state' = IF chip' = "OK" THEN "IDLE" ELSE pbq_state
    /\ UNCHANGED <<setup, lock, queue, vibe, cp_trailer_index, cp_trigger_index,
                   pbq_cp_dig_scale, volume, diag_dig_scale, a2h_enable, timers>>

(* hw_reset_store: into reset, and out of it. *)
HwReset ==
    /\ "resets" \in setup /\ lock = "FREE" /\ vibe_state = "STOPPED"
    /\ IF Reachable
       THEN /\ chip' = "PARKED" /\ Silent
            /\ UNCHANGED <<grounded, scale, user_scale>>
       ELSE /\ Loaded
            /\ scale' = Default /\ user_scale' = Default
    /\ UNCHANGED <<setup, lock, queue, vibe, pbq_state, cp_trailer_index, cp_trigger_index, fw,
                   pbq_cp_dig_scale, measure, a2h_enable, timers>>

(* cs40l2x_clk_en of the codec, when a stream is powered up or down. *)
ClkEn ==
    /\ "a2h" \in setup /\ lock = "FREE"
    /\ a2h_enable' = ~a2h_enable
    /\ vibe_state' = IF a2h_enable THEN "STOPPED" ELSE "RUNNING"
    /\ UNCHANGED <<setup, lock, queue, wakes, pbq_state, cp_trailer_index, index, scales,
                   measure, chip, grounded, dsp, timers>>

------------------------------------------------------------------------------
(* The DSP and the chip. *)

DspEnds ==
    /\ chip = "OK"
    /\ plays \in {"CLICK", "PBQ", "PAD"} \/ (Busy /\ ending)
    /\ plays' = "NONE" /\ ending' = FALSE
    /\ trigger_stop' = (trigger_stop \/ (plays # "PAD" /\ "events" \in setup))
    /\ gpio_stop' = (gpio_stop \/ (plays = "PAD" /\ "events" \in setup))
    /\ UNCHANGED <<setup, lock, queue, vibe, pbq_state, cp_trailer_index, index, scales, measure,
                   a2h_enable, chip, grounded, timers>>

DspPad ==
    /\ "pads" \in setup /\ chip = "OK" /\ plays = "NONE"
    /\ plays' = "PAD" /\ ending' = FALSE
    /\ UNCHANGED <<setup, lock, queue, vibe, pbq_state, cp_trailer_index, index, scales, measure,
                   a2h_enable, chip, grounded, trigger_stop, gpio_stop, timers>>

ChipBreaks ==
    /\ chip = "OK"
    /\ \/ "panics" \in setup /\ chip' = "PANIC" /\ UNCHANGED dsp
       \/ "auto" \in setup /\ chip' = "LOST" /\ Silent
    /\ UNCHANGED <<setup, lock, queue, vibe, pbq_state, cp_trailer_index, index, scales, measure,
                   a2h_enable, grounded, timers>>

Work == StartChecks \/ StartLaunches \/ StopWork \/ ModeWork \/ PbqWork

Next ==
    \/ Work \/ Irq \/ PbqTimer \/ AspTimer
    \/ \E w \in {"start", "stop"} : Request(w)
    \/ \E e \in Indices : StoreIndex(e)
    \/ \E s \in Scales : StoreScale(s)
    \/ SwapFirmware \/ HwReset \/ ClkEn
    \/ DspEnds \/ DspPad \/ ChipBreaks

Spec ==
    /\ Init /\ [][Next]_vars
    /\ WF_vars(Work) /\ WF_vars(Irq) /\ WF_vars(PbqTimer) /\ WF_vars(AspTimer)
    /\ WF_vars(DspEnds)

------------------------------------------------------------------------------
(* The driver's and the chip's state have their types: a work is queued at most
   once, and the lock is held over two steps only by a start. *)
TypeOK ==
    /\ setup \in Setups
    /\ lock \in {"FREE", "START"}
    /\ queue \in Seq(Works)
    /\ \A i, j \in 1..Len(queue) : queue[i] = queue[j] => i = j
    /\ vibe_state \in {"RUNNING", "STOPPED"}
    /\ wakes \in -MaxWakes..MaxWakes
    /\ pbq_state \in {"IDLE", "PLAYING", "SILENT"}
    /\ cp_trigger_index \in Indices
    /\ cp_trailer_index \in Indices \cup {"IDLE"}
    /\ diag_state \in {"INIT", "RUN1", "DONE1", "RUN2", "DONE2"}
    /\ fw \in {"REMAP", "CAL"}
    /\ user_scale \in Scales \cup {"QUEUE"} /\ scale \in Scales \cup {"QUEUE"}
    /\ pbq_cp_dig_scale \in Scales \cup {"QUEUE", "RESET"}
    /\ volume \in {"USER", "ZERO"} /\ diag_dig_scale \in {"USER", "ZERO", "RESET"}
    /\ chip \in {"OK", "LOST", "PANIC", "PARKED"}
    /\ plays \in {"NONE", "TONE", "CLICK", "PBQ", "PAD"} \cup Continuous
    /\ {a2h_enable, grounded, ending, trigger_stop, gpio_stop, pbq_timer, asp_timer}
         \subseteq BOOLEAN

(* The suspend blocker follows vibe_state: whatever sets one sets the other, by the
   same amount. Not so for streams, which leave the blocker alone; for a failed
   access; and for a queue that could not be launched, which stays the one being
   played: its stop relaxes a second time. *)
Blockers(s) == IF s = "RUNNING" THEN 1 ELSE 0
Orphaned == cp_trailer_index = "PBQ" /\ vibe_state = "STOPPED"

WakeFollowsState ==
    [][ \/ {"a2h", "faults"} \cap setup # {} \/ Orphaned
        \/ wakes' - wakes = Blockers(vibe_state') - Blockers(vibe_state) ]_vars

(* While the DSP plays what the driver has it play, the amplifier is not clamped: the
   clamp is set only when the DSP is idle, and released before it is triggered. What a
   queue displaces, what a button triggers, and a measurement's tone, beside which an
   earlier end may still be handled, are not in that sense the driver's. Not so after
   a failed access. *)
DriversOwn == plays = cp_trailer_index /\ (plays = "PBQ" => pbq_state = "PLAYING")

FreeWhilePlaying == (chip = "OK" /\ DriversOwn /\ "faults" \notin setup) => ~grounded

(* Outside the queue and the measurements, scale and volume are the user's, through
   stops and ends. Not so after a failed access or a crash: the volume recovery restores
   is the one of the measurement it cut off. Nor if streams come and go beside
   measurements: the end of one says STOPPED while a queue plays, so that other firmware
   is loaded, and the queue puts back a scale of before. *)
GainsKept ==
    /\ {"faults", "panics", "auto", "resets"} \cap setup = {}
    /\ "a2h" \in setup => Measures \cap setup = {}
    =>
        /\ pbq_state = "IDLE" => scale = user_scale
        /\ cp_trailer_index \notin Measures => volume = "USER"

(* A playback queue that is not at its end has something to take it on: its timer, its
   work, an end to come, or an end to be read. Not so for a delay that begins over what
   plays without END events, and beside buttons, whose effect makes the worker leave the
   queue and whose end does not bring it back; after a failure or a crash; and when the
   end of a stream has let firmware be loaded or the chip be reset under the queue. *)
QueueDriven ==
    /\ pbq_state = "PLAYING" \/ (pbq_state = "SILENT" /\ "events" \in setup)
    /\ {"pads", "faults", "auto", "panics"} \cap setup = {}
    /\ "a2h" \in setup => (Measures \cup {"resets"}) \cap setup = {}
    => pbq_timer \/ Contains(queue, "pbq") \/ Busy \/ trigger_stop

(* When what was playing, other than a queue, has ended, the driver notices, or starts
   something else. Not so without END events, when only requests are heard; after a
   failure or the loss of the chip's state; and for measurements, which end on
   request. *)
Ended == vibe_state = "RUNNING" /\ ~Busy /\ pbq_state = "IDLE" /\ cp_trailer_index \notin Measures

EndNoticed ==
    ("events" \in setup /\ {"a2h", "faults", "auto", "resets"} \cap setup = {} /\ Ended)
    ~> ~Ended
==============================================================================
