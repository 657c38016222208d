---------------------------- MODULE Cs40l26Reset ----------------------------
(***************************************************************************)
(* Recovery of the CS40L26 by a hardware reset: the decision to reset,     *)
(* which any thread takes without a lock; the reset worker, which shares   *)
(* the driver's ordered workqueue with the work it cancels; the swap of    *)
(* firmware that the worker and sysfs both run; and the interrupt line     *)
(* they disable around it.  Runtime power management is the kernel's: once *)
(* a resume has failed the kernel refuses every later one, until the error *)
(* is cleared, which nothing in the driver does.                           *)
(***************************************************************************)
EXTENDS Integers, Sequences, SequencesExt

CONSTANTS
    Setups,             \* what the run allows, see AllSetups
    MaxCount,           \* CS40L26_RESET_MAX_COUNT
    MaxRing,            \* messages the DSP has outstanding at most
    MaxDepth            \* no fault strikes and users ask for nothing while the
                        \* line is disabled oftener

VARIABLES
    setup,              \* the member of Setups; chosen once
    reset_event,        \* what is known of the need to reset
    reset_count,        \* resets done in the present period
    expired,            \* the period that began at reset_time_s is over
    fw_loaded,          \* the driver believes firmware runs
    irq_depth,          \* how often the interrupt line is disabled
    pm,                 \* kernel: runtime power management is enabled
    pm_error,           \* kernel: a resume has failed
    queue,              \* vibe_workqueue
    worker,             \* where its thread is
    swapper,            \* where a writer of swap_firmware is
    caller,             \* where a user of the device is
    re_enable,          \* local to cs40l26_fw_swap, in each thread
    decision,           \* local to cs40l26_make_reset_decision, likewise
    upload_ret,         \* result of the last upload
    effects_in_flight,  \* effects the driver believes are playing
    listed,             \* effect_head holds an uploaded effect
    loaded,             \* chip: that effect is in the DSP's memory
    dsp,                \* chip: runs firmware, has none, or hangs
    plays,              \* DSP: an effect plays
    ring                \* DSP: messages not yet read

reset == <<reset_event, reset_count, expired>>
line == <<fw_loaded, irq_depth>>
pcs == <<worker, swapper, caller>>
effects == <<upload_ret, listed, loaded>>
chip == <<dsp, plays, ring>>
power == <<pm, pm_error>>
vars == <<setup, reset, line, power, queue, pcs, re_enable, decision, effects,
          effects_in_flight, chip>>

Threads == {"worker", "swapper", "caller"}
Events == {"NONEED", "TRIGGER", "ONGOING", "COOLDOWN", "FAILED"}
Works == {"vibe_start", "upload", "reset"}
Outcomes == {"none", "restart", "again", "cool", "queue"}
Resuming == {"resume", "asks", "refused"}
Swapping == {"swap", "load", "config", "swapped"} \cup Resuming

(* What may happen besides uploads, playback and the decisions they lead to:
   the DSP hangs; pads start effects; manual resets; and, with these, faults of
   the chip or writes to swap_firmware; writes to swap_firmware while a reset
   runs; or nothing, on a board without a reset line. *)
AllSetups == {"plain", "pads", "manual", "faults", "swaps", "overlap", "no_gpio"}

ASSUME ResetAssumption ==
    /\ Setups \subseteq AllSetups
    /\ MaxCount \in Nat \ {0} /\ MaxRing \in Nat /\ MaxDepth \in Nat

Swaps == setup \in {"swaps", "overlap"}
Manual == setup \in {"manual", "faults", "swaps"}

TypeOK ==
    /\ setup \in Setups
    /\ reset_event \in Events /\ reset_count \in Nat /\ expired \in BOOLEAN
    /\ fw_loaded \in BOOLEAN /\ irq_depth \in Int
    /\ pm \in BOOLEAN /\ pm_error \in BOOLEAN
    /\ queue \in Seq(Works)
    /\ worker \in {"idle", "deciding", "pulse", "ready", "done"} \cup Swapping
    /\ swapper \in {"idle"} \cup Swapping
    /\ caller \in {"idle", "waiting", "deciding"}
    /\ re_enable \in [Threads -> BOOLEAN]
    /\ decision \in [Threads -> Outcomes]
    /\ upload_ret \in {"ok", "error"}
    /\ effects_in_flight \in Nat
    /\ listed \in BOOLEAN /\ loaded \in BOOLEAN
    /\ dsp \in {"run", "boot", "hung"} /\ plays \in BOOLEAN
    /\ ring \in Seq({"TRIGGER", "COMPLETE"})

Start ==
    /\ reset_event = "NONEED" /\ reset_count = 0 /\ expired = FALSE
    /\ fw_loaded = TRUE /\ irq_depth = 0 /\ pm = TRUE /\ pm_error = FALSE
    /\ queue = <<>> /\ worker = "idle" /\ swapper = "idle" /\ caller = "idle"
    /\ re_enable = [t \in Threads |-> FALSE]
    /\ decision = [t \in Threads |-> "none"]
    /\ upload_ret = "ok" /\ effects_in_flight = 0
    /\ listed = FALSE /\ loaded = FALSE
    /\ dsp = "run" /\ plays = FALSE /\ ring = <<>>

Init == setup \in Setups /\ Start

(* queue_work: work that is pending already is not queued again. *)
Queue(w) == queue' = IF w \in ToSet(queue) THEN queue ELSE Append(queue, w)

--------------------------------------------------------------------------------
(* The decision. *)

(* cs40l26_handle_reset_boundary_condition: "delta_sec" has passed the cooldown
   timeout, or is negative because the clock was set, or nothing was reset. *)
Boundary == expired \/ reset_count = 0

(* MUTANT of Decided: one reset too many. *)
DecidedOneMore ==
    CASE reset_event = "TRIGGER" -> "restart"
      [] reset_event # "TRIGGER" /\ reset_event # "ONGOING" /\ Boundary -> "restart"
      [] reset_event = "NONEED" /\ ~Boundary /\ reset_count <= MaxCount -> "again"
      [] reset_event = "NONEED" /\ ~Boundary /\ reset_count > MaxCount -> "cool"
      [] OTHER -> "none"

(* The switch of cs40l26_make_reset_decision, as it reads the state. *)
Decided ==
    CASE reset_event = "TRIGGER" -> "restart"
      [] reset_event # "TRIGGER" /\ reset_event # "ONGOING" /\ Boundary -> "restart"
      [] reset_event = "NONEED" /\ ~Boundary /\ reset_count < MaxCount -> "again"
      [] reset_event = "NONEED" /\ ~Boundary /\ reset_count >= MaxCount -> "cool"
      [] OTHER -> "none"

At(t) == IF t = "worker" THEN worker ELSE IF t = "caller" THEN caller ELSE swapper

Deciding(t) == At(t) \in {"deciding", "asks", "refused"}

Goes(t, place) ==
    /\ worker' = IF t = "worker" THEN place ELSE worker
    /\ caller' = IF t = "caller" THEN place ELSE caller
    /\ swapper' = IF t = "swapper" THEN place ELSE swapper

Decides(t) == decision' = [decision EXCEPT ![t] = Decided]

(* ... as it writes what it decided ... *)
Commit(t) ==
    /\ Deciding(t) /\ decision[t] \in {"restart", "again", "cool"}
    /\ reset_event' = IF decision[t] = "cool" THEN "COOLDOWN" ELSE "ONGOING"
    /\ reset_count' = IF decision[t] = "restart" THEN 0 ELSE reset_count
    /\ expired' = (expired /\ decision[t] = "again")
    /\ decision' = [decision EXCEPT ![t] = IF @ = "cool" THEN "none" ELSE "queue"]
    /\ UNCHANGED <<setup, line, power, queue, pcs, re_enable, effects, effects_in_flight, chip>>

(* MUTANT of Fails: a reset that failed is not recorded. *)
FailsUnrecorded(t) == UNCHANGED reset

(* The error path of cs40l26_reset_worker *)
Fails(t) ==
    IF t = "worker"
    THEN reset_event' = "FAILED" /\ expired' = FALSE /\ UNCHANGED reset_count
    ELSE UNCHANGED reset

(* ... and as it queues the reset, or does not.  In a swap of firmware the thread that
   decided goes on, or fails if the resume did. *)
Conclude(t) ==
    /\ Deciding(t) /\ decision[t] \in {"none", "queue"}
    /\ IF decision[t] = "queue" THEN Queue("reset") ELSE UNCHANGED queue
    /\ decision' = [decision EXCEPT ![t] = "none"]
    /\ Goes(t, IF At(t) = "asks" THEN "swapped" ELSE "idle")
    /\ IF At(t) = "refused" THEN Fails(t) ELSE UNCHANGED reset
    /\ UNCHANGED <<setup, line, power, re_enable, effects, effects_in_flight, chip>>

Decision(t) == Commit(t) \/ Conclude(t)

(* pm_enter for a suspended chip: cs40l26_resume, unless the kernel refuses. *)
Resumes == pm /\ ~pm_error
ResumeFails == Resumes /\ dsp # "run"
ResumeWorks == Resumes /\ dsp = "run"

(* The resume also decides on a reset the interrupt handler asked for. *)
ResumeAsks == ResumeFails \/ reset_event = "TRIGGER"

AfterResume(t) ==
    /\ pm_error' = (pm_error \/ ResumeFails)
    /\ UNCHANGED pm
    /\ IF Resumes /\ ResumeAsks
       THEN Goes(t, "deciding") /\ Decides(t)
       ELSE UNCHANGED pcs /\ UNCHANGED decision

--------------------------------------------------------------------------------
(* Users. *)

(* A bound: every failure may leave the line disabled once more. *)
Room == irq_depth <= MaxDepth

(* Any use of the device that wakes the chip. *)
Access ==
    /\ caller = "idle"
    /\ AfterResume("caller")
    /\ UNCHANGED <<setup, reset, line, queue, re_enable, effects, effects_in_flight, chip>>

Playback ==
    /\ caller = "idle"
    /\ Queue("vibe_start")
    /\ UNCHANGED <<setup, reset, line, power, pcs, re_enable, decision, effects,
                   effects_in_flight, chip>>

Upload ==
    /\ caller = "idle" /\ Room
    /\ Queue("upload")
    /\ Goes("caller", "waiting")
    /\ UNCHANGED <<setup, reset, line, power, re_enable, decision, effects,
                   effects_in_flight, chip>>

(* flush_work returns, and a result that is an error asks for a reset. *)
UploadReturns ==
    /\ caller = "waiting" /\ "upload" \notin ToSet(queue)
    /\ IF upload_ret = "error"
       THEN Goes("caller", "deciding") /\ Decides("caller")
       ELSE Goes("caller", "idle") /\ UNCHANGED decision
    /\ UNCHANGED <<setup, reset, line, power, queue, re_enable, effects,
                   effects_in_flight, chip>>

(* reset_store, "1: Manual reset". *)
ResetStore ==
    /\ Manual /\ Room
    /\ reset_event' = "NONEED" /\ reset_count' = 0
    /\ Queue("reset")
    /\ UNCHANGED <<setup, expired, line, power, pcs, re_enable, decision, effects,
                   effects_in_flight, chip>>

(* swap_firmware_store takes no lock. *)
SwapFirmwareStore ==
    /\ Swaps /\ swapper = "idle" /\ Room
    /\ setup = "overlap" \/ (worker = "idle" /\ "reset" \notin ToSet(queue))
    /\ Goes("swapper", "swap")
    /\ UNCHANGED <<setup, reset, line, power, queue, re_enable, decision, effects,
                   effects_in_flight, chip>>

(* Time passes. *)
Expire ==
    /\ ~expired /\ expired' = TRUE
    /\ UNCHANGED <<setup, reset_event, reset_count, line, power, queue, pcs, re_enable,
                   decision, effects, effects_in_flight, chip>>

--------------------------------------------------------------------------------
(* cs40l26_fw_swap *)

(* MUTANT of SwapBegin: the line is left on. *)
SwapBeginAudible(t) ==
    /\ At(t) = "swap"
    /\ re_enable' = [re_enable EXCEPT ![t] = FALSE]
    /\ pm' = (pm /\ ~fw_loaded) /\ UNCHANGED pm_error
    /\ Goes(t, "load")
    /\ UNCHANGED <<setup, reset, line, queue, decision, effects, effects_in_flight, chip>>

SwapBegin(t) ==
    /\ At(t) = "swap"
    /\ re_enable' = [re_enable EXCEPT ![t] = fw_loaded]
    /\ irq_depth' = IF fw_loaded THEN irq_depth + 1 ELSE irq_depth
    /\ pm' = (pm /\ ~fw_loaded) /\ UNCHANGED pm_error
    /\ Goes(t, "load")
    /\ UNCHANGED <<setup, reset, fw_loaded, queue, decision, effects, effects_in_flight, chip>>

(* cs40l26_fw_upload: nothing of the old firmware or of its effects remains. *)
SwapLoad(t) ==
    /\ At(t) = "load"
    /\ fw_loaded' = FALSE /\ loaded' = FALSE
    /\ dsp' = "boot" /\ plays' = FALSE /\ ring' = <<>>
    /\ Goes(t, "config")
    /\ UNCHANGED <<setup, reset, irq_depth, power, queue, re_enable, decision,
                   upload_ret, listed, effects_in_flight>>

(* cs40l26_dsp_config, which sets power management up again ... *)
SwapConfig(t) ==
    /\ At(t) = "config"
    /\ fw_loaded' = TRUE /\ dsp' = "run" /\ pm' = TRUE /\ UNCHANGED pm_error
    /\ Goes(t, "resume")
    /\ UNCHANGED <<setup, reset, irq_depth, queue, re_enable, decision, effects,
                   effects_in_flight, plays, ring>>

(* ... and then uses it: an error the kernel remembers from before the reset fails the
   swap.  A chip that is held awake is not resumed. *)
SwapResume(t) ==
    /\ At(t) = "resume"
    /\ \/ ~Resumes /\ Fails(t) /\ Goes(t, "idle") /\ UNCHANGED <<pm_error, decision>>
       \/ Resumes /\ Goes(t, "swapped") /\ UNCHANGED <<reset, pm_error, decision>>
       \/ /\ Resumes /\ ResumeAsks /\ Decides(t)
          /\ pm_error' = ResumeFails
          /\ Goes(t, IF ResumeFails THEN "refused" ELSE "asks")
          /\ UNCHANGED reset
    /\ UNCHANGED <<setup, line, pm, queue, re_enable, effects, effects_in_flight, chip>>

(* MUTANT of SwapEnd: the line stays disabled. *)
SwapEndSilent(t) ==
    /\ At(t) = "swapped"
    /\ Goes(t, IF t = "worker" THEN "done" ELSE "idle")
    /\ UNCHANGED <<setup, reset, line, power, queue, re_enable, decision,
                   effects, effects_in_flight, chip>>

SwapEnd(t) ==
    /\ At(t) = "swapped"
    /\ irq_depth' = IF re_enable[t] THEN irq_depth - 1 ELSE irq_depth
    /\ Goes(t, IF t = "worker" THEN "done" ELSE "idle")
    /\ UNCHANGED <<setup, reset, fw_loaded, power, queue, re_enable, decision,
                   effects, effects_in_flight, chip>>

Faulty == setup = "faults" /\ Room

(* An error before the load, in it, or in the configuration after it. *)
SwapFails(t) ==
    /\ Faulty /\ At(t) \in {"load", "config", "resume", "swapped"}
    /\ Fails(t)
    /\ Goes(t, "idle")
    /\ UNCHANGED <<setup, line, power, queue, re_enable, decision, effects,
                   effects_in_flight, chip>>

Swap(t) ==
    \/ SwapBegin(t) \/ SwapLoad(t) \/ SwapConfig(t) \/ SwapResume(t) \/ SwapEnd(t)
    \/ SwapFails(t) \/ (t = "swapper" /\ Decision(t))

--------------------------------------------------------------------------------
(* The workqueue's thread. *)

Takes(w) ==
    /\ worker = "idle" /\ queue # <<>> /\ Head(queue) = w

(* What the DSP reports when an effect starts, displacing one that plays. *)
Started == IF plays THEN <<"COMPLETE", "TRIGGER">> ELSE <<"TRIGGER">>

(* cs40l26_vibe_start_worker *)
VibeStart ==
    /\ Takes("vibe_start") /\ (ResumeWorks => Len(ring) + 2 <= MaxRing)
    /\ queue' = Tail(queue)
    /\ AfterResume("worker")
    /\ IF ResumeWorks
       THEN ring' = ring \o Started /\ plays' = TRUE
       ELSE UNCHANGED <<ring, plays>>
    /\ UNCHANGED <<setup, reset, line, re_enable, effects, effects_in_flight, dsp>>

(* cs40l26_upload_worker: without the chip it returns early, and the result of
   an earlier upload stands. *)
UploadWork ==
    /\ Takes("upload")
    /\ queue' = Tail(queue)
    /\ AfterResume("worker")
    /\ IF ResumeWorks
       THEN \/ upload_ret' = "ok" /\ listed' = TRUE /\ loaded' = TRUE
            \/ upload_ret' = "error" /\ UNCHANGED <<listed, loaded>>
       ELSE UNCHANGED effects
    /\ UNCHANGED <<setup, reset, line, re_enable, effects_in_flight, chip>>

(* cs40l26_reset_worker: without a reset line there is nothing it can do. *)
ResetImpossible ==
    /\ Takes("reset") /\ setup = "no_gpio"
    /\ queue' = Tail(queue)
    /\ UNCHANGED <<setup, reset, line, power, pcs, re_enable, decision, effects,
                   effects_in_flight, chip>>

(* All other work is cancelled, also the upload a caller waits for. *)
ResetBegin ==
    /\ Takes("reset") /\ setup # "no_gpio" /\ (setup = "overlap" \/ swapper = "idle")
    /\ irq_depth' = IF fw_loaded THEN irq_depth + 1 ELSE irq_depth
    /\ queue' = IF "reset" \in ToSet(Tail(queue)) THEN <<"reset">> ELSE <<>>
    /\ Goes("worker", "pulse")
    /\ UNCHANGED <<setup, reset, fw_loaded, power, re_enable, decision, effects,
                   effects_in_flight, chip>>

ResetPulse ==
    /\ worker = "pulse"
    /\ dsp' = "boot" /\ plays' = FALSE /\ ring' = <<>> /\ loaded' = FALSE
    /\ \/ Goes("worker", "ready") /\ UNCHANGED reset
       \/ Faulty /\ Goes("worker", "idle") /\ Fails("worker")
    /\ UNCHANGED <<setup, line, power, queue, re_enable, decision, upload_ret, listed,
                   effects_in_flight>>

ResetReady ==
    /\ worker = "ready"
    /\ irq_depth' = IF fw_loaded THEN irq_depth - 1 ELSE irq_depth
    /\ Goes("worker", "swap")
    /\ UNCHANGED <<setup, reset, fw_loaded, power, queue, re_enable, decision, effects,
                   effects_in_flight, chip>>

(* MUTANT of ResetDone: the count of playing effects survives the reset. *)
ResetDoneCountKept ==
    /\ worker = "done"
    /\ reset_event' = "NONEED" /\ reset_count' = reset_count + 1
    /\ Goes("worker", "idle")
    /\ UNCHANGED <<setup, expired, line, power, queue, re_enable, decision, effects,
                   effects_in_flight, chip>>

ResetDone ==
    /\ worker = "done"
    /\ effects_in_flight' = 0
    /\ reset_event' = "NONEED" /\ reset_count' = reset_count + 1
    /\ Goes("worker", "idle")
    /\ UNCHANGED <<setup, expired, line, power, queue, re_enable, decision, effects, chip>>

Work ==
    \/ VibeStart \/ UploadWork
    \/ ResetImpossible \/ ResetBegin \/ ResetPulse \/ ResetReady \/ Swap("worker") \/ ResetDone
    \/ Decision("worker")

--------------------------------------------------------------------------------
(* The chip and its interrupt. *)

DspHangs ==
    /\ setup \in {"plain", "faults", "no_gpio"} /\ dsp = "run"
    /\ dsp' = "hung" /\ plays' = FALSE /\ ring' = <<>>
    /\ UNCHANGED <<setup, reset, line, power, queue, pcs, re_enable, decision, effects,
                   effects_in_flight>>

DspComplete ==
    /\ dsp = "run" /\ plays /\ Len(ring) < MaxRing
    /\ plays' = FALSE /\ ring' = Append(ring, "COMPLETE")
    /\ UNCHANGED <<setup, reset, line, power, queue, pcs, re_enable, decision, effects,
                   effects_in_flight, dsp>>

PadPlay ==
    /\ setup = "pads" /\ dsp = "run" /\ Len(ring) + 2 <= MaxRing
    /\ plays' = TRUE /\ ring' = ring \o Started
    /\ UNCHANGED <<setup, reset, line, power, queue, pcs, re_enable, decision, effects,
                   effects_in_flight, dsp>>

(* MUTANT of Down: the count may fall below zero. *)
DownBelow(n) == n - 1

Down(n) == IF n > 0 THEN n - 1 ELSE 0

(* cs40l26_vibe_state_update: a start the count does not expect asks for a
   reset at the next resume. *)
Interrupt ==
    /\ irq_depth <= 0 /\ ring # <<>>
    /\ ring' = Tail(ring)
    /\ IF Head(ring) = "TRIGGER"
       THEN /\ reset_event' = IF effects_in_flight > 0 THEN "TRIGGER" ELSE reset_event
            /\ effects_in_flight' = effects_in_flight + 1
       ELSE effects_in_flight' = Down(effects_in_flight) /\ UNCHANGED reset_event
    /\ UNCHANGED <<setup, reset_count, expired, line, power, queue, pcs, re_enable, decision,
                   effects, dsp, plays>>

Callers ==
    \/ Access \/ Playback \/ Upload \/ UploadReturns
    \/ Decision("caller")

Next ==
    \/ Callers \/ ResetStore \/ SwapFirmwareStore \/ Swap("swapper")
    \/ Work \/ Interrupt
    \/ Expire \/ DspHangs \/ DspComplete \/ PadPlay

Spec == Init /\ [][Next]_vars

(* Threads are scheduled and interrupts taken; a start of an effect finds room
   among the messages some time; what users and the chip do is their own affair. *)
FairSpec ==
    /\ Spec
    /\ WF_vars(Work) /\ SF_vars(VibeStart) /\ WF_vars(Decision("caller"))
    /\ WF_vars(Interrupt) /\ WF_vars(Swap("swapper")) /\ WF_vars(DspComplete)

--------------------------------------------------------------------------------
Quiet == worker \in {"idle", "deciding"} /\ swapper = "idle"

(* Unless a step fails or a swap and a reset overlap, the interrupt line is on
   again after every reset and swap (re_enable in cs40l26_fw_swap, fw_loaded in
   cs40l26_reset_worker).  The kernel's refusal of power management after a resume
   that failed is such a failure: cs40l26_fw_swap then returns before it enables
   the line. *)
LineRestored ==
    (Quiet /\ setup \notin {"faults", "overlap"} /\ ~pm_error) => irq_depth = 0

(* The line is off while firmware is replaced and until power management has been
   used again, even after swaps that failed, unless a swap and a reset overlap. *)
LoadUndisturbed ==
    (setup # "overlap" /\ {worker, swapper} \cap ({"config"} \cup Resuming) # {}) =>
        irq_depth > 0

(* The count of playing effects, and with it vibe_state, is that of the DSP
   once what it said is read, also after a reset of the chip in the midst of
   an effect, if neither pads nor another swap of firmware intervene. *)
CountFresh ==
    (setup # "pads" /\ ~Swaps /\ Quiet /\ "reset" \notin ToSet(queue)
        /\ dsp = "run" /\ reset_event = "NONEED" /\ ring = <<>>) =>
        effects_in_flight = IF plays THEN 1 ELSE 0

(* The chip is reset at most MaxCount times before a cooldown; one more when
   two threads decide at once.  Manual resets, and those the interrupt handler
   asks for, start to count anew. *)
Limited == setup = "plain" => reset_count <= MaxCount + 1

(* The interrupt line is off while firmware is replaced and on again afterwards, under the
   conditions of the two it joins. *)
LineSound == LineRestored /\ LoadUndisturbed

(* The counts of effects and of resets are right, under the conditions of the two it
   joins. *)
CountsSound == CountFresh /\ Limited

(* A reset that was decided on comes to an end, good or bad, if the board has
   a reset line. *)
ResetEnds == (setup # "no_gpio" /\ reset_event = "ONGOING") ~> reset_event # "ONGOING"

(* "All uploaded effects from userspace must be erased prior to swapping
   wavetable tunings" (ABI/testing/sysfs-driver-input-cs40l26): an effect on
   the driver's list is in the DSP's memory, after resets that went well. *)
ListedIsLoaded ==
    (Quiet /\ reset_event = "NONEED" /\ ~pm_error /\ dsp = "run" /\ listed) => loaded
================================================================================
