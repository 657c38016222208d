--------------------------- MODULE Cs40l26Playback ---------------------------
(***************************************************************************)
(* Playing, stopping and erasing effects in the CS40L26 driver while the   *)
(* DSP reports what it does: the ordered work queue with one work item per *)
(* kind of request, the interrupt thread that drains the DSP's mailbox     *)
(* ring under the driver's lock, and the erase that gives the lock up to   *)
(* wait for the effect to complete.  No audio is streamed here (module     *)
(* Cs40l26Asp adds that), and no register access fails.                    *)
(***************************************************************************)
EXTENDS Integers, Sequences, SequencesExt

CONSTANTS
    Effects,        \* effects user space may upload
    NoEffect,       \* no effect, nothing plays
    Endless,        \* effects that play until they are stopped
    NoWait,         \* effects whose index is in no_wait_ram_indices
    PadEffects,     \* effects a GPI edge may trigger when a pad is mapped
    StopDelay,      \* delay_before_stop_playback_us is not zero
    SlowDsp,        \* an effect may outlast the timer of an erase
    MaxRing         \* messages the DSP has outstanding at most

ASSUME PlaybackAssumption ==
    /\ NoEffect \notin Effects
    /\ Endless \subseteq Effects /\ NoWait \subseteq Effects
    /\ PadEffects \subseteq Effects
    /\ {StopDelay, SlowDsp} \subseteq BOOLEAN
    /\ MaxRing \in Nat

VARIABLES
    vibe_state_reporting,   \* the firmware posts TRIGGER_CP
    pads,               \* the effects mapped to a pad
    calm,               \* user space starts an effect only when all is quiet
    loaded,             \* effect_head: the effects the driver has
    owned,              \* input core: the effects user space may play
    trigger_effect,     \* the effect of the last playback request
    erasing,            \* input core: the erase in progress and how far it is
    wq,                 \* vibe_workqueue: the pending work items
    worker,             \* what its worker does between two critical sections
    cur_index,          \* the effect whose index was written to the mailbox
    effects_in_flight,  \* effects the driver believes are playing
    vibe_state,         \* what sysfs reports
    reset_event,        \* a missed message was noticed
    erase_cont,         \* completion: an effect has completed
    irq,                \* the interrupt thread drains the ring
    ring,               \* DSP: messages not yet read
    playing,            \* DSP: the effect it plays, and who triggered it
    stopping            \* DSP: it was told to stop

driver == <<loaded, trigger_effect, cur_index, effects_in_flight, vibe_state,
            reset_event, erase_cont>>
dsp == <<ring, playing, stopping>>
setup == <<vibe_state_reporting, pads, calm>>   \* chosen once
vars == <<setup, driver, owned, erasing, wq, worker, irq, dsp>>

Works == {"start", "stop", "erase"}
Messages == {"TRIGGER_CP", "TRIGGER_GPIO", "COMPLETE_MBOX", "COMPLETE_GPIO"}
Silence == [effect |-> NoEffect, by |-> "none"]

TypeOK ==
    /\ vibe_state_reporting \in BOOLEAN /\ calm \in BOOLEAN
    /\ pads \subseteq PadEffects
    /\ loaded \subseteq Effects /\ owned \subseteq Effects \cup {NoEffect}
    /\ trigger_effect \in Effects \cup {NoEffect}
    /\ erasing \in [effect : Effects \cup {NoEffect},
                    at : {"none", "asked", "queued", "erased", "failed"}]
    /\ wq \in Seq(Works)
    /\ worker \in {"idle", "stop_delay", "erase_wait"}
    /\ cur_index \in Effects \cup {NoEffect}
    /\ effects_in_flight \in Nat
    /\ vibe_state \in {"STOPPED", "HAPTIC"}
    /\ reset_event \in BOOLEAN /\ erase_cont \in BOOLEAN /\ irq \in BOOLEAN
    /\ ring \in Seq(Messages)
    /\ playing \in [effect : Effects, by : {"mbox", "gpio"}] \cup {Silence}
    /\ stopping \in BOOLEAN

Init ==
    /\ vibe_state_reporting \in BOOLEAN /\ calm \in BOOLEAN
    /\ pads \in SUBSET PadEffects
    /\ loaded = {} /\ owned = {}
    /\ trigger_effect = NoEffect
    /\ erasing = [effect |-> NoEffect, at |-> "none"]
    /\ wq = <<>> /\ worker = "idle"
    /\ cur_index = NoEffect
    /\ effects_in_flight = 0 /\ vibe_state = "STOPPED" /\ reset_event = FALSE
    /\ erase_cont = FALSE /\ irq = FALSE
    /\ ring = <<>> /\ playing = Silence /\ stopping = FALSE

--------------------------------------------------------------------------------
(* The DSP.  A new effect displaces the one that plays, which completes. *)

Room == Len(ring) + 2 <= MaxRing

CompleteOf == [mbox |-> "COMPLETE_MBOX", gpio |-> "COMPLETE_GPIO"]
TriggerOf == [mbox |-> "TRIGGER_CP", gpio |-> "TRIGGER_GPIO"]

Completed == IF playing = Silence THEN <<>> ELSE <<CompleteOf[playing.by]>>
Triggered(by) == IF vibe_state_reporting THEN <<TriggerOf[by]>> ELSE <<>>

DspPlay(e, by) ==
    /\ ring' = ring \o Completed \o Triggered(by)
    /\ playing' = [effect |-> e, by |-> by]
    /\ stopping' = FALSE

DspStop ==
    /\ stopping' = (playing # Silence)
    /\ UNCHANGED <<ring, playing>>

WillComplete == stopping \/ playing.effect \notin Endless

DspComplete ==
    /\ playing # Silence
    /\ WillComplete
    /\ Room
    /\ ring' = ring \o Completed
    /\ playing' = Silence
    /\ stopping' = FALSE
    /\ UNCHANGED <<driver, owned, erasing, wq, worker, irq, setup>>

GpiEdge(e) ==
    /\ e \in pads \cap loaded
    /\ Room
    /\ DspPlay(e, "gpio")
    /\ UNCHANGED <<driver, owned, erasing, wq, worker, irq, setup>>

--------------------------------------------------------------------------------
(* User space, through the input core. *)

(* queue_work does nothing for a work item that is already pending. *)
QueueWork(w) == wq' = IF w \in ToSet(wq) THEN wq ELSE Append(wq, w)

Calm == wq = <<>> /\ worker = "idle" /\ ~irq /\ ring = <<>> /\ playing = Silence

Upload(e) ==
    /\ e \notin owned
    /\ erasing.at = "none" /\ worker = "idle" /\ wq = <<>> /\ ~irq
    /\ loaded' = loaded \cup {e}
    /\ owned' = owned \cup {e}
    /\ UNCHANGED <<trigger_effect, cur_index, effects_in_flight, vibe_state,
                   reset_event, erase_cont, erasing, wq, worker, irq, dsp, setup>>

(* cs40l26_playback_effect *)
PlaybackEffect(e, start) ==
    /\ trigger_effect' = e
    /\ QueueWork(IF start THEN "start" ELSE "stop")
    /\ UNCHANGED <<loaded, cur_index, effects_in_flight, vibe_state, reset_event,
                   erase_cont, worker, irq, dsp, setup>>

UserPlayback(e, start) ==
    /\ e \in owned
    /\ calm /\ start => Calm
    /\ PlaybackEffect(e, start)
    /\ UNCHANGED <<owned, erasing>>

(* input_ff_erase stops the effect and disowns it before it erases it. *)
UserErase(e) ==
    /\ e \in owned
    /\ erasing.at = "none"
    /\ PlaybackEffect(e, FALSE)
    /\ owned' = owned \ {e}
    /\ erasing' = [effect |-> e, at |-> "asked"]

EraseEffect ==
    /\ erasing.at = "asked"
    /\ erasing' = [erasing EXCEPT !.at = "queued"]
    /\ QueueWork("erase")
    /\ UNCHANGED <<driver, owned, worker, irq, dsp, setup>>

(* flush_work returns, and the input core restores the owner on an error. *)
EraseReturns ==
    /\ erasing.at \in {"erased", "failed"}
    /\ owned' = IF erasing.at = "failed" THEN owned \cup {erasing.effect} ELSE owned
    /\ erasing' = [effect |-> NoEffect, at |-> "none"]
    /\ UNCHANGED <<driver, wq, worker, irq, dsp, setup>>

--------------------------------------------------------------------------------
(* cs40l26_vibe_state_update *)

VibeState(n) == IF n > 0 THEN "HAPTIC" ELSE "STOPPED"

Playback ==
    /\ reset_event' = (reset_event \/ effects_in_flight > 0)
    /\ effects_in_flight' = effects_in_flight + 1
    /\ vibe_state' = VibeState(effects_in_flight')

(* MUTANT of Complete: counts below zero. *)
CompleteUnchecked ==
    /\ effects_in_flight' = effects_in_flight - 1
    /\ vibe_state' = VibeState(effects_in_flight')
    /\ UNCHANGED reset_event

Complete ==
    /\ effects_in_flight' = IF effects_in_flight > 0 THEN effects_in_flight - 1 ELSE 0
    /\ vibe_state' = VibeState(effects_in_flight')
    /\ UNCHANGED reset_event

--------------------------------------------------------------------------------
(* The work queue's worker.  A critical section is one step. *)

Take(w) == worker = "idle" /\ ~irq /\ wq # <<>> /\ Head(wq) = w /\ wq' = Tail(wq)

(* MUTANT of VibeStart: the completion is not prepared for a new effect. *)
VibeStartKeepingCompletion ==
    /\ Take("start")
    /\ Room
    /\ IF trigger_effect \in loaded
       THEN /\ DspPlay(trigger_effect, "mbox")
            /\ cur_index' = trigger_effect
            /\ IF vibe_state_reporting
               THEN UNCHANGED <<effects_in_flight, vibe_state, reset_event>>
               ELSE Playback
            /\ UNCHANGED erase_cont
       ELSE UNCHANGED <<dsp, cur_index, effects_in_flight, vibe_state, reset_event,
                        erase_cont>>
    /\ UNCHANGED <<loaded, owned, trigger_effect, erasing, worker, irq, setup>>

(* cs40l26_vibe_start_worker *)
VibeStart ==
    /\ Take("start")
    /\ Room
    /\ IF trigger_effect \in loaded
       THEN /\ DspPlay(trigger_effect, "mbox")
            /\ cur_index' = trigger_effect
            /\ IF vibe_state_reporting
               THEN UNCHANGED <<effects_in_flight, vibe_state, reset_event>>
               ELSE Playback
            /\ erase_cont' = FALSE
       ELSE UNCHANGED <<dsp, cur_index, effects_in_flight, vibe_state, reset_event,
                        erase_cont>>
    /\ UNCHANGED <<loaded, owned, trigger_effect, erasing, worker, irq, setup>>

(* cs40l26_vibe_stop_worker, up to where it gives the lock up for the delay;
   without a delay it is one critical section. *)
VibeStop ==
    /\ Take("stop")
    /\ IF cur_index \in NoWait
       THEN UNCHANGED <<worker, dsp>>
       ELSE IF StopDelay
            THEN worker' = "stop_delay" /\ UNCHANGED dsp
            ELSE DspStop /\ UNCHANGED worker
    /\ UNCHANGED <<driver, owned, erasing, irq, setup>>

VibeStopDelayed ==
    /\ worker = "stop_delay" /\ ~irq
    /\ DspStop
    /\ worker' = "idle"
    /\ UNCHANGED <<driver, owned, erasing, wq, irq, setup>>

EraseDone(result) == erasing' = [erasing EXCEPT !.at = result]

(* The second half of cs40l26_erase_worker, under the lock. *)
ListDel ==
    /\ loaded' = loaded \ {erasing.effect}
    /\ EraseDone("erased")

(* cs40l26_erase_worker when no effect is believed to play. *)
EraseNow ==
    /\ Take("erase")
    /\ erasing.effect \in loaded
    /\ vibe_state # "HAPTIC"
    /\ ListDel
    /\ UNCHANGED <<trigger_effect, cur_index, effects_in_flight, vibe_state,
                   reset_event, erase_cont, owned, worker, irq, dsp, setup>>

(* ... when one is: it gives up the lock and waits. *)
EraseWaitStarts ==
    /\ Take("erase")
    /\ erasing.effect \in loaded
    /\ vibe_state = "HAPTIC"
    /\ worker' = "erase_wait"
    /\ UNCHANGED <<driver, owned, erasing, irq, dsp, setup>>

(* erase_cont was completed for good: the wait ends and the lock is retaken. *)
EraseWaitEnds ==
    /\ worker = "erase_wait"
    /\ erase_cont /\ ~irq
    /\ ListDel
    /\ worker' = "idle"
    /\ UNCHANGED <<trigger_effect, cur_index, effects_in_flight, vibe_state,
                   reset_event, erase_cont, owned, wq, irq, dsp, setup>>

(* A wake-up that is on its way comes before the timer runs out, because the
   timer is longer than the effect, unless the DSP is slow. *)
WakeUpComing ==
    \/ "COMPLETE_MBOX" \in ToSet(ring)
    \/ playing.by = "mbox" /\ WillComplete

(* MUTANT of EraseTimesOut: the wait starts over when its timer runs out. *)
EraseWaitsAgain ==
    /\ worker = "erase_wait"
    /\ ~erase_cont
    /\ UNCHANGED vars

EraseTimesOut ==
    /\ worker = "erase_wait"
    /\ ~erase_cont
    /\ SlowDsp \/ ~WakeUpComing
    /\ EraseDone("failed")
    /\ worker' = "idle"
    /\ UNCHANGED <<driver, owned, wq, irq, dsp, setup>>

Worker ==
    \/ VibeStart \/ VibeStop \/ VibeStopDelayed
    \/ EraseNow \/ EraseWaitStarts \/ EraseWaitEnds \/ EraseTimesOut

--------------------------------------------------------------------------------
(* cs40l26_handle_mbox_buffer holds the lock until it finds the ring empty. *)

IrqStart ==
    /\ ~irq /\ ring # <<>>
    /\ irq' = TRUE
    /\ UNCHANGED <<driver, owned, erasing, wq, worker, dsp, setup>>

Read(m) == irq /\ ring # <<>> /\ Head(ring) = m /\ ring' = Tail(ring)

HandleTrigger ==
    /\ Read("TRIGGER_CP") \/ Read("TRIGGER_GPIO")
    /\ Playback
    /\ UNCHANGED erase_cont

(* MUTANT of HandleComplete: an effect that completes is not counted out. *)
HandleCompleteUncounted ==
    \/ /\ Read("COMPLETE_MBOX")
       /\ erase_cont' = TRUE
       /\ UNCHANGED <<effects_in_flight, vibe_state, reset_event>>
    \/ /\ Read("COMPLETE_GPIO")
       /\ Complete
       /\ UNCHANGED erase_cont

(* MUTANT of HandleComplete: nobody is told of an effect that completes. *)
HandleCompleteSilently ==
    /\ Read("COMPLETE_MBOX") \/ Read("COMPLETE_GPIO")
    /\ Complete
    /\ UNCHANGED erase_cont

HandleComplete ==
    /\ \/ Read("COMPLETE_MBOX") /\ erase_cont' = TRUE
       \/ Read("COMPLETE_GPIO") /\ UNCHANGED erase_cont
    /\ Complete

HandleMessage ==
    /\ HandleTrigger \/ HandleComplete
    /\ UNCHANGED <<loaded, trigger_effect, cur_index, owned, erasing, wq, worker,
                   irq, playing, stopping, setup>>

IrqEnd ==
    /\ irq /\ ring = <<>>
    /\ irq' = FALSE
    /\ UNCHANGED <<driver, owned, erasing, wq, worker, dsp, setup>>

Irq == IrqStart \/ HandleMessage \/ IrqEnd

User ==
    \/ \E e \in Effects : Upload(e) \/ UserErase(e)
    \/ \E e \in Effects, start \in BOOLEAN : UserPlayback(e, start)

Next ==
    \/ User \/ EraseEffect \/ EraseReturns
    \/ Worker \/ Irq
    \/ DspComplete \/ \E e \in Effects : GpiEdge(e)

Spec == Init /\ [][Next]_vars

(* The kernel runs its worker, its interrupt thread and the erasing task; the
   DSP ends what it can end. *)
FairSpec ==
    /\ Spec
    /\ WF_vars(Worker) /\ WF_vars(Irq) /\ WF_vars(DspComplete)
    /\ WF_vars(EraseEffect) /\ WF_vars(EraseReturns)

--------------------------------------------------------------------------------
IsTrigger(m) == m \in {"TRIGGER_CP", "TRIGGER_GPIO"}

(* With firmware that reports every effect, the count and the unread messages
   together always say whether the DSP plays: the messages alternate, from what
   was counted to what plays, in every interleaving of requests, pads and
   interrupts (cs40l26_vibe_state_update). *)
InFlightExact ==
    vibe_state_reporting =>
        /\ effects_in_flight \in {0, 1}
        /\ \A k \in 1 .. Len(ring) :
                IsTrigger(ring[k]) <=> (effects_in_flight + k) % 2 = 1
        /\ playing # Silence <=> (effects_in_flight + Len(ring)) % 2 = 1

(* With that firmware no effect is counted in while another is still counted as
   playing, so a reset is never provoked by messages that all arrived ("Invalid
   effects_in_flight", cs40l26_vibe_state_update). *)
NoFalseReset == vibe_state_reporting => ~reset_event

(* An effect is not removed while the DSP plays it ("Check for ongoing effect
   playback", "Wait for effect to complete", cs40l26_erase_worker). *)
EraseWaits ==
    [][\A e \in loaded \ loaded' : playing.effect # e]_vars

(* ... which holds when the driver counts an effect as it starts it, no pad
   starts another, and user space starts one only when all is quiet. *)
CalmEraseWaits ==
    [][(calm /\ ~vibe_state_reporting /\ pads = {}) =>
            \A e \in loaded \ loaded' : playing.effect # e]_vars

(* While no pad is mapped, an erase that waits can still be woken, unless it
   already has been: the completion it waits for is never reset after the
   message that sets it (reinit_completion in cs40l26_vibe_start_worker). *)
NoLostWakeUp ==
    (pads = {} /\ worker = "erase_wait" /\ ~erase_cont) =>
        playing.by = "mbox" \/ "COMPLETE_MBOX" \in ToSet(ring)

(* Unless a pad keeps the interrupt thread busy for ever, every erase returns to
   its caller (flush_work in cs40l26_erase_effect). *)
EraseTerminates == (erasing.at = "asked" /\ pads = {}) ~> erasing.at = "none"
================================================================================
