------------------------------ MODULE MCCs40l2x ------------------------------
(***************************************************************************)
(* The driver of the CS40L25 checked in one run: its playback on a number  *)
(* of boards, the strings of its playback queue, and its settings.  Their  *)
(* properties are about different state, so a behaviour exercises one of   *)
(* the three, chosen at its start, and the state of the others stays       *)
(* initial.                                                                *)
(***************************************************************************)
EXTENDS Integers

CONSTANTS
    Parts,                                              \* of "vibe", "queue", "settings"
    Setups, Scales, FreshScale, MaxWakes,               \* Cs40l2xVibe
    Waveforms, Lengths, Delays, Counts, Marker,         \* Cs40l2xQueue
    MaxSections, MaxTokens, MaxTokensLater, MaxPlayed,
    Cached, Uncached, Values, FreshValue, Remaps,       \* Cs40l2xSettings
    Addresses, Address, CacheMax, WseqMax, amp_gnd_stby

VARIABLES
    part,               \* what a behaviour exercises
    setup, lock, queue, vibe_state, wakes, pbq_state, cp_trigger_index, cp_trailer_index,
    diag_state, vibe_fw, user_scale, scale, pbq_cp_dig_scale, dig_scale, diag_dig_scale,
    a2h_enable, vibe_chip, grounded, plays, ending, trigger_stop, gpio_stop, pbq_timer, asp_timer,
    written, pbq_comp, queue_stored, walk_state, pbq_index, pbq_inner_mark, pbq_inner_loop,
    pbq_outer_loop, launching, played, replaced, stale,
    fw, fw_id_remap, dsp_cache, comp_enable, wseq_table, chip, memory, volume, wanted,
    wanted_volume, foreign, overwritten

Vibe == INSTANCE Cs40l2xVibe
    WITH Default <- FreshScale, fw <- vibe_fw, chip <- vibe_chip, volume <- dig_scale

Queue == INSTANCE Cs40l2xQueue WITH pbq_state <- walk_state

Settings == INSTANCE Cs40l2xSettings WITH Default <- FreshValue

(* Values for a run: two waveforms; two attributes that are cached and one that is not, of
   which one firmware moves the cached ones, and calibration lacks most, and has one where
   the others have another. *)
SampleLengths == [w \in {"A", "B"} |-> IF w = "A" THEN 3 ELSE 5]

Places ==
    [f \in {"R1", "R2", "CAL"} |->
        CASE f = "R1" -> [c1 |-> "m1", c2 |-> "m2", u |-> "m3", comp_enable |-> "m4"]
          [] f = "R2" -> [c1 |-> "m2", c2 |-> "m4", u |-> "m3", comp_enable |-> "m1"]
          [] OTHER -> [c1 |-> "m3", c2 |-> "None", u |-> "m2", comp_enable |-> "None"]]

ASSUME PartsAssumption ==
    /\ Parts \subseteq {"vibe", "queue", "settings"}
    /\ Vibe!VibeAssumption /\ Queue!QueueAssumption /\ Settings!SettingsAssumption

vibe_vars == <<setup, lock, queue, vibe_state, wakes, pbq_state, cp_trigger_index, cp_trailer_index,
               diag_state, vibe_fw, user_scale, scale, pbq_cp_dig_scale, dig_scale, diag_dig_scale,
               a2h_enable, vibe_chip, grounded, plays, ending, trigger_stop, gpio_stop, pbq_timer,
               asp_timer>>
queue_vars == <<written, pbq_comp, queue_stored, walk_state, pbq_index, pbq_inner_mark,
                pbq_inner_loop, pbq_outer_loop, launching, played, replaced, stale>>
settings_vars == <<fw, fw_id_remap, dsp_cache, comp_enable, wseq_table, chip, memory, volume,
                   wanted, wanted_volume, foreign, overwritten>>
vars == <<part, vibe_vars, queue_vars, settings_vars>>

(* The initial states of the parts that are not exercised are all the same to the one
   that is. *)
Init ==
    /\ part \in Parts
    /\ Vibe!Init /\ (part # "vibe" => setup = CHOOSE s \in Setups : TRUE)
    /\ Queue!Init
    /\ Settings!Init /\ (part # "settings" => fw = CHOOSE r \in Remaps : TRUE)

Others(p) ==
    /\ part = p /\ UNCHANGED part
    /\ IF p = "vibe" THEN TRUE ELSE UNCHANGED vibe_vars
    /\ IF p = "queue" THEN TRUE ELSE UNCHANGED queue_vars
    /\ IF p = "settings" THEN TRUE ELSE UNCHANGED settings_vars

Next ==
    \/ part = "vibe" /\ Vibe!Next /\ Others("vibe")
    \/ part = "queue" /\ Queue!Next /\ Others("queue")
    \/ part = "settings" /\ Settings!Next /\ Others("settings")

(* The driver's work queue, timers and interrupt thread are served, the DSP ends what it
   plays, and a launch of the queue that is under way goes on. *)
Spec ==
    /\ Init /\ [][Next]_vars
    /\ WF_vars(part = "vibe" /\ Vibe!Work /\ Others("vibe"))
    /\ WF_vars(part = "vibe" /\ Vibe!Irq /\ Others("vibe"))
    /\ WF_vars(part = "vibe" /\ Vibe!PbqTimer /\ Others("vibe"))
    /\ WF_vars(part = "vibe" /\ Vibe!AspTimer /\ Others("vibe"))
    /\ WF_vars(part = "vibe" /\ Vibe!DspEnds /\ Others("vibe"))
    /\ WF_vars(part = "queue" /\ Queue!Launch /\ Others("queue"))

------------------------------------------------------------------------------
(* The state of every part is well formed. *)
TypeOK == part \in Parts /\ Vibe!TypeOK /\ Queue!TypeOK /\ Settings!TypeOK

(* Cs40l2xVibe: the suspend blocker is held while the driver takes itself to run. *)
WakeFollowsState == Vibe!WakeFollowsState

(* Cs40l2xVibe: the amplifier is not clamped while it is meant to drive. *)
FreeWhilePlaying == Vibe!FreeWhilePlaying

(* What queues and measurements of Cs40l2xVibe change for themselves is put back, and the
   settings of Cs40l2xSettings outlive swaps, resets and recoveries. *)
SettingsKept == Vibe!GainsKept /\ Settings!Restored

(* A playback queue of Cs40l2xVibe is taken on; one of Cs40l2xQueue plays what was written,
   but for two cases, and the length computed for it is the one of what was written. *)
QueueExact == Vibe!QueueDriven /\ Queue!LengthExact /\ Queue!PlaysAsWritten

(* The end of an effect of Cs40l2xVibe is noticed, and a launch of Cs40l2xQueue ends. *)
PlaybackEnds == Vibe!EndNoticed /\ Queue!LaunchEnds
==============================================================================
