---------------------------- MODULE Cs35l45Volume ----------------------------
(***************************************************************************)
(* The volume of the CS35L45 and the mode of its amplifier: a work ramps   *)
(* the volume up, in two slopes, when playback starts or the receiver      *)
(* gives way to the speaker, and may be aborted; controls set the volume   *)
(* and the ramp's parameters meanwhile.  Volumes are in steps of 1/8 dB,   *)
(* attenuations in dB, times in milliseconds.                              *)
(***************************************************************************)
EXTENDS Integers

CONSTANTS
    Volumes, Attenuations, Times,               \* stored by controls, some out of range
    Timeouts                                    \* of the automatic ramp

VARIABLES
    tuned,              \* the parameters a behaviour stores: "attenuation", "time", "timeout"
    pc,                 \* "idle", or what a control has left to do, and its value
    playing,            \* a stream plays
    spk,                \* the pin "SPK" is enabled
    amplifier_mode, prev_active_dev,
    recent,             \* dev_timestamp is within the timeout
    global_en, circuit, \* chip: GLOBAL_EN; which circuit is set up
    volume,             \* chip: AMP_VOL_PCM
    dig_vol, ramp_init_att, ramp_knee_att, ramp_knee_time, ramp_end_time, auto_ramp_timeout,
    manual_ramp, vol_ramp,
    ramp,               \* ramp_work: "idle", "queued", "knee", "end"
    knee_y, end_y,      \* what it took: volumes at the knee and at the end
    wanted,             \* history: the volume last stored
    strayed             \* history: dig_vol may be another: it was stored while a ramp went on,
                        \* or one out of range was, which the driver keeps and nothing plays

vars == <<tuned, pc, playing, spk, amplifier_mode, prev_active_dev, recent, global_en, circuit,
          volume, dig_vol, ramp_init_att, ramp_knee_att, ramp_knee_time, ramp_end_time,
          auto_ramp_timeout, manual_ramp, vol_ramp, ramp, knee_y, end_y, wanted,
                   strayed>>

ZERO_PCM_VOL == 817
MAX_PCM_VOL == 913
AMP_VOL_PCM_MUTE == 1231
MAX_VOL_ATT == 120
MAX_AUTO_RAMP_TIMEOUT == 65535

Modes == {"NONE", "SPK", "RCV"}
Parameters == <<ramp_init_att, ramp_knee_att, ramp_knee_time, ramp_end_time, auto_ramp_timeout>>
Work == <<volume, manual_ramp, vol_ramp, ramp, knee_y, end_y>>
Device == <<tuned, playing, spk, amplifier_mode, prev_active_dev, recent, global_en, circuit>>

VolumeAssumption ==
    Volumes \subseteq Int /\ Attenuations \subseteq Int /\ Times \subseteq Int
    /\ Timeouts \subseteq Int

(* What AMP_VOL_PCM, a number of eleven bits, sounds like. *)
Heard(r) == IF r >= AMP_VOL_PCM_MUTE THEN r - AMP_VOL_PCM_MUTE ELSE r + ZERO_PCM_VOL

TypeOK ==
    /\ tuned \in {"attenuation", "time", "timeout"}
    /\ pc \in {<<"idle", 0>>} \cup ({"volume"} \X Nat) \cup ({"manual"} \X {0, 1})
              \cup ({"mode", "ramp"} \X {"SPK", "RCV"})
    /\ playing \in BOOLEAN /\ spk \in BOOLEAN /\ recent \in BOOLEAN /\ global_en \in BOOLEAN
    /\ amplifier_mode \in Modes /\ prev_active_dev \in Modes /\ circuit \in {"SPK", "RCV"}
    /\ volume \in Nat /\ volume < 2048 /\ dig_vol \in Int
    /\ ramp_init_att \in Nat /\ ramp_init_att <= MAX_VOL_ATT
    /\ ramp_knee_att \in Nat /\ ramp_knee_att <= MAX_VOL_ATT
    /\ ramp_knee_time \in Nat /\ ramp_knee_time <= MAX_AUTO_RAMP_TIMEOUT
    /\ ramp_end_time \in Nat /\ ramp_end_time <= MAX_AUTO_RAMP_TIMEOUT
    /\ auto_ramp_timeout \in Nat /\ auto_ramp_timeout <= MAX_AUTO_RAMP_TIMEOUT
    /\ manual_ramp \in {0, 1} /\ vol_ramp \in BOOLEAN
    /\ ramp \in {"idle", "queued", "knee", "end"}
    /\ knee_y \in Nat /\ end_y \in Nat
    /\ wanted \in Nat /\ wanted <= MAX_PCM_VOL /\ strayed \in BOOLEAN

Idle == <<"idle", 0>>

Init ==
    /\ pc = Idle /\ playing = FALSE /\ spk = TRUE
    /\ amplifier_mode = "NONE" /\ prev_active_dev = "SPK" /\ recent = FALSE
    /\ global_en = FALSE /\ circuit = "SPK"
    /\ volume = 0 /\ dig_vol = ZERO_PCM_VOL
    /\ tuned \in {"attenuation", "time", "timeout"}
    /\ ramp_init_att = (IF tuned = "attenuation" THEN 0 ELSE 1) /\ ramp_knee_att = ramp_init_att
    /\ ramp_knee_time = (IF tuned = "time" THEN 0 ELSE 1) /\ ramp_end_time = ramp_knee_time
    /\ auto_ramp_timeout = 0 /\ manual_ramp = 0 /\ vol_ramp = FALSE
    /\ ramp = "idle" /\ knee_y = 0 /\ end_y = 0 /\ wanted = ZERO_PCM_VOL /\ strayed = FALSE

--------------------------------------------------------------------------------
(* cs35l45_set_vol: what the register holds then, when it held r; a volume out of range is
   refused. *)
SetOver(r, v) ==
    IF v \notin 0 .. MAX_PCM_VOL THEN r
    ELSE IF v < ZERO_PCM_VOL THEN v + AMP_VOL_PCM_MUTE ELSE v - ZERO_PCM_VOL

SetVol(v) == SetOver(volume, v)

Floor(v) == IF v < 0 THEN 0 ELSE v

(* cs35l45_vol_ramp0: the volume a slope begins with.  One that takes no time is at its end
   at once. *)
First(time, from, to) == IF time = 0 THEN to ELSE from

(* ... and what it ends with: steps are of whole microseconds, and when the volume arrives
   before the time, its last step is not written. *)
Last(time, from, to) ==
    LET us == time * 1000
        steps == to - from IN
    IF steps <= 0 \/ us < steps \/ us % steps = 0 THEN to ELSE to - 1

(* Of a slope out of the range the steps within are written. *)
Reached(time, from, to) ==
    IF time > 0 /\ from <= MAX_PCM_VOL /\ MAX_PCM_VOL < to THEN MAX_PCM_VOL
    ELSE Last(time, from, to)

InitY == Floor(dig_vol - (ramp_init_att * 8))

(* cs35l45_vol_ramp *)
VolRampStart ==
    /\ ramp = "queued" /\ ramp' = "knee" /\ vol_ramp' = TRUE
    /\ knee_y' = Floor(dig_vol - (ramp_knee_att * 8)) /\ end_y' = Floor(dig_vol)
    /\ volume' = SetVol(First(ramp_knee_time, InitY, knee_y'))
    /\ UNCHANGED <<pc, Device, dig_vol, Parameters, manual_ramp, wanted, strayed>>

VolRampKnee ==
    /\ ramp = "knee" /\ ramp' = "end"
    /\ LET knee == SetVol(Reached(ramp_knee_time, InitY, knee_y))
           first == SetOver(knee, First(ramp_end_time, knee_y, end_y)) IN
       volume' \in {first, SetOver(first, Reached(ramp_end_time, knee_y, end_y))}
    /\ UNCHANGED <<pc, Device, dig_vol, Parameters, manual_ramp, vol_ramp, knee_y, end_y, wanted,
                   strayed>>

(* The ramp is over, and the manual one with it. *)
RampOver == vol_ramp' = FALSE /\ manual_ramp' = 0 /\ knee_y' = 0 /\ end_y' = 0

VolRampEnd ==
    /\ ramp = "end"
    /\ volume' = SetVol(Reached(ramp_end_time, knee_y, end_y))
    /\ ramp' = "idle" /\ RampOver
    /\ UNCHANGED <<pc, Device, dig_vol, Parameters, wanted, strayed>>

(* cs35l45_abort_ramp: one that did not begin leaves no trace. *)
AbortRamp(next) ==
    /\ ramp' = next
    /\ IF ramp \in {"idle", "queued"}
       THEN UNCHANGED <<volume, vol_ramp, manual_ramp, knee_y, end_y>>
       ELSE volume' = SetVol(dig_vol) /\ RampOver

--------------------------------------------------------------------------------
(* cs35l45_need_auto_vol_ramp *)
NeedAutoVolRamp ==
    /\ prev_active_dev = "RCV" /\ amplifier_mode = "SPK" /\ auto_ramp_timeout # 0
    /\ auto_ramp_timeout = MAX_AUTO_RAMP_TIMEOUT \/ recent

(* cs35l45_global_en_ev, as amplifier_mode is then: the widget is powered while a stream
   plays to the pin. *)
GlobalEnEv(on, mode) ==
    /\ global_en' = on
    /\ IF on = global_en
       THEN UNCHANGED <<Work, prev_active_dev, recent>>
       ELSE IF on
       THEN /\ ramp' = IF ramp = "idle" /\ (manual_ramp = 1 \/ NeedAutoVolRamp) THEN "queued"
                       ELSE ramp
            /\ UNCHANGED <<volume, manual_ramp, vol_ramp, knee_y, end_y, prev_active_dev, recent>>
       ELSE /\ AbortRamp("idle")
            /\ prev_active_dev' = mode
            /\ recent' = (recent \/ (mode = "RCV"
                                     /\ auto_ramp_timeout \in 1 .. MAX_AUTO_RAMP_TIMEOUT - 1))

Stream ==
    /\ playing' = ~playing
    /\ GlobalEnEv(spk /\ playing', amplifier_mode)
    /\ UNCHANGED <<tuned, pc, spk, amplifier_mode, circuit, dig_vol, Parameters, wanted, strayed>>

TimeoutPasses ==
    /\ recent /\ recent' = FALSE
    /\ UNCHANGED <<tuned, pc, playing, spk, amplifier_mode, prev_active_dev, global_en, circuit,
                   dig_vol, Parameters, Work, wanted, strayed>>

(* MUTANT of AmplifierModePut: the pin is left enabled. *)
AmplifierModePutLive ==
    /\ pc = Idle
    /\ \E mode \in Modes : pc' = <<"mode", mode>>
    /\ UNCHANGED <<Device, dig_vol, Parameters, Work, wanted, strayed>>

(* cs35l45_amplifier_mode_put: the pin goes down; the mode "NONE" is taken before that, *)
AmplifierModePut ==
    /\ pc = Idle
    /\ \E mode \in Modes :
         /\ pc' = IF mode = "NONE" THEN Idle ELSE <<"mode", mode>>
         /\ amplifier_mode' = IF mode = "NONE" THEN mode ELSE amplifier_mode
         /\ GlobalEnEv(FALSE, amplifier_mode')
    /\ spk' = FALSE
    /\ UNCHANGED <<tuned, playing, circuit, dig_vol, Parameters, wanted, strayed>>

(* the circuit is changed, and the pin goes up. *)
AmplifierModeSet ==
    /\ pc[1] = "mode"
    /\ circuit' = pc[2] /\ spk' = TRUE
    /\ GlobalEnEv(playing, amplifier_mode)
    /\ pc' = <<"ramp", pc[2]>>
    /\ UNCHANGED <<tuned, playing, amplifier_mode, dig_vol, Parameters, wanted, strayed>>

(* A ramp from the receiver to the speaker while a stream plays. *)
AmplifierModeRamp ==
    /\ pc[1] = "ramp" /\ pc' = Idle
    /\ IF pc[2] = "SPK" /\ global_en /\ auto_ramp_timeout > 0 /\ amplifier_mode = "RCV"
       THEN AbortRamp("queued")
       ELSE UNCHANGED Work
    /\ amplifier_mode' = pc[2]
    /\ UNCHANGED <<tuned, playing, spk, prev_active_dev, recent, global_en, circuit, dig_vol,
                   Parameters, wanted, strayed>>

(* cs35l45_put_manual_ramp: an edge starts or ends a ramp, *)
PutManualRamp ==
    /\ pc = Idle
    /\ \E v \in {0, 1} :
         /\ pc' = <<"manual", v>>
         /\ IF v # manual_ramp /\ global_en
            THEN AbortRamp(IF v = 1 THEN "queued" ELSE "idle")
            ELSE UNCHANGED Work
    /\ UNCHANGED <<Device, dig_vol, Parameters, wanted, strayed>>

(* and the value is taken. *)
ManualRampSet ==
    /\ pc[1] = "manual" /\ pc' = Idle /\ manual_ramp' = pc[2]
    /\ UNCHANGED <<Device, dig_vol, Parameters, volume, vol_ramp, ramp, knee_y, end_y, wanted,
                   strayed>>

(* cs35l45_snd_soc_put_volsw_sx: the volume is kept, whatever it is, unless a ramp goes on, *)
PutVolswSx ==
    /\ pc = Idle
    /\ \E v \in Volumes :
         /\ dig_vol' = IF vol_ramp THEN dig_vol ELSE v
         /\ volume' = IF vol_ramp THEN volume ELSE SetVol(v)
         /\ IF v \in 0 .. MAX_PCM_VOL
            THEN pc' = <<"volume", v>> /\ wanted' = v /\ strayed' = vol_ramp
            ELSE UNCHANGED <<pc, wanted>> /\ strayed' = (strayed \/ ~vol_ramp)
    /\ UNCHANGED <<Device, Parameters, manual_ramp, vol_ramp, ramp, knee_y, end_y>>

(* and the register is written in any case, unless ALSA refuses the volume. *)
VolswSxWrite ==
    /\ pc[1] = "volume" /\ pc' = Idle /\ volume' = (pc[2] + AMP_VOL_PCM_MUTE) % 2048
    /\ UNCHANGED <<Device, dig_vol, Parameters, manual_ramp, vol_ramp, ramp, knee_y, end_y, wanted,
                   strayed>>

Within(v, bound) == 0 <= v /\ v <= bound

(* The parameters' controls: stores while a ramp goes on are ignored. *)
PutInitAttenuation(v) ==
    /\ ramp_init_att' = IF Within(v, MAX_VOL_ATT) /\ ~vol_ramp THEN v ELSE ramp_init_att
    /\ UNCHANGED <<ramp_knee_att, ramp_knee_time, ramp_end_time, auto_ramp_timeout>>

PutKneeAttenuation(v) ==
    /\ ramp_knee_att' = IF Within(v, MAX_VOL_ATT) /\ ~vol_ramp THEN v ELSE ramp_knee_att
    /\ UNCHANGED <<ramp_init_att, ramp_knee_time, ramp_end_time, auto_ramp_timeout>>

PutRampKneeTime(v) ==
    /\ ramp_knee_time' =
           IF Within(v, MAX_AUTO_RAMP_TIMEOUT) /\ ~vol_ramp THEN v ELSE ramp_knee_time
    /\ UNCHANGED <<ramp_init_att, ramp_knee_att, ramp_end_time, auto_ramp_timeout>>

PutRampEndTime(v) ==
    /\ ramp_end_time' = IF Within(v, MAX_AUTO_RAMP_TIMEOUT) /\ ~vol_ramp THEN v ELSE ramp_end_time
    /\ UNCHANGED <<ramp_init_att, ramp_knee_att, ramp_knee_time, auto_ramp_timeout>>

PutAutoRampTimeout(v) ==
    /\ auto_ramp_timeout' = IF Within(v, MAX_AUTO_RAMP_TIMEOUT) THEN v ELSE auto_ramp_timeout
    /\ UNCHANGED <<ramp_init_att, ramp_knee_att, ramp_knee_time, ramp_end_time>>

PutParameter ==
    /\ pc = Idle
    /\ \/ /\ tuned = "attenuation"
          /\ \E v \in Attenuations : PutInitAttenuation(v) \/ PutKneeAttenuation(v)
       \/ tuned = "time" /\ \E v \in Times : PutRampKneeTime(v) \/ PutRampEndTime(v)
       \/ tuned = "timeout" /\ \E v \in Timeouts : PutAutoRampTimeout(v)
    /\ UNCHANGED <<pc, Device, dig_vol, Work, wanted, strayed>>

Next ==
    \/ VolRampStart \/ VolRampKnee \/ VolRampEnd
    \/ Stream \/ TimeoutPasses \/ AmplifierModePut \/ AmplifierModeSet \/ AmplifierModeRamp
    \/ PutManualRamp \/ ManualRampSet \/ PutVolswSx \/ VolswSxWrite \/ PutParameter

Spec == Init /\ [][Next]_vars

--------------------------------------------------------------------------------
(* The circuit is changed while the amplifier is off, whatever streams do meanwhile.  And
   whatever is aborted, restarted or switched, a ramp is never louder than the volume stored
   last; and when none goes on, the volume is that one, or one step below.  This does not
   hold of a store that raced with a ramp, which the driver forgets, nor after a volume out
   of range, which it keeps for its ramps. *)
VolumeSafe ==
    /\ pc[1] = "mode" => ~global_en
    /\ ~strayed =>
           /\ Heard(volume) <= dig_vol
           /\ ramp \in {"idle", "queued"} =>
                  Heard(volume) \in {dig_vol - 1, dig_vol} /\ dig_vol = wanted
==============================================================================
