----------------------------- MODULE Audiometrics -----------------------------
(***************************************************************************)
(* The audio metrics device: the HAL adds to counters by ioctl, a service   *)
(* reads each of them once a day through sysfs, which starts it anew.  Most *)
(* do both under one lock.  A behaviour is about one group of counters.     *)
(***************************************************************************)
EXTENDS Integers, FiniteSetsExt

CONSTANTS
    Adders,             \* threads of the HAL
    MaxAdded,           \* bound: what is added to a counter
    Effects,            \* offload effects
    MaxEffects          \* OFFLOAD_EFFECTS_COUNT_MAX

MetricsAssumption ==
    /\ MaxAdded \in Nat /\ MaxEffects \in Nat \ {0} /\ "none" \notin Effects

VARIABLES
    group,              \* what the behaviour is about
    held,               \* sz: the counters of the group
    added, reported,    \* what was added to each, what readers were told of it
    spilled,            \* history: counters that a feature which does not exist was added to
    adder,              \* a thread that adds without the lock: what it read, or -1
    clearing,           \* counters a reader has reported, and will set to zero
    effect_uuid, effect_seconds, offload_effects_count,
    owner               \* whose seconds these are

vars == <<group, held, added, reported, spilled, adder, clearing, effect_uuid, effect_seconds,
          offload_effects_count, owner>>

Groups ==
    [ams |-> {"ams_count", "cs_count"},
     cca |-> {"cca_active", "cca_enable"},
     waves |-> {"waves_volume_ms"},
     adapted |-> {"adapted_count", "adapted_ms"},
     latency |-> {"pcm_latency_sum", "pcm_latency_count"},
     pcm |-> {"pcm_active_count"},
     bt |-> {"bt_active_duration"},
     noise |-> {"voice_noise_duration"},
     record |-> {"dsp_usage_count", "dsp_usage_duration"},
     call |-> {"voice_call_count", "voip_call_count"},
     restart |-> {"hal_restart_count", "dsp_restart_count"},
     offload |-> {}]

Counters == Groups[group]
Slots == 1 .. MaxEffects
Nobody == [i \in Slots |-> "none"]

TypeOK ==
    /\ group \in DOMAIN Groups
    /\ held \in [Counters -> Nat]
    /\ added \in [Counters -> 0 .. MaxAdded]
    /\ reported \in [Counters -> Nat]
    /\ adder \in [Adders -> Int]
    /\ spilled \subseteq Counters /\ clearing \subseteq Counters
    /\ effect_uuid \in [Slots -> Effects \cup {"none"}] /\ owner \in [Slots -> Effects \cup {"none"}]
    /\ effect_seconds \in [Slots -> 0 .. MaxAdded]
    /\ offload_effects_count \in 0 .. MaxEffects

Init ==
    /\ group \in DOMAIN Groups
    /\ held = [c \in Counters |-> 0] /\ added = held /\ reported = held
    /\ adder = [a \in Adders |-> -1] /\ spilled = {} /\ clearing = {}
    /\ effect_uuid = Nobody /\ owner = Nobody /\ effect_seconds = [i \in Slots |-> 0]
    /\ offload_effects_count = 0

offload_vars == <<effect_uuid, effect_seconds, offload_effects_count, owner>>

(* An ioctl that adds to counters, at an index that exists, under the lock. *)
Increase(counters) ==
    /\ counters \subseteq Counters
    /\ \A c \in counters : added[c] < MaxAdded
    /\ held' = [c \in Counters |-> IF c \in counters THEN held[c] + 1 ELSE held[c]]
    /\ added' = [c \in Counters |-> IF c \in counters THEN added[c] + 1 ELSE added[c]]
    /\ UNCHANGED <<group, reported, spilled, adder, clearing, offload_vars>>

(* AMCS_OP2_SET: the counts are corrected.  What was told stays told. *)
Set ==
    /\ held' \in [Counters -> 0 .. MaxAdded]
    /\ \A c \in Counters : reported[c] + held'[c] <= MaxAdded
    /\ added' = [c \in Counters |-> reported[c] + held'[c]]
    /\ UNCHANGED <<group, reported, spilled, adder, clearing, offload_vars>>

(* More than was added is not told apart. *)
Told(c) == Min({reported[c] + held[c], MaxAdded + 1})

(* A show function under the lock: it reports some counters, and clears some. *)
Show(counters, cleared) ==
    /\ counters \subseteq Counters
    /\ reported' = [c \in Counters |-> IF c \in counters THEN Told(c) ELSE reported[c]]
    /\ held' = [c \in Counters |-> IF c \in cleared THEN 0 ELSE held[c]]
    /\ UNCHANGED <<group, added, spilled, adder, clearing, offload_vars>>

--------------------------------------------------------------------------------
AMCS_OP_ADAPTED_INFO_FEATURE == 23
ADAPTED_INFO_FEATURES_MAX == 6

(* The array in which element f of the counts lies, and of the durations, when there are
   ADAPTED_INFO_FEATURES_MAX of each: those of five codecs and 19 PCM types come next. *)
CountCell(f) ==
    CASE f < 6 -> "adapted_count" [] f \in 6 .. 11 -> "adapted_ms"
      [] f \in 12 .. 16 -> "bt_active_duration" [] OTHER -> "pcm_latency_sum"
DurationCell(f) ==
    CASE f < 6 -> "adapted_ms" [] f \in 6 .. 10 -> "bt_active_duration"
      [] OTHER -> "pcm_latency_sum"

(* A feature that does not exist is added to what lies there; a bound: once to a counter. *)
Spill(f) ==
    LET into == {CountCell(f), DurationCell(f)} \cap Counters IN
    /\ into # {} /\ into \cap spilled = {}
    /\ held' = [c \in Counters |-> held[c] + (IF c = CountCell(f) THEN 1 ELSE 0)
                                           + (IF c = DurationCell(f) THEN 1 ELSE 0)]
    /\ spilled' = spilled \cup into
    /\ UNCHANGED <<group, added, reported, adder, clearing, offload_vars>>

(* amcs_cdev_unlocked_ioctl, by op. *)
AmsIncrease == group = "ams" /\ \E n \in SUBSET Counters : Increase(n)
AmsSet == group = "ams" /\ Set
CcaSet == group = "cca" /\ Set
CcaIncrease == group = "cca" /\ \E n \in SUBSET Counters : Increase(n)
WavesVolumeIncrease == Increase({"waves_volume_ms"})
(* The index is compared with the number of the op, not with that of the features. *)
AdaptedInfoFeature ==
    \E f \in 0 .. AMCS_OP_ADAPTED_INFO_FEATURE - 1 :
        IF f < ADAPTED_INFO_FEATURES_MAX THEN Increase({"adapted_count", "adapted_ms"})
        ELSE Spill(f)
BtActiveDurationIncrease == Increase({"bt_active_duration"})
AddPcmLatency == Increase({"pcm_latency_sum", "pcm_latency_count"})
PcmActiveCountIncrease == Increase({"pcm_active_count"})
VoiceInfoNoiseLevel == Increase({"voice_noise_duration"})
DspRecordUsageDurationIncrease == Increase({"dsp_usage_duration"})
DspRecordUsageCountIncrease == Increase({"dsp_usage_count"})
SoftwareRestartIncrease == group = "restart" /\ \E n \in SUBSET Counters : Increase(n)

(* AMCS_OP_CALL_COUNT_INCREASE takes no lock: the counter is read, and written. *)
CallCountRead(a) ==
    /\ group = "call" /\ adder[a] = -1
    /\ added["voice_call_count"] < MaxAdded
    /\ adder' = [adder EXCEPT ![a] = held["voice_call_count"]]
    /\ UNCHANGED <<group, held, added, reported, spilled, clearing, offload_vars>>

CallCountWrite(a) ==
    /\ adder[a] >= 0 /\ adder' = [adder EXCEPT ![a] = -1]
    /\ added["voice_call_count"] < MaxAdded
    /\ held' = [held EXCEPT !["voice_call_count"] = adder[a] + 1]
    /\ added' = [added EXCEPT !["voice_call_count"] = @ + 1]
    /\ UNCHANGED <<group, reported, spilled, clearing, offload_vars>>

(* The slot of an effect; none is found when a reader has taken the ids. *)
Found(e) == {i \in 1 .. offload_effects_count : effect_uuid[i] = e}

(* AMCS_OP_OFFLOAD_EFFECT_DURATION; refused when the table is full. *)
OffloadEffectDuration ==
    /\ group = "offload"
    /\ \E e \in Effects, i \in Slots :
         /\ IF Found(e) # {} THEN i \in Found(e) /\ \A j \in Found(e) : i <= j
            ELSE i = offload_effects_count + 1
         /\ effect_seconds[i] < MaxAdded
         /\ effect_seconds' = [effect_seconds EXCEPT ![i] = @ + 1]
         /\ IF Found(e) # {} THEN UNCHANGED <<effect_uuid, offload_effects_count>>
            ELSE effect_uuid' = [effect_uuid EXCEPT ![i] = e] /\ offload_effects_count' = i
         /\ owner' = [owner EXCEPT ![i] = e]
    /\ UNCHANGED <<group, held, added, reported, spilled, adder, clearing>>

--------------------------------------------------------------------------------
(* The attributes. *)
(* The rate of the one count over the other, at most one, and zero of none: what the first
   exceeds the second by is not told.  Both start anew. *)
AmsRateReadOnce ==
    /\ group = "ams"
    /\ reported' = [c \in Counters |->
                       IF c = "cs_count" THEN Told(c)
                       ELSE reported[c] + Min({held["ams_count"], held["cs_count"]})]
    /\ held' = [c \in Counters |-> 0]
    /\ UNCHANGED <<group, added, spilled, adder, clearing, offload_vars>>
CcaCountReadOnce == Show({"cca_active", "cca_enable"}, {"cca_active", "cca_enable"})
Waves == Show({"waves_volume_ms"}, {"waves_volume_ms"})
AdaptedInfoActiveCount == Show({"adapted_count"}, {"adapted_count"})
AdaptedInfoActiveDuration == Show({"adapted_ms"}, {"adapted_ms"})
(* An average, which tells of the sum and the count. *)
PcmLatency ==
    Show({"pcm_latency_sum", "pcm_latency_count"}, {"pcm_latency_sum", "pcm_latency_count"})
PcmCount == Show({"pcm_active_count"}, {"pcm_active_count"})
(* Refused while no driver has registered for PDM. *)
BtUsage == Show({"bt_active_duration"}, {"bt_active_duration"})
VoiceInfoNoiseLevelShow == Show({"voice_noise_duration"}, {"voice_noise_duration"})
DspRecordCount == Show({"dsp_usage_count"}, {"dsp_usage_count"})
DspRecordDuration == Show({"dsp_usage_duration"}, {"dsp_usage_count"})
(* MUTANT of AudioSoftwareRestartCount: one of the two is cleared. *)
AudioSoftwareRestartCountHalf ==
    Show({"hal_restart_count", "dsp_restart_count"}, {"hal_restart_count"})

AudioSoftwareRestartCount ==
    Show({"hal_restart_count", "dsp_restart_count"}, {"hal_restart_count", "dsp_restart_count"})

(* call_count_show: reported under the lock, set to zero after it was given up. *)
CallCount ==
    /\ group = "call" /\ clearing = {}
    /\ reported' = [c \in Counters |-> Told(c)]
    /\ clearing' = Counters
    /\ UNCHANGED <<group, held, added, spilled, adder, offload_vars>>

CallCountClear ==
    /\ clearing # {}
    /\ \E c \in clearing :
         /\ c = "voip_call_count" => clearing = {c}
         /\ held' = [held EXCEPT ![c] = 0] /\ clearing' = clearing \ {c}
    /\ UNCHANGED <<group, added, reported, spilled, adder, offload_vars>>

OffloadEffectsId ==
    /\ group = "offload"
    /\ effect_uuid' = Nobody
    /\ UNCHANGED <<group, held, added, reported, spilled, adder, clearing, effect_seconds,
                   offload_effects_count, owner>>

OffloadEffectsDuration ==
    /\ group = "offload"
    /\ effect_seconds' = [i \in Slots |-> 0] /\ offload_effects_count' = 0
    /\ owner' = Nobody
    /\ UNCHANGED <<group, held, added, reported, spilled, adder, clearing, effect_uuid>>

Adds ==
    \/ AmsIncrease \/ AmsSet \/ CcaIncrease \/ CcaSet \/ WavesVolumeIncrease \/ AdaptedInfoFeature
    \/ BtActiveDurationIncrease \/ AddPcmLatency \/ PcmActiveCountIncrease
    \/ VoiceInfoNoiseLevel \/ DspRecordUsageDurationIncrease \/ DspRecordUsageCountIncrease
    \/ SoftwareRestartIncrease \/ OffloadEffectDuration
    \/ \E a \in Adders : CallCountRead(a) \/ CallCountWrite(a)

Shows ==
    \/ AmsRateReadOnce \/ CcaCountReadOnce \/ Waves \/ AdaptedInfoActiveCount
    \/ AdaptedInfoActiveDuration \/ PcmLatency \/ PcmCount \/ BtUsage
    \/ VoiceInfoNoiseLevelShow \/ DspRecordCount \/ DspRecordDuration \/ CallCount
    \/ CallCountClear \/ AudioSoftwareRestartCount \/ OffloadEffectsId \/ OffloadEffectsDuration

Next == Adds \/ Shows

--------------------------------------------------------------------------------
(* What is added to a counter is reported once, or still held, whichever threads add and
   read; but for DSP records, where the duration's reader clears the count, for calls,
   counted and cleared without the lock, and for the three arrays behind those of the
   features, once a feature that does not exist was added to them.  A rate never tells of
   more than was added, but of less if it was capped. *)
ReportedOnce ==
    \A c \in Counters \ spilled :
        group \notin {"record", "call"} =>
            IF c = "ams_count" THEN held[c] + reported[c] <= added[c]
            ELSE held[c] + reported[c] = added[c]

(* The ids of offload effects and their seconds are read apart, and belong together: a
   slot's id is that of the effect whose seconds it counts, or was taken by a reader,
   and an effect has one slot unless a reader came between. *)
OffloadPaired ==
    \A i \in 1 .. offload_effects_count :
        /\ effect_uuid[i] \in {owner[i], "none"}
        /\ \A j \in 1 .. i - 1 : owner[j] = owner[i] => effect_uuid[j] = "none"
===============================================================================
