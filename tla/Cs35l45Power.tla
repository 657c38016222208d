---------------------------- MODULE Cs35l45Power ----------------------------
(***************************************************************************)
(* The DSP of the CS35L45 amplifier: booted by a control, resumed and      *)
(* paused by works that DAPM events queue and that wait for the answer to  *)
(* a mailbox command; hibernation by runtime suspend, after which the      *)
(* registers are written anew; the controls and the stream's parameters.   *)
(*                                                                         *)
(* The firmware is preloaded, and the device tree allows hibernation.      *)
(* Control stores are serialised by the card.                              *)
(***************************************************************************)
EXTENDS Integers

CONSTANTS
    Setups,             \* what happens: "steady"; "slow": the DSP answers late and the chip may
                        \* not wake up; "repeat": the boot switch is stored again as it is
    MaxUsage            \* bound of the usage count, the repeated stores'

PowerAssumption == Setups \subseteq {"steady", "slow", "repeat"} /\ MaxUsage \in Nat

VARIABLES
    setup,
    setting,            \* the setting a behaviour is about
    boot,               \* pin "DSP1" is forced
    boot_pc,            \* "idle", or "stop": cs35l45_dsp_boot_put powers the DSP down
    open,               \* "closed", "opened", "playing": a stream, which holds a reference
    power,              \* DAPM: widget "DSP1 Power"
    pmu, pmd,           \* dsp_pmu_work, dsp_pmd_work: "idle", "queued", or "sent"
    usage, rpm, runtime_error,                  \* kernel: runtime power management
    irq,                \* kernel: the line is enabled
    force_int,
    virt2_mbox_comp,    \* the completion
    mbox,               \* chip: a command the DSP has not read
    dsp, asleep,        \* chip: the firmware's state, and hibernation
    cache_only,         \* regmap
    kept,               \* regmap: the setting in its cache
    chip,               \* chip: the setting
    wanted,             \* what was last asked for
    classh,             \* chip: class H
    classh_tracking

vars == <<setup, setting, boot, boot_pc, open, power, pmu, pmd, usage, rpm, runtime_error, irq, force_int,
          virt2_mbox_comp, mbox, dsp, asleep, cache_only, kept, chip, wanted, classh,
          classh_tracking>>

Commands == {"RESUME", "PAUSE", "HIBERNATE"}

(* Registers, by who writes them: the device tree's; the controls that are saved over
   hibernation; those that are not; the stream's rate; the clock; the format; class H. *)
Settings == {"of", "mixer", "other", "rate", "clock", "fmt"}
Values == {"reset", "a", "b"}
Power == <<setting, boot, boot_pc, open, power>>
Bus == <<asleep, cache_only, kept, chip, wanted, classh, classh_tracking>>

TypeOK ==
    /\ setup \in Setups /\ boot \in BOOLEAN /\ boot_pc \in {"idle", "stop"}
    /\ open \in {"closed", "opened", "playing"} /\ power \in BOOLEAN
    /\ pmu \in {"idle", "queued", "sent"} /\ pmd \in {"idle", "queued", "sent"}
    /\ usage \in 0 .. MaxUsage + 3 /\ rpm \in {"active", "suspended"}
    /\ runtime_error \in BOOLEAN /\ irq \in BOOLEAN /\ force_int \in BOOLEAN
    /\ virt2_mbox_comp \in BOOLEAN /\ mbox \in Commands \cup {"none"}
    /\ dsp \in {"off", "paused", "running"} /\ asleep \in BOOLEAN
    /\ cache_only \in BOOLEAN /\ kept \in Values /\ chip \in Values /\ wanted \in Values
    /\ classh \in BOOLEAN /\ classh_tracking \in BOOLEAN /\ setting \in Settings

(* cs35l45_apply_of_data and what the others leave. *)
AfterReset == IF setting = "of" THEN "a" ELSE "reset"

(* DAPM holds a reference while "DSP1 Preload" is powered. *)
Init ==
    /\ setup \in Setups
    /\ boot = FALSE /\ boot_pc = "idle" /\ open = "closed" /\ power = FALSE
    /\ pmu = "idle" /\ pmd = "idle" /\ usage = 1 /\ rpm = "active" /\ runtime_error = FALSE
    /\ irq = TRUE /\ force_int = FALSE /\ virt2_mbox_comp = FALSE /\ mbox = "none"
    /\ dsp = "off" /\ asleep = FALSE /\ cache_only = FALSE
    /\ setting \in Settings /\ kept = AfterReset /\ chip = AfterReset /\ wanted = AfterReset
    /\ classh = TRUE /\ classh_tracking = TRUE

--------------------------------------------------------------------------------
(* MUTANT of PowerEv: the works are not waited for. *)
PowerEvUnordered(on) ==
    /\ power' = on
    /\ pmu' = IF on /\ ~power THEN "queued" ELSE pmu
    /\ pmd' = IF ~on /\ power THEN "queued" ELSE pmd

(* cs35l45_dsp_power_ev, when the widget's power changes: the work of the opposite
   event is waited for. *)
PowerEv(on) ==
    /\ power' = on
    /\ CASE on /\ ~power -> pmd = "idle" /\ pmu' = "queued" /\ UNCHANGED pmd
         [] ~on /\ power -> pmu = "idle" /\ pmd' = "queued" /\ UNCHANGED pmu
         [] OTHER -> UNCHANGED <<pmu, pmd>>

(* MUTANT of MixerCache: nothing is saved. *)
MixerCacheNone == {}

(* mixer_cache *)
MixerCache == {"mixer"}

(* __cs35l45_initialize and what cs35l45_hibernate writes around it, from the cache as it was. *)
Reinitialized == IF setting \in MixerCache THEN kept ELSE AfterReset

(* cs35l45_resume_runtime, cs35l45_hibernate(HIBER_MODE_DIS): the DSP reads its command in
   the time it is given.  A chip that does not answer is left with its cache dropped. *)
ResumeRuntime(tracking) ==
    \/ /\ rpm' = "active" /\ cache_only' = FALSE /\ asleep' = FALSE
       /\ mbox' = "none" /\ dsp' = "paused"
       /\ chip' = Reinitialized /\ kept' = Reinitialized
       /\ classh' = TRUE /\ classh_tracking' = TRUE
       /\ UNCHANGED runtime_error
    \/ /\ setup = "slow" /\ runtime_error' = TRUE /\ cache_only' = FALSE
       /\ classh_tracking' = tracking
       /\ UNCHANGED <<rpm, asleep, mbox, dsp, chip, kept, classh>>

(* pm_runtime_resume_and_get: no reference is taken when it fails. *)
ResumeAndGet ==
    /\ IF rpm = "active" \/ runtime_error
       THEN UNCHANGED <<rpm, cache_only, asleep, mbox, dsp, chip, kept, classh,
                        classh_tracking, runtime_error>>
       ELSE ResumeRuntime(classh_tracking)
    /\ usage' = IF runtime_error' THEN usage ELSE usage + 1

Drop(n) == IF n > 0 THEN n - 1 ELSE 0

--------------------------------------------------------------------------------
(* cs35l45_dsp_boot_put with 1: cs35l45_dsp_boot_ev starts the core. *)
DspBootPutOn ==
    /\ boot_pc = "idle" /\ (boot => setup = "repeat")
    /\ boot' = TRUE /\ dsp' = IF boot THEN dsp ELSE "paused"
    /\ PowerEv(open = "playing")
    /\ usage' = Drop(usage)
    /\ UNCHANGED <<setup, setting, boot_pc, open, rpm, runtime_error, irq, force_int, virt2_mbox_comp,
                   mbox, Bus>>

(* With 0: "DSP1 Power" goes down, then the core is stopped when the DSP is paused. *)
DspBootPutOff ==
    /\ boot_pc = "idle" /\ (~boot => setup = "repeat") /\ usage <= MaxUsage
    /\ ResumeAndGet
    /\ PowerEv(FALSE)
    /\ boot_pc' = "stop"
    /\ UNCHANGED <<setup, setting, boot, open, irq, force_int, virt2_mbox_comp, wanted>>

(* cs35l45_dsp_boot_ev *)
DspBootEvPmd ==
    /\ boot_pc = "stop" /\ pmd = "idle" /\ boot_pc' = "idle"
    /\ boot' = FALSE /\ dsp' = "off" /\ mbox' = "none"
    /\ UNCHANGED <<setup, setting, open, power, pmu, pmd, usage, rpm, runtime_error, irq, force_int,
                   virt2_mbox_comp, Bus>>

(* A stream opens: the core takes a reference, or refuses. *)
StreamOpen ==
    /\ open = "closed" /\ boot_pc = "idle" /\ ~runtime_error
    /\ ResumeAndGet
    /\ open' = IF runtime_error' THEN "closed" ELSE "opened"
    /\ UNCHANGED <<setup, setting, boot, boot_pc, power, pmu, pmd, irq, force_int, virt2_mbox_comp,
                   wanted>>

(* cs35l45_dai_hw_params; then DAPM powers its widgets. *)
DaiHwParams ==
    /\ open = "opened" /\ boot_pc = "idle" /\ (asleep => cache_only)
    /\ IF setting = "rate"
       THEN \E v \in {"a", "b"} :
              kept' = v /\ wanted' = v /\ chip' = IF cache_only THEN chip ELSE v
       ELSE UNCHANGED <<kept, wanted, chip>>
    /\ open' = "playing" /\ PowerEv(boot)
    /\ UNCHANGED <<setup, setting, boot, boot_pc, usage, rpm, runtime_error, irq, force_int,
                   virt2_mbox_comp, mbox, dsp, asleep, cache_only, classh, classh_tracking>>

StreamClose ==
    /\ open # "closed" /\ boot_pc = "idle"
    /\ open' = "closed" /\ PowerEv(FALSE) /\ usage' = Drop(usage)
    /\ UNCHANGED <<setup, setting, boot, boot_pc, rpm, runtime_error, irq, force_int, virt2_mbox_comp,
                   mbox, dsp, Bus>>

(* cs35l45_set_csplmboxcmd *)
SetCsplmboxcmd(cmd) ==
    mbox' = (IF cache_only THEN mbox ELSE cmd) /\ virt2_mbox_comp' = FALSE

(* The wait for the completion ends, or times out. *)
Answered == virt2_mbox_comp \/ ~irq \/ setup # "steady"

PmuWork ==
    /\ \/ pmu = "queued" /\ pmd # "sent" /\ pmu' = "sent" /\ SetCsplmboxcmd("RESUME")
       \/ pmu = "sent" /\ Answered /\ pmu' = "idle" /\ UNCHANGED <<mbox, virt2_mbox_comp>>
    /\ UNCHANGED <<setup, Power, pmd, usage, rpm, runtime_error, irq, force_int, dsp, Bus>>

(* It also polls the firmware's state, for a while. *)
PmdWork ==
    /\ \/ pmd = "queued" /\ pmu # "sent" /\ pmd' = "sent" /\ SetCsplmboxcmd("PAUSE")
       \/ /\ pmd = "sent" /\ Answered /\ (dsp = "paused" \/ setup # "steady")
          /\ pmd' = "idle" /\ UNCHANGED <<mbox, virt2_mbox_comp>>
    /\ UNCHANGED <<setup, Power, pmu, usage, rpm, runtime_error, irq, force_int, dsp, Bus>>

(* The DSP reads a command, obeys and answers; cs35l45_dsp_virt2_mbox_cb. *)
DspAnswers ==
    /\ mbox # "none" /\ mbox' = "none"
    /\ dsp' = CASE mbox = "RESUME" -> "running" [] OTHER -> "paused"
    /\ asleep' = (mbox = "HIBERNATE")
    /\ virt2_mbox_comp' = (virt2_mbox_comp \/ (irq /\ mbox # "HIBERNATE"))
    /\ UNCHANGED <<setup, Power, pmu, pmd, usage, rpm, runtime_error, irq, force_int, cache_only,
                   kept, chip, wanted, classh, classh_tracking>>

(* cs35l45_dsp_virt2_mbox3_irq_handle: an event completes the wait as well. *)
SpeakerStatus ==
    /\ dsp = "running" /\ irq /\ virt2_mbox_comp' = TRUE
    /\ UNCHANGED <<setup, Power, pmu, pmd, usage, rpm, runtime_error, irq, force_int, mbox, dsp,
                   Bus>>

(* cs35l45_suspend_runtime, cs35l45_hibernate(HIBER_MODE_EN), seconds after the last use;
   the kernel does not try again what fails. *)
SuspendRuntime ==
    /\ usage = 0 /\ rpm = "active" /\ ~runtime_error /\ boot_pc = "idle"
    /\ pmu = "idle" /\ pmd = "idle"
    /\ IF dsp = "paused"
       THEN /\ mbox' = "HIBERNATE" /\ cache_only' = TRUE /\ rpm' = "suspended"
            /\ kept' = chip /\ UNCHANGED runtime_error
       ELSE runtime_error' = TRUE /\ UNCHANGED <<mbox, cache_only, rpm, kept>>
    /\ UNCHANGED <<setup, Power, pmu, pmd, usage, irq, force_int, virt2_mbox_comp, dsp, asleep,
                   chip, wanted, classh, classh_tracking>>

--------------------------------------------------------------------------------
(* A register is written, or its cache. *)
Write(v) ==
    /\ wanted' = v /\ kept' = v /\ chip' = IF cache_only THEN chip ELSE v
    /\ UNCHANGED <<setup, Power, pmu, pmd, usage, rpm, runtime_error, irq, force_int,
                   virt2_mbox_comp, mbox, dsp, asleep, cache_only, classh, classh_tracking>>

Reachable == boot_pc = "idle" /\ (asleep => cache_only)

(* cs35l45_aud_controls *)
AudControls == Reachable /\ setting \in {"mixer", "other"} /\ \E v \in {"a", "b"} : Write(v)

(* cs35l45_set_sysclk: of a clock that is in use already nothing is written. *)
SetSysclk ==
    /\ Reachable /\ ~cache_only /\ setting = "clock"
    /\ \E v \in {"a", "b"} : chip # v /\ Write(v)

DaiSetFmt == Reachable /\ setting = "fmt" /\ \E v \in {"a", "b"} : Write(v)

(* cs35l45_classh_en_put: the resume, which sets class H, comes after the value was taken.
   The reference is given back though none was taken. *)
ClasshEnPut ==
    /\ boot_pc = "idle"
    /\ \E v \in BOOLEAN :
         IF rpm = "suspended" /\ ~runtime_error
         THEN ResumeRuntime(v)
         ELSE /\ asleep => cache_only
              /\ classh_tracking' = v
              /\ classh' = IF v = classh_tracking THEN classh ELSE v
              /\ UNCHANGED <<rpm, cache_only, asleep, mbox, dsp, chip, kept, runtime_error>>
    /\ usage' = IF runtime_error' THEN Drop(usage) ELSE usage
    /\ UNCHANGED <<setup, Power, pmu, pmd, irq, force_int, virt2_mbox_comp, wanted>>

(* cs35l45_force_int_put: the pin is driven, and the line's interrupt is off; what was
   latched meanwhile is served when it is on again. *)
ForceIntPut ==
    /\ boot_pc = "idle" /\ force_int' = ~force_int
    /\ IF force_int
       THEN /\ irq' = TRUE /\ usage' = Drop(usage) /\ virt2_mbox_comp' = TRUE
            /\ UNCHANGED <<rpm, cache_only, asleep, mbox, dsp, chip, kept, classh,
                           classh_tracking, runtime_error>>
       ELSE irq' = FALSE /\ usage <= MaxUsage /\ ResumeAndGet /\ UNCHANGED virt2_mbox_comp
    /\ UNCHANGED <<setup, Power, pmu, pmd, wanted>>

Next ==
    \/ DspBootPutOn \/ DspBootPutOff \/ DspBootEvPmd \/ StreamOpen \/ DaiHwParams \/ StreamClose
    \/ PmuWork \/ PmdWork \/ DspAnswers \/ SpeakerStatus \/ SuspendRuntime
    \/ AudControls \/ SetSysclk \/ DaiSetFmt \/ ClasshEnPut \/ ForceIntPut

Spec == Init /\ [][Next]_vars

--------------------------------------------------------------------------------
(* Whatever boots, streams, late answers and events come between: when no work is left,
   the firmware runs if its widget is powered, and is paused if not (unless the boot switch
   was stored twice). *)
DspFollows ==
    (setup # "repeat" /\ boot /\ boot_pc = "idle" /\ pmu = "idle" /\ pmd = "idle" /\ mbox = "none" /\ ~cache_only)
        => (dsp = "running") = power

(* A chip that hibernates is not talked to, unless it failed to wake up; and it is awake
   while a stream plays, unless the boot switch was stored twice. *)
AwakeWhenUsed ==
    /\ asleep /\ ~runtime_error => cache_only
    /\ open # "closed" /\ setup # "repeat" => rpm = "active" /\ ~asleep

(* Hibernation loses neither the device tree's settings, nor those of controls that are
   saved, nor (unless the boot switch was stored twice) the rate of a stream; and class H is shown as it is. *)
SettingsSurvive ==
    rpm = "active" /\ ~runtime_error =>
        /\ setting \in {"of", "mixer"} => chip = wanted
        /\ setting = "rate" /\ open = "playing" /\ setup # "repeat" => chip = wanted
        /\ classh = classh_tracking
==============================================================================
