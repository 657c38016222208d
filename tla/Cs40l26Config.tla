---------------------------- MODULE Cs40l26Config ----------------------------
(***************************************************************************)
(* What the driver of the CS40L26 configures when it loads firmware: chip   *)
(* registers, which the chip forgets when it hibernates and gets back from  *)
(* the sequences it replays when it wakes; and words of the DSP, which a    *)
(* load overwrites.  A call is the program of accesses that its code is,    *)
(* cut short where one fails.  A behaviour watches one setting, chosen at   *)
(* its start; a value is the set of what was put there, {} the default.     *)
(***************************************************************************)
EXTENDS Integers, Sequences

CONSTANTS
    Settings,           \* the settings that are watched
    Revisions,          \* revisions of the chip: "a1" (before B2), "b2"
    Trees,              \* kinds of device tree
    ConfigFaults        \* bound: accesses that fail in a behaviour

VARIABLES
    setting,            \* the setting that is watched
    revision, tree,
    unit,               \* the chip's side of the setting, and what the driver knows
    comp,               \* comp_enable_f0, comp_enable_redc: the driver's copies
    stored,             \* what was last stored in the setting since the load
    bound,              \* the driver is bound to the device (vibe_init_success)
    configured,         \* the last load came to its end
    cut                 \* accesses that failed

vars == <<setting, revision, tree, unit, comp, stored, bound, configured, cut>>
fixed == <<setting, revision, tree>>

(* Registers of which only the sequence is written; the others; the words. *)
Sequenced == {"errata", "aux_ng"}
Plain == {"hiz", "masks", "pad", "dcm", "ipk", "boost", "boost_sel", "global_en", "clip",
          "aux_input", "noise_gate", "brownout", "masks2", "watchdog", "asp"}
Registers == Sequenced \cup Plain

(* Words that only the user sets; the device tree has the first three's first values. *)
Attributes == {"f0", "redc", "q", "f0_offset", "redc_est", "freq_span", "freq_centre", "op_gain",
               "ls_temp", "ls_results", "peq", "logging_en", "control"}
Words == Attributes \cup {"gpio", "gpo", "zero_cross", "dbc", "stdby", "active", "timeout_ms",
                          "comp", "log", "scale"}

(* "bare" has none of the optional properties; the other kinds have all. *)
Has(option) == tree # "bare"
Monitored == tree = "monitor"       \* cirrus,gpo-playback-monitor
RomOnly == tree = "rom"             \* cirrus,fw-rom-only
Explicit == tree # "short"          \* cirrus,bst-expl-mode-disable is absent
Deferred == tree = "defer"          \* cirrus,fw-defer
SvcNodes == tree \in {"maint", "stored"}        \* nodes with cirrus,gain-adjust
Maintenance == tree = "maint"       \* whose firmware is of the maintenance branch
DbcFile == tree = "dbc"             \* there is a tuning file for the DBC
Calibrates == tree = "calib"        \* cirrus,calib-fw

ConfigAssumption ==
    /\ Settings \subseteq Registers \cup Words \cup {"braking"}
    /\ Revisions \subseteq {"a1", "b2"} /\ ConfigFaults \in Nat
    /\ Trees \subseteq {"bare", "monitor", "rom", "short", "defer", "maint", "stored", "dbc",
                        "calib"}

Dt == {"dt"}
Default == {}
AsleepWhen == {"held", "allowed", "hibernating"}

(* parse_properties, also where it comes back to the default (gain scale) *)
DefaultScale == 60
GainAdjusts == [maint |-> 30, stored |-> 0 - 40]

Fresh ==
    [reg |-> Default, pseq |-> Default, aseq |-> Default, sleep |-> "held", dsp |-> "rom",
     fw_loaded |-> FALSE, pm |-> FALSE, calib_fw |-> Calibrates, tuned |-> FALSE,
     scale |-> DefaultScale, saved |-> Default, count |-> 0, num |-> 0, sources |-> 0]

Init ==
    /\ setting \in Settings /\ revision \in Revisions /\ tree \in Trees
    /\ setting \in {"log", "comp"} => ~RomOnly
    /\ setting \in Attributes \ {"f0"} => tree \in {"rom", "calib"}
    /\ setting = "braking" => tree = "bare"
    /\ unit = Fresh
    /\ comp = {} /\ stored = {}
    /\ bound = FALSE /\ configured = FALSE /\ cut = 0

TypeOK ==
    /\ setting \in Settings /\ revision \in Revisions /\ tree \in Trees
    /\ unit.sleep \in AsleepWhen /\ unit.dsp \in {"rom", "none", "runtime", "calib"}
    /\ unit.scale \in 0 .. 100 /\ unit.saved = Default
    /\ comp \subseteq {"f0", "redc"} /\ cut \in 0 .. ConfigFaults
    /\ \A b \in {bound, configured, unit.fw_loaded, unit.pm, unit.calib_fw, unit.tuned} :
         b \in BOOLEAN

--------------------------------------------------------------------------------
(* The accesses a program is made of: those of the watched setting, and those
   of what all settings rest on ("load"). *)
Step(op, of, to) ==
    IF of \in {setting, "load"} THEN <<[op |-> op, of |-> of, to |-> to]>> ELSE <<>>

Write(of, to) == Step("write", of, to)          \* regmap_write
Add(of, to) == Step("add", of, to)              \* regmap_update_bits, setting
Pseq(of, to) == Step("pseq", of, to)            \* cs40l26_wseq_write
Aseq(of, to) == Step("aseq", of, to)
Repeat(of) == Step("repeat", of, Default)       \* ... of what the register holds
Both(of, to) == Write(of, to) \o Pseq(of, to)
Save(of) == Step("save", of, Default)
Restore(of) == Step("restore", of, Default)
Call(name) == Step(name, "load", Default)

(* The chip wakes by itself when it is spoken to, and replays its sequence. *)
Awake(u) ==
    [u EXCEPT !.sleep = "held",
              !.reg = IF u.sleep = "hibernating" /\ setting \in Registers THEN u.pseq ELSE @]

Parsed(u) ==
    [u EXCEPT !.dsp = IF u.calib_fw THEN "calib" ELSE "runtime",
              !.reg = IF setting \in Words /\ ~RomOnly THEN Default ELSE @,
              !.count = IF RomOnly THEN @ ELSE 0]

(* cs40l26_gain_adjust: of the scale as it is, bounded by zero and full scale *)
GainAdjust(u) ==
    LET total == u.scale + GainAdjusts[tree] IN
    [u EXCEPT !.scale = IF total < 0 THEN 0 ELSE IF total > 100 THEN 100 ELSE total]

Apply(u, s) ==
    CASE s.op = "write" -> [u EXCEPT !.reg = s.to]
      [] s.op = "add" -> [u EXCEPT !.reg = @ \cup s.to]
      [] s.op = "mask" -> [u EXCEPT !.reg = @ \ s.to]
      [] s.op = "pseq" -> [u EXCEPT !.pseq = s.to]
      [] s.op = "aseq" -> [u EXCEPT !.aseq = s.to]
      [] s.op = "repeat" -> [u EXCEPT !.pseq = u.reg]
      [] s.op = "save" -> [u EXCEPT !.saved = u.reg]
      [] s.op = "restore" -> [u EXCEPT !.reg = u.saved]
      [] s.op = "hold" -> Awake(u)
      [] s.op = "allow" -> [u EXCEPT !.sleep = "allowed"]
      [] s.op = "unload" -> [u EXCEPT !.fw_loaded = FALSE]
      [] s.op = "reinit" -> [u EXCEPT !.dsp = "none"]
      [] s.op = "parse" -> Parsed(u)
      [] s.op = "loaded" -> [u EXCEPT !.fw_loaded = TRUE]
      [] s.op = "clear_pseq" -> [u EXCEPT !.pseq = Default]
      [] s.op = "clear_aseq" -> [u EXCEPT !.aseq = Default]
      [] s.op = "pm_setup" -> [u EXCEPT !.pm = TRUE]
      [] s.op = "pm_teardown" -> [u EXCEPT !.pm = FALSE]
      [] s.op = "to_calib" -> [u EXCEPT !.calib_fw = TRUE]
      [] s.op = "to_runtime" -> [u EXCEPT !.calib_fw = FALSE]
      [] s.op = "tuned" -> [u EXCEPT !.tuned = TRUE]
      [] s.op = "gain_adjust" -> GainAdjust(u)
      [] s.op = "log_free" -> [u EXCEPT !.num = IF u.sources # 0 THEN 0 ELSE @]
      [] s.op = "log_count" -> [u EXCEPT !.num = u.count]
      [] s.op = "log_add" -> [u EXCEPT !.num = @ + 1, !.count = u.num + 1]
      [] s.op = "log_alloc" -> [u EXCEPT !.sources = u.num]
      [] OTHER -> u

(* The unit before, between and after the accesses of a program. *)
States(program, u) ==
    LET at[n \in 0 .. Len(program)] == IF n = 0 THEN u ELSE Apply(at[n - 1], program[n]) IN at

Final(program, u) == States(program, u)[Len(program)]

Clean(u) == [u EXCEPT !.saved = Default]

--------------------------------------------------------------------------------
(* cs40l26_irq_update_mask: the interrupts that are unmasked are kept. *)
IrqUpdateMask(reg, masked, unmasked) ==
    Step("mask", reg, masked) \o Add(reg, unmasked) \o Repeat(reg)

WksrcConfig ==
    IrqUpdateMask("masks", {"spi", "gpio2-4"}, {"any", "gpio1", "i2c"})

SetGpioFromDt == Write("gpio", Dt)

GpioConfig ==
    SetGpioFromDt
    \o (IF Monitored THEN Add("pad", Dt) \o Repeat("pad") \o Write("gpo", Dt) ELSE <<>>)
    \o IrqUpdateMask("masks", {"edges"}, {})

BstDcmConfig == IF Has("bst-dcm-en") THEN Both("dcm", Dt) ELSE <<>>

BstIpkConfig == Both("ipk", Dt) \o IrqUpdateMask("masks", {}, {"ipk"})

(* The second register, which also selects what controls the boost, is read,
   and repeated. *)
BstCtlConfig == Both("boost", Dt) \o Repeat("boost_sel")

ClipLvlConfig == Both("clip", Dt)

(* MUTANT of NoiseGateConfig: the calibration firmware of B2 is forgotten in the sequence. *)
NoiseGateConfigApart(calib) ==
    Write("noise_gate", IF calib /\ revision = "b2" THEN {"off"} ELSE Dt) \o Pseq("noise_gate", Dt)

NoiseGateConfig(calib) ==
    Both("noise_gate", IF calib /\ revision = "b2" THEN {"off"} ELSE Dt)

AuxNoiseGateConfig ==
    Both("aux_input", Dt)
    \o (IF revision = "b2" THEN Aseq("aux_ng", Dt) ELSE Pseq("aux_ng", Dt))

(* The boost is bypassed, the amplifier enabled, and the boost as it was. *)
LbstShortTest ==
    Save("boost") \o Save("boost_sel")
    \o Write("boost", {"vp"}) \o Write("boost_sel", {"fixed"})
    \o Write("global_en", {"on"}) \o Call("check_short") \o Write("global_en", Default)
    \o Restore("boost") \o Restore("boost_sel")

HandleA1Errata == (IF Explicit THEN <<>> ELSE LbstShortTest) \o Pseq("errata", Dt)

(* cs40l26_dbc_config; or dbc_enable, if a tuning file was loaded once *)
DbcConfig(tuned) ==
    IF tuned THEN Add("dbc", {"enabled"})
    ELSE IF Has("dbc") THEN Write("dbc", Dt) ELSE <<>>

ZeroCrossConfig == IF Has("pwle-zero-cross-en") THEN Write("zero_cross", Dt) ELSE <<>>

CalibDtConfig ==
    IF Has("f0-default")
    THEN Write("f0", Dt) \o Write("redc", Dt)
         \o (IF revision = "a1" THEN Write("q", Dt) ELSE <<>>)
    ELSE <<>>

BrwnoutPreventionInit ==
    IF Has("vbbr-enable")
    THEN Add("brownout", Dt) \o Repeat("brownout") \o IrqUpdateMask("masks2", {}, {"br"})
    ELSE <<>>

DcWdConfig ==
    IF Has("dc-wd-enable")
    THEN Both("watchdog", Dt) \o IrqUpdateMask("masks", {}, {"wd"})
    ELSE <<>>

AspConfig == Both("asp", Dt)

(* The sources that the firmware logs by itself are counted in; the runtime
   firmware has the excursion's too. *)
LoggerSetup(calib) ==
    IF setting # "log" THEN <<>>
    ELSE Call("log_free") \o Call("log_count")
         \o (IF calib THEN <<>> ELSE Call("log_add")) \o Call("log_add") \o Call("log_alloc")

(* MUTANT of CompConfig: the copies are those of the device tree. *)
CompConfigNone(calib) == IF calib THEN <<>> ELSE Write("comp", {})

(* The copies are written, where there is a word for them. *)
CompConfig(calib) == IF calib THEN <<>> ELSE Write("comp", comp)

DspStart == IF RomOnly THEN <<>> ELSE Call("start")

(* cs40l26_dsp_config.  The runtime PM is set up before it ends. *)
DspConfig(calib, tuned) ==
    Call("mem_rdy") \o Call("loaded") \o Call("wseq_init")
    \o Pseq("hiz", Dt)
    \o (IF revision = "a1" THEN HandleA1Errata ELSE <<>>)
    \o DspStart \o Call("hold")
    \o IrqUpdateMask("masks", {}, {"errors"})
    \o WksrcConfig \o GpioConfig
    \o BstDcmConfig \o BstIpkConfig \o BstCtlConfig \o ClipLvlConfig
    \o DbcConfig(tuned) \o ZeroCrossConfig
    \o NoiseGateConfig(calib) \o AuxNoiseGateConfig
    \o (IF bound THEN <<>> ELSE CalibDtConfig)
    \o BrwnoutPreventionInit \o DcWdConfig
    \o Call("pm_setup") \o Call("allow") \o Call("hold")
    \o Write("timeout_ms", Dt) \o LoggerSetup(calib) \o AspConfig
    \o (IF revision = "b2" THEN Call("owt_reset") ELSE <<>>)
    \o CompConfig(calib)

(* cs40l26_dsp_pre_config: the core is killed when it is safe to. *)
DspPreConfig == IF RomOnly THEN <<>> ELSE Call("hold") \o Call("kill")

ChangeFwControlDefaults == Write("stdby", Dt) \o Write("active", Dt)

(* The maintenance branch is configured twice: to measure the actuator first.
   Its measure, or the one that was stored, selects the gain. *)
SvcLe(calib, tuned) ==
    IF ~SvcNodes \/ calib THEN <<>>
    ELSE (IF Maintenance
          THEN DspConfig(calib, tuned) \o Call("estimate") \o Call("pm_teardown") \o DspPreConfig
          ELSE <<>>)
         \o Call("gain_adjust")

CoeffLoad(calib) == IF DbcFile /\ ~calib THEN Call("tuned") ELSE <<>>

(* cs40l26_fw_upload *)
FwUpload(calib, tuned) ==
    Call("unload") \o Call("reinit") \o Call("request") \o DspPreConfig
    \o Call("parse") \o ChangeFwControlDefaults \o Call("get_fw_params")
    \o SvcLe(calib, tuned) \o CoeffLoad(calib)
    \o DspConfig(calib, tuned \/ (DbcFile /\ ~calib))

(* cs40l26_fw_swap *)
FwSwap(calib) ==
    (IF unit.fw_loaded THEN Call("pm_teardown") ELSE <<>>) \o Call("hold")
    \o Call("clear_pseq") \o Call("clear_aseq")
    \o Call(IF calib THEN "to_calib" ELSE "to_runtime")
    \o FwUpload(calib, unit.tuned)

--------------------------------------------------------------------------------
(* A program runs to its end, or up to an access that fails. *)
Run(program, from) ==
    LET at == States(program, from) IN
    \E n \in DOMAIN at :
        /\ n < Len(program) => cut < ConfigFaults
        /\ cut' = IF n < Len(program) THEN cut + 1 ELSE cut
        /\ configured' = (n = Len(program))
        /\ unit' = Clean(at[n])

(* The reset line makes the chip forget all; the first thing written is the
   amplifier's high impedance. *)
HardReset(u) ==
    [Fresh EXCEPT !.reg = IF setting = "hiz" THEN Dt ELSE Default,
                  !.fw_loaded = u.fw_loaded, !.pm = u.pm, !.tuned = u.tuned,
                  !.num = u.num, !.sources = u.sources]

(* cs40l26_probe; if it fails, what was done is undone and it may be tried again.
   With fw_defer the firmware waits for the user. *)
Probe ==
    /\ ~bound
    /\ IF Deferred
       THEN unit' = HardReset(Fresh) /\ UNCHANGED <<cut, configured>> /\ bound' = TRUE
       ELSE /\ Run(FwUpload(Calibrates, FALSE), HardReset(Fresh))
            /\ bound' = configured'
    /\ stored' = IF setting \in {"f0", "redc", "q"} /\ bound' THEN unit'.reg ELSE {}
    /\ comp' = {}
    /\ UNCHANGED fixed

(* cs40l26_remove *)
Unbind ==
    /\ bound /\ bound' = FALSE /\ configured' = FALSE
    /\ unit' = Fresh /\ comp' = {} /\ stored' = {}
    /\ UNCHANGED <<fixed, cut>>

(* What was stored is not kept, unless it is in the ROM's words. *)
Kept == IF RomOnly /\ setting \in Attributes THEN stored ELSE {}

(* cs40l26_fw_swap, asked for by the user *)
SwapFirmware ==
    /\ bound
    /\ \E calib \in BOOLEAN : Run(FwSwap(calib), unit)
    /\ stored' = Kept
    /\ UNCHANGED <<fixed, comp, bound>>

(* cs40l26_reset_worker; the firmware is the device tree's again. *)
ResetWorker ==
    /\ bound
    /\ Run(FwSwap(Calibrates), HardReset(unit))
    /\ stored' = {}
    /\ UNCHANGED <<fixed, comp, bound>>

(* Runtime PM suspends the device, and the chip hibernates. *)
Suspend ==
    /\ bound /\ unit.pm /\ unit.sleep = "held"
    /\ unit' = [unit EXCEPT !.sleep = "hibernating",
                            !.reg = IF setting \in Registers THEN Default ELSE @]
    /\ UNCHANGED <<fixed, comp, stored, bound, configured, cut>>

Resume ==
    /\ bound /\ unit.pm /\ unit.sleep = "hibernating"
    /\ unit' = Awake(unit)
    /\ UNCHANGED <<fixed, comp, stored, bound, configured, cut>>

(* MUTANT of WtSwapCleanup: only a swap that came to the end restores. *)
WtSwapCleanupNone == SetGpioFromDt

(* What wt_swap does on every way out.  The timeouts are restored once they were read. *)
WtSwapCleanup ==
    Call("wake") \o Call("hold") \o Restore("active") \o Restore("stdby") \o SetGpioFromDt

WtSwapProgram ==
    Call("hold") \o Write("gpio", {"off"}) \o Save("active") \o Save("stdby")
    \o Write("active", {"min"}) \o Write("stdby", {"min"})
    \o Call("stop") \o Call("shutdown") \o Call("request") \o Call("table")

(* cs40l26_wt_swap by swap_wavetable_store: without effects, and not beside
   runtime PM. *)
SwapWavetable ==
    /\ bound /\ configured
    /\ LET at == States(WtSwapProgram, unit) IN
       \E n \in DOMAIN at :
           LET way == IF at[n].saved = {} THEN SetGpioFromDt ELSE WtSwapCleanup IN
           /\ n < Len(WtSwapProgram) => cut < ConfigFaults
           /\ cut' = IF n < Len(WtSwapProgram) THEN cut + 1 ELSE cut
           /\ unit' = [Clean(IF n = 0 THEN unit ELSE Final(way, at[n])) EXCEPT !.pm = TRUE]
    /\ UNCHANGED <<fixed, comp, stored, bound, configured>>

Next ==
    \/ Probe \/ Unbind \/ SwapFirmware \/ ResetWorker
    \/ Suspend \/ Resume \/ SwapWavetable

Spec == Init /\ [][Next]_vars

--------------------------------------------------------------------------------
(* What the device tree, the stores and the firmware ask of the watched setting. *)
Unmasked ==
    {"any", "gpio1", "i2c", "ipk", "errors"} \cup (IF Has("dc-wd-enable") THEN {"wd"} ELSE {})

Wanted ==
    CASE setting = "masks" -> Unmasked
      [] setting = "masks2" -> IF Has("vbbr-enable") THEN {"br"} ELSE Default
      [] setting = "errata" -> IF revision = "a1" THEN Dt ELSE Default
      [] setting = "noise_gate" -> IF unit.calib_fw /\ revision = "b2" THEN {"off"} ELSE Dt
      [] setting \in {"pad", "gpo"} -> IF Monitored THEN Dt ELSE Default
      [] setting \in {"dcm", "zero_cross", "brownout", "watchdog"} ->
           IF Has(setting) THEN Dt ELSE Default
      [] setting = "dbc" -> IF unit.tuned THEN {"enabled"} ELSE IF Has(setting) THEN Dt ELSE Default
      [] setting \in {"boost_sel", "global_en"} -> Default
      [] setting = "comp" -> IF unit.calib_fw THEN Default ELSE comp
      [] setting \in Attributes -> stored
      [] setting \in {"stdby", "active"} -> IF stored = {} THEN Dt ELSE stored
      [] OTHER -> Dt

Watched == configured /\ setting \notin {"log", "scale", "braking"}

(* Once configured, by whatever loads, swaps, resets and hibernations: a
   register that is configured holds what was asked while the chip is awake,
   and what the chip replays is that too; and so does a word of the DSP.  (Where
   a load that was cut leaves more than the next one overwrites, as in the test
   of the boost, none was cut.) *)
InForce ==
    (Watched /\ (setting \in {"hiz", "boost_sel", "global_en", "comp"} => cut = 0)) =>
        /\ (setting \in Plain \ {"global_en"} => unit.pseq = Wanted)
        /\ (setting \in Plain /\ unit.sleep # "hibernating") => unit.reg = Wanted
        /\ setting \in Sequenced =>
             (IF setting = "aux_ng" /\ revision = "b2" THEN unit.aseq ELSE unit.pseq) = Wanted
        /\ setting \in Words => unit.reg = Wanted

(* The sources that are shown are the ones memory was allocated for. *)
SourcesAllocated == configured => unit.num = unit.sources
================================================================================
