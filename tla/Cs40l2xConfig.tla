---------------------------- MODULE Cs40l2xConfig ----------------------------
(***************************************************************************)
(* How the driver of the CS40L25 brings a chip up: it configures registers *)
(* and notes them in a write sequence, loads firmware and its coefficient  *)
(* files as user space answers for each, and gives the DSP its words.  The *)
(* firmware for effects executes the sequence when it starts and when it   *)
(* wakes from hibernation; for the calibration firmware the driver does,   *)
(* after a reset; the firmware of the first chips has none.  A call is the *)
(* program of accesses that its code is, cut short where one fails.  A     *)
(* behaviour watches one setting, chosen at its start; a value is the set  *)
(* of what was put there, {} the default.                                  *)
(***************************************************************************)
EXTENDS Integers, Sequences, FiniteSets

CONSTANTS
    Settings,           \* the settings that are watched
    Devices, Trees,     \* parts, and kinds of device tree
    ConfigFaults,       \* bound: accesses that fail in a behaviour
    MaxLoads            \* bound: loads after the first, where each extends the sequence

VARIABLES
    setting,            \* the setting that is watched
    device, tree,
    unit,               \* the chip's side of the setting, and what the driver knows
    load,               \* the asynchronous load of the probe
    started,            \* vibe_init_success
    configured,         \* the last load came to its end
    pm,                 \* runtime PM: "off", "active", "suspended" or in "error"
    playing,            \* nothing, a "plain" waveform, or one with active braking or a
                        \* resonance of its own, "clab" or "f0"; "failed", a start or an
                        \* end that failed, after which nothing plays
    loads, cut          \* loads after the first; accesses that failed

vars == <<setting, device, tree, unit, load, started, configured, pm, playing, loads, cut>>
fixed == <<setting, device, tree>>

Registers == {"errata", "lbst", "trim", "key", "pad", "pll", "boost", "ipk", "limit", "ovp", "vctrl2",
              "global_en", "routing", "volume", "mpu", "wksrc", "asp", "dcm", "pwr3", "vpbr", "vbbr",
              "amp"}
Files == {"wt", "exc", "df0", "clab", "cal"}    \* a file's setting is that it is in force
ButtonEdges == {"edge1", "edge2", "edge3", "edge4"}   \* the index of a button, pressed or released
Words == {"gpio_mask", "gpio_pol", "gpio_enable", "spk_auto", "events", "irq_mask", "timeout_ms",
          "comp", "f0", "redc", "q", "pr_timeout"} \cup ButtonEdges \cup Files

ConfigAssumption ==
    /\ Settings \subseteq Registers \cup Words
    /\ Devices \subseteq {"l20", "l25", "l25a", "l25b"}
    /\ Trees \subseteq {"bare", "full", "auto", "clamp", "classh", "indv", "nodyn"}
    /\ ConfigFaults \in Nat /\ MaxLoads \in Nat

Dt == {"dt"}
Default == {}
Kinds == {"plain", "clab", "f0"}
Quiet == {"no", "failed"}

(* "bare" has no property and no interrupt; the other kinds have all but those below. *)
Has(option) == tree # "bare"
Clamped == tree \in {"full", "clamp", "indv"}   \* cirrus,amp-gnd-stby
Clamping == tree = "clamp"          \* the firmware cannot clamp by itself
CondClassh == tree = "classh"
Gpio1Mode == IF tree = "auto" THEN "auto" ELSE IF tree = "bare" THEN "on" ELSE "off"
DynF0 == tree # "nodyn"             \* no cirrus,dyn-f0-disable
Missing == IF tree = "auto" THEN {"exc", "df0"} ELSE {}     \* files that user space has not

(* cirrus,vpbr-config: thresholds, attenuation and rates; "auto" only enables. *)
BrConfig == tree # "auto"

B1 == device \in {"l25a", "l25b"}   \* the revision from which firmware is for effects
AspAvailable == device = "l25a" /\ Has("asp-bclk-freq-hz")
EventControl == B1 /\ Has("irq")

GpioMask ==
    IF tree = "indv" /\ B1 THEN IF device = "l25a" THEN {"edge3"} ELSE {"edge2", "edge3"}
    ELSE IF device = "l25b" THEN ButtonEdges ELSE {"edge1"}

(* Indices that are waveforms: that of the fourth button is not. *)
InRange(edge) == Has(edge) /\ edge # "edge4"

CoeffFiles(fw) ==
    CASE fw = "orig" -> {"wt", "df0"}
      [] fw = "cal" -> {"cal"}
      [] tree = "classh" -> {"wt", "df0", "clab"}
      [] tree = "nodyn" -> {"wt", "clab"}
      [] OTHER -> {"wt", "exc", "df0"}

Requested(fw) == CoeffFiles(fw) \ (IF DynF0 THEN {} ELSE {"df0"})

Fresh == [reg |-> Default, seq |-> <<>>, table |-> <<>>, dsp |-> "rom", fw |-> "none",
          remap |-> "remap", asleep |-> FALSE]
NoLoad == [phase |-> "none", pending |-> {}, counted |-> 0, refused |-> FALSE]

Init ==
    /\ setting \in Settings /\ device \in Devices /\ tree \in Trees
    /\ tree \in {"clamp", "classh", "indv", "auto"} => B1
    /\ unit = Fresh /\ load = NoLoad
    /\ started = FALSE /\ configured = FALSE /\ pm = "off" /\ playing = "no"
    /\ loads = 0 /\ cut = 0

TypeOK ==
    /\ setting \in Settings /\ device \in Devices /\ tree \in Trees
    /\ unit.dsp \in {"rom", "none", "orig", "remap", "cal"}
    /\ unit.fw \in {"none", "rom", "orig", "remap", "cal"} /\ unit.remap \in {"remap", "cal"}
    /\ load.phase \in {"none", "firmware", "files", "over"}
    /\ load.pending \subseteq Files /\ load.counted \in 0 .. 3
    /\ pm \in {"off", "active", "suspended", "error"} /\ playing \in Quiet \cup Kinds
    /\ {started, configured, load.refused, unit.asleep} \subseteq BOOLEAN
    /\ loads \in 0 .. MaxLoads /\ cut \in 0 .. ConfigFaults

--------------------------------------------------------------------------------
(* The accesses a program is made of: those of the watched setting, and those
   of what all settings rest on ("load"). *)
Access(op, of, to) ==
    IF of \in {setting, "load"} THEN <<[op |-> op, of |-> of, to |-> to]>> ELSE <<>>

Write(of, to) == Access("write", of, to)          \* regmap_write
SetBits(of, to) == Access("set", of, to)          \* regmap_update_bits
Clear(of, to) == Access("clear", of, to)
Sequence(of, to) == Access("append", of, to)      \* cs40l2x_wseq_add_reg
Repeat(of) == Access("repeat", of, Default)       \* ... of what the register holds
Replace(of, to) == Access("replace", of, to)      \* cs40l2x_wseq_replace
ReplaceRepeat(of) == Access("replace_repeat", of, Default)
Both(of, to) == Write(of, to) \o Sequence(of, to)
Call(name) == Access(name, "load", Default)
Refuse == Call("refuse")

(* The first entry of a register is replaced, in the DSP too once it has the table. *)
Replaced(s, to) == IF s = <<>> THEN s ELSE [s EXCEPT ![1] = to]

(* A sequence is executed in order: the last entry of a register prevails. *)
Executed(s, reg) == IF s = <<>> THEN reg ELSE s[Len(s)]

(* What firmware does that executes its table. *)
Replay(u) == [u EXCEPT !.reg = IF setting \in Registers THEN Executed(u.table, @) ELSE @]

(* Firmware that executes its table does so when the chip wakes. *)
Awake(u) == IF u.asleep THEN Replay([u EXCEPT !.asleep = FALSE]) ELSE u

(* In hibernation the memory of the DSP is kept and the registers are lost.  Firmware
   that does not run does not see the command. *)
Hibernated(u) ==
    IF u.dsp \notin {"rom", "remap"} THEN u
    ELSE [u EXCEPT !.asleep = TRUE, !.reg = IF setting \in Registers THEN Default ELSE @]

Apply(u, s) ==
    CASE s.op = "write" -> [u EXCEPT !.reg = s.to]
      [] s.op = "set" -> [u EXCEPT !.reg = @ \cup s.to]
      [] s.op = "clear" -> [u EXCEPT !.reg = @ \ s.to]
      [] s.op = "append" -> [u EXCEPT !.seq = Append(@, s.to)]
      [] s.op = "repeat" -> [u EXCEPT !.seq = Append(@, u.reg)]
      [] s.op = "replace" -> [u EXCEPT !.seq = Replaced(@, s.to), !.table = Replaced(@, s.to)]
      [] s.op = "replace_repeat" ->
           [u EXCEPT !.seq = Replaced(@, u.reg), !.table = Replaced(@, u.reg)]
      [] s.op = "execute" -> [u EXCEPT !.reg = IF setting \in Registers THEN Executed(u.seq, @) ELSE @]
      [] s.op = "wseq_init" -> [u EXCEPT !.table = u.seq]
      [] s.op = "stop" -> [u EXCEPT !.dsp = "none"]
      [] s.op = "keep" -> [u EXCEPT !.remap = u.fw]
      [] s.op \in {"fw_orig", "fw_remap", "fw_cal"} ->
           [u EXCEPT !.fw = IF s.op = "fw_orig" THEN "orig"
                            ELSE IF s.op = "fw_cal" THEN "cal" ELSE "remap"]
      [] s.op = "memory" ->
           [u EXCEPT !.table = <<>>, !.reg = IF setting \in Words THEN Default ELSE @]
      [] s.op = "start" -> (IF u.fw = "remap" THEN Replay([u EXCEPT !.dsp = u.fw])
                            ELSE [u EXCEPT !.dsp = u.fw])
      [] s.op = "hibernate" -> Hibernated(u)
      [] s.op = "wake" -> Awake(u)
      [] OTHER -> u

(* The unit before, between and after the accesses of a program. *)
States(program, u) ==
    LET at[n \in 0 .. Len(program)] == IF n = 0 THEN u ELSE Apply(at[n - 1], program[n]) IN at

Final(program, u) == States(program, u)[Len(program)]

(* Where a program may end: at its end, before what it is refused or, while accesses
   may fail, before any that is not only the driver's own note. *)
Refused(program) == {n \in 0 .. Len(program) - 1 : program[n + 1].op = "refuse"}
Notes == {"append", "fw_orig", "fw_remap", "fw_cal", "keep", "refuse"}
Ends(program) ==
    LET reach == {n \in 0 .. Len(program) : \A m \in Refused(program) : n <= m} IN
    {n \in reach : n = Len(program) \/ n \in Refused(program)
                   \/ (cut < ConfigFaults /\ program[n + 1].op \notin Notes)}

Whole(program, n) == n = Len(program)

(* An answer of user space that is no good counts as an access that fails. *)
CutBy(program, n, good) ==
    /\ good \/ cut < ConfigFaults
    /\ cut' = IF good /\ (Whole(program, n) \/ n \in Refused(program)) THEN cut ELSE cut + 1

--------------------------------------------------------------------------------
(* The registers, at probe. *)

(* cs40l2x_rev_b0_errata: the test registers are unlocked for the patch, and locked. *)
RevB0Errata ==
    Both("key", {"open"}) \o Both("lbst", {"on"}) \o Both("errata", Dt) \o Both("key", Default)

(* The trims of the one-time memory, which the later parts apply by themselves. *)
OtpUnpack ==
    Call("otp") \o Write("key", {"open"}) \o Write("trim", Dt) \o Write("key", Default)

(* The firmware in ROM is waited for, and shut down; what it set is reverted. *)
BasicModeExit(u) ==
    IF u.dsp # "rom" THEN Refuse
    ELSE Call("boot") \o Call("heartbeat") \o Call("stop")
         \o Write("global_en", Default) \o Write("volume", {"hpf"})

PartNumResolve ==
    Call("otp_boot")
    \o CASE device = "l20" -> Write("errata", Dt) \o OtpUnpack \o Call("fw_orig")
         [] device = "l25" -> RevB0Errata \o Call("fw_orig")
         [] OTHER -> BasicModeExit(Fresh) \o RevB0Errata \o Call("fw_remap")

(* The boost is bypassed and the amplifier enabled.  On a wake-up of these parts the
   boost is not to be left in the mode of the patch. *)
BoostShortTest ==
    Clear("vctrl2", {"classh"}) \o Write("global_en", {"on"}) \o Call("check_short")
    \o Write("global_en", Default) \o SetBits("vctrl2", {"classh"}) \o Replace("lbst", {"off"})

BoostConfig ==
    Both("boost", Dt) \o Both("ipk", Dt) \o Both("limit", Dt)
    \o (IF Has("boost-ovp-millivolt") THEN Both("ovp", Dt) ELSE <<>>)
    \o (IF device = "l20" THEN <<>> ELSE BoostShortTest)

(* MUTANT of AspConfig: the slot and the clocks are not noted. *)
AspConfigUnnoted == Write("asp", Dt)

AspConfig == Both("asp", Dt)

(* MUTANT of BrownoutConfig: what is noted is this limit only. *)
BrownoutConfigAlone(br) ==
    IF ~Has("vpbr-enable") THEN <<>>
    ELSE SetBits("pwr3", {br}) \o Replace("pwr3", {br})
         \o (IF BrConfig THEN Both(br, Dt) ELSE <<>>)

(* Both limits are enabled in one register, with class H. *)
BrownoutConfig(br) ==
    IF ~Has("vpbr-enable") THEN <<>>
    ELSE SetBits("pwr3", {br}) \o ReplaceRepeat("pwr3")
         \o (IF BrConfig THEN Both(br, Dt) ELSE <<>>)

ClasshConfig ==
    Both("vctrl2", IF CondClassh THEN {"lim", "classh"} ELSE {"lim"})
    \o (IF CondClassh THEN SetBits("pwr3", {"classh"}) ELSE Clear("pwr3", {"classh"}))
    \o Repeat("pwr3")

(* cs40l2x_init *)
InitRegisters ==
    (IF Has("refclk-gpio2") /\ ~B1 THEN Both("pad", Dt) \o Both("pll", Dt) ELSE <<>>)
    \o BoostConfig \o Both("routing", Dt) \o Sequence("volume", {"hpf"})
    \o (IF B1 THEN Both("wksrc", GpioMask) ELSE Write("mpu", Dt))
    \o (IF AspAvailable THEN Sequence("pll", Dt) \o AspConfig ELSE <<>>)
    \o (IF Has("dcm-disable") THEN Both("dcm", Dt) ELSE <<>>)
    \o ClasshConfig \o BrownoutConfig("vpbr") \o BrownoutConfig("vbbr")

--------------------------------------------------------------------------------
(* Firmware, its coefficient files, and the words. *)

(* cs40l2x_coeff_init: the controls get their addresses, unless the header is not of
   the firmware that was asked for. *)
CoeffInit(fit) == Call("num_algos") \o Call("algos") \o (IF fit THEN <<>> ELSE Refuse)

(* cs40l2x_firmware_parse: the blocks of the memories are written, in pieces. *)
FirmwareParse(answer) ==
    IF answer \in {"missing", "unknown"} THEN Refuse
    ELSE Call("memory") \o Call("algo_info") \o CoeffInit(answer = "fit")

(* cs40l2x_coeff_file_parse *)
CoeffFileParse(file, answer) ==
    CASE answer = "missing" -> <<>>
      [] answer = "unknown" -> Refuse
      [] answer = "fit" -> Write(file, Dt)

AmpGndSetup == Both("key", {"open"}) \o Both("amp", {"gnd"})
AmpFreeSetup == Write("key", {"open"}) \o Write("amp", Default) \o Write("key", Default)

DspPreConfig(fw) ==
    IF fw = "cal" THEN AmpFreeSetup
    ELSE Write("gpio_mask", GpioMask)
         \o (IF B1 THEN Write("gpio_pol", IF tree = "indv" THEN Dt ELSE Default) ELSE <<>>)
         \o (IF Gpio1Mode = "on" THEN <<>> ELSE Write("gpio_enable", {"off"}))
         \o (IF ~Clamping /\ B1 THEN Write("spk_auto", IF Clamped THEN {"gnd"} ELSE Default)
             ELSE <<>>)
         \o (IF Clamping THEN AmpGndSetup ELSE <<>>)
         \o (IF fw = "orig" THEN <<>>
             ELSE Call("wseq_init") \o Write("events", IF EventControl THEN {"on"} ELSE Default)
                  \o Write("irq_mask", Dt))

DspStart == Call("errata") \o Call("start") \o Call("run")

DspPostConfig(fw) ==
    IF fw = "cal" THEN <<>>
    ELSE Write("timeout_ms", Dt) \o Call("sync") \o Write("comp", Dt)
         \o (IF Has("f0-default") THEN Write("f0", Dt) \o Write("redc", Dt) ELSE <<>>)
         \o (IF Has("q-default") /\ fw # "orig" THEN Write("q", Dt) ELSE <<>>)
         \o (IF setting \in ButtonEdges /\ setting \in GpioMask /\ InRange(setting)
             THEN Write(setting, Dt) ELSE <<>>)
         \o (IF Has("gpio1-fall-timeout") THEN Write("pr_timeout", Dt) ELSE <<>>)
         \o Call("hw_err_chk")

Start(fw) == DspPreConfig(fw) \o DspStart \o DspPostConfig(fw)

(* cs40l2x_i2c_probe up to the request for firmware.  If it fails the supplies are
   switched off, and it may be tried again. *)
Probe ==
    /\ load.phase = "none"
    /\ LET program == PartNumResolve \o InitRegisters
           at == States(program, Fresh)
       IN  \E n \in Ends(program) :
               /\ CutBy(program, n, TRUE)
               /\ unit' = IF Whole(program, n) THEN at[n] ELSE Fresh
               /\ load' = IF Whole(program, n) THEN [load EXCEPT !.phase = "firmware"] ELSE load
    /\ UNCHANGED <<fixed, started, configured, pm, playing, loads>>

(* cs40l2x_firmware_load: user space answers for the firmware, and is asked for files. *)
FirmwareLoad ==
    /\ load.phase = "firmware"
    /\ \E answer \in {"missing", "unknown", "unfit", "fit"} :
        LET program == FirmwareParse(answer)
            at == States(program, unit)
        IN  \E n \in Ends(program) :
                /\ CutBy(program, n, answer = "fit")
                /\ unit' = at[n]
                /\ load' = IF Whole(program, n)
                           THEN [load EXCEPT !.phase = "files", !.pending = Requested(unit.fw)]
                           ELSE [load EXCEPT !.phase = "over"]
    /\ UNCHANGED <<fixed, started, configured, pm, playing, loads>>

(* MUTANT of Counted: a file is counted before it is parsed. *)
CountedFirst(parsed) == load.counted + 1

(* A file that is missing is counted as well; one that is refused is not. *)
Counted(parsed) == IF parsed THEN load.counted + 1 ELSE load.counted

(* cs40l2x_coeff_file_load: user space answers for a file, in any order.  With the last
   that is counted the DSP is started, and the device offered to user space. *)
CoeffFileLoad(file) ==
    /\ load.phase = "files" /\ file \in load.pending
    /\ \E answer \in IF file \in Missing THEN {"missing"} ELSE {"unknown", "fit"} :
        LET parse == CoeffFileParse(file, answer)
            counted == Counted(answer # "unknown")
            last == counted = Cardinality(CoeffFiles(unit.fw))
            program == parse \o (IF last THEN Start(unit.fw) \o Call("create_led") ELSE <<>>)
            at == States(program, unit)
        IN  \E n \in Ends(program) :
                /\ CutBy(program, n, answer # "unknown")
                /\ unit' = at[n]
                /\ load' = [load EXCEPT !.pending = @ \ {file},
                                        !.counted = IF n < Len(parse) THEN Counted(FALSE) ELSE counted,
                                        !.refused = @ \/ n < Len(parse),
                                        !.phase = IF last /\ n >= Len(parse) THEN "over" ELSE @]
                /\ configured' = (last /\ Whole(program, n))
                /\ started' = configured'
                /\ pm' = IF configured' THEN "active" ELSE pm
    /\ UNCHANGED <<fixed, playing, loads>>

--------------------------------------------------------------------------------
(* A device that is in use. *)

(* The coefficient files, one after the other: one that is missing is passed over, and
   one that is refused ends the load. *)
CoeffFilesParse(fw, refused) ==
    LET parse(f) == CoeffFileParse(f, IF f \in Missing THEN "missing"
                                      ELSE IF f = refused THEN "unknown" ELSE "fit")
        files == {f \in Requested(fw) : parse(f) # <<>>}
    IN  IF refused \in files THEN Refuse ELSE IF setting \in files THEN parse(setting) ELSE <<>>

(* cs40l2x_firmware_swap.  The firmware that runs is told to stop, or the chip was reset. *)
FirmwareSwap(u, fw, answer, refused) ==
    (CASE u.fw = "orig" -> Refuse
       [] u.fw = "rom" -> BasicModeExit(u) \o (IF fw = u.remap THEN <<>> ELSE Call("execute"))
       [] OTHER -> IF u.dsp = u.fw THEN Call("standby") ELSE Refuse)
    \o Call("stop")
    \o (IF fw = "rom" THEN Refuse ELSE Call(IF fw = "cal" THEN "fw_cal" ELSE "fw_remap"))
    \o FirmwareParse(answer) \o CoeffFilesParse(fw, refused) \o Start(fw)

(* A chip that is still asleep after a resume that failed may wake when it is accessed. *)
Touched(u) == {u, Awake(u)}

(* A swap to a firmware, and what the caller does after it. *)
Swapped(u, fw, after) ==
    /\ loads < MaxLoads /\ loads' = IF Clamping THEN loads + 1 ELSE loads
    /\ \E answer \in {"missing", "unknown", "unfit", "fit"}, refused \in {"none"} \cup Files :
        LET program == (IF u.asleep THEN Refuse ELSE <<>>)
                       \o FirmwareSwap(u, fw, answer, refused) \o after
            at == States(program, u)
        IN  /\ answer = "fit" \/ refused = "none"
            /\ refused \in {"none"} \cup (Requested(fw) \ Missing)
            /\ \E n \in Ends(program) :
                /\ CutBy(program, n, answer = "fit" /\ refused = "none")
                /\ configured' = Whole(program, n)
                /\ unit' = at[n]
    /\ UNCHANGED <<fixed, load, started, pm>>

InUse == started /\ B1 /\ pm # "suspended"

(* cs40l2x_fw_swap_store: what is asked for is what an index or a recovery restores. *)
FwSwapStore ==
    /\ InUse /\ playing \in Quiet
    /\ \E fw \in {"remap", "cal"} \ {unit.fw}, u \in Touched(unit) : Swapped(u, fw, Call("keep"))
    /\ UNCHANGED playing

(* cs40l2x_cp_trigger_index_impl: a diagnosis needs the calibration firmware, and other
   indices the one for effects. *)
StoreIndex ==
    /\ InUse /\ playing \in Quiet
    /\ \E fw \in (IF unit.fw = unit.remap THEN {"cal"} ELSE {})
                 \cup (IF unit.fw = "cal" THEN {unit.remap} ELSE {}), u \in Touched(unit) :
            Swapped(u, fw, <<>>)
    /\ UNCHANGED playing

(* cs40l2x_reset_recovery, by an error that persists.  An access that fails before the
   reset changes nothing. *)
Recover ==
    /\ InUse /\ playing' = "no"
    /\ LET noted == Final(IF AspAvailable THEN Replace("pll", Dt) ELSE <<>>, unit) IN
       Swapped([noted EXCEPT !.reg = Default, !.table = <<>>, !.dsp = "rom", !.fw = "rom",
                             !.asleep = FALSE], unit.fw, <<>>)

SuspendProgram(u) ==
    (IF Gpio1Mode = "auto" /\ u.fw # "cal" THEN Write("gpio_enable", {"on"}) ELSE <<>>)
    \o (IF Has("hiber") /\ u.fw \notin {"cal", "orig"} THEN Call("hibernate") ELSE <<>>)

(* cs40l2x_apply_hibernate_errata: a chip that woke and did not acknowledge it in time is
   sent to sleep again, with the bus as the only source that wakes it. *)
HibernateErrata == Call("wake") \o Write("wksrc", Default) \o Call("hibernate")

(* cs40l2x_hiber_cmd_send tries a wake-up until it is acknowledged. *)
ResumeProgram(u, late) ==
    (IF Has("hiber") /\ u.fw \notin {"cal", "orig"}
     THEN IF u.dsp = "remap" THEN (IF late THEN HibernateErrata ELSE <<>>) \o Call("wake")
          ELSE Refuse
     ELSE <<>>)
    \o (IF Gpio1Mode = "auto" /\ u.fw # "cal" THEN Write("gpio_enable", {"off"}) ELSE <<>>)

(* Runtime PM, which refuses everything after a call that failed. *)
Transition(program, to) ==
    LET at == States(program, unit) IN
    /\ \E n \in Ends(program) :
        /\ CutBy(program, n, TRUE)
        /\ unit' = at[n]
        /\ pm' = IF Whole(program, n) THEN to ELSE "error"
    /\ UNCHANGED <<fixed, load, started, configured, playing, loads>>

Suspend == pm = "active" /\ playing \in Quiet /\ Transition(SuspendProgram(unit), "suspended")
Resume ==
    /\ pm = "suspended"
    /\ \E late \in BOOLEAN : Transition(ResumeProgram(unit, late), "active")

(* cs40l2x_cond_classh: the boost is fixed while the waveform corrects itself. *)
Boost(kind) ==
    IF kind = "plain"
    THEN SetBits("vctrl2", {"classh"}) \o SetBits("pwr3", {"classh"}) \o Write("limit", Dt)
    ELSE Write("limit", IF kind = "clab" THEN {"clab"} ELSE Dt)
         \o Clear("vctrl2", {"classh"}) \o Clear("pwr3", {"classh"})

(* cs40l2x_vibe_start_worker, for as much as it configures.  A waveform may replace one
   that plays; where an access fails, or the trigger, the driver takes it to be over. *)
Play(kind) ==
    /\ configured /\ pm = "active" /\ unit.fw = "remap"
    /\ kind # "plain" => CondClassh
    /\ CondClassh \/ Clamping
    /\ LET program == (IF Clamping THEN Write("amp", Default) ELSE Boost(kind)) \o Call("trigger")
           at == States(program, unit)
       IN  \E n \in Ends(program) :
               /\ CutBy(program, n, TRUE)
               /\ unit' = at[n]
               /\ playing' = IF Whole(program, n) THEN kind ELSE "failed"
    /\ UNCHANGED <<fixed, load, started, configured, pm, loads>>

(* MUTANT of Stop: class H is not enabled again. *)
StopFixed ==
    /\ playing \notin Quiet /\ playing' = "no"
    /\ unit' = IF Clamping THEN Final(Write("amp", {"gnd"}), unit) ELSE unit
    /\ UNCHANGED <<fixed, load, started, configured, pm, loads, cut>>

(* cs40l2x_vibe_mode_worker, at the end of a waveform.  If the amplifier cannot be
   grounded the waveform is not taken to be over; if class H cannot be enabled it is. *)
Stop ==
    /\ playing \notin Quiet
    /\ LET program == IF Clamping THEN Write("amp", {"gnd"})
                      ELSE SetBits("vctrl2", {"classh"}) \o SetBits("pwr3", {"classh"})
           at == States(program, unit)
       IN  \E n \in Ends(program) :
               /\ CutBy(program, n, TRUE)
               /\ unit' = at[n]
               /\ playing' = IF Whole(program, n) THEN "no"
                             ELSE IF Clamping THEN playing ELSE "failed"
    /\ UNCHANGED <<fixed, load, started, configured, pm, loads>>

(* cs40l2x_i2c_remove, while no answer is outstanding *)
Unbind ==
    /\ load.phase = "over" \/ (load.phase = "files" /\ load.pending = {})
    /\ unit' = Fresh /\ load' = NoLoad /\ started' = FALSE /\ configured' = FALSE
    /\ pm' = "off" /\ playing' = "no" /\ loads' = 0
    /\ UNCHANGED <<fixed, cut>>

Next ==
    \/ Probe \/ FirmwareLoad \/ \E file \in Files : CoeffFileLoad(file)
    \/ FwSwapStore \/ StoreIndex \/ Recover
    \/ Suspend \/ Resume \/ \E kind \in Kinds : Play(kind)
    \/ Stop \/ Unbind

Spec == Init /\ [][Next]_vars

--------------------------------------------------------------------------------
(* What the device tree asks of the watched setting, with the firmware that runs. *)
ClassH == IF CondClassh /\ playing \notin {"clab", "f0"} THEN {"classh"} ELSE {}
If(condition, value) == IF condition THEN value ELSE Default
Effects == unit.fw # "cal"

RegisterWanted ==
    CASE setting = "errata" -> Dt
      [] setting = "lbst" -> IF B1 THEN {"off"} ELSE If(device = "l25", {"on"})
      [] setting = "trim" -> If(device = "l20", Dt)
      [] setting = "key" -> If(Clamping /\ Effects, {"open"})
      [] setting = "pad" -> If(Has("refclk-gpio2") /\ ~B1, Dt)
      [] setting = "pll" -> If((Has("refclk-gpio2") /\ ~B1) \/ AspAvailable, Dt)
      [] setting \in {"ovp", "dcm"} -> If(Has(setting), Dt)
      [] setting = "limit" -> IF playing = "clab" THEN {"clab"} ELSE Dt
      [] setting = "vctrl2" -> {"lim"} \cup ClassH
      [] setting = "pwr3" -> ClassH \cup If(Has("vpbr-enable"), {"vpbr", "vbbr"})
      [] setting \in {"vpbr", "vbbr"} -> If(Has("vpbr-enable") /\ BrConfig, Dt)
      [] setting = "global_en" -> Default
      [] setting = "volume" -> If(B1, {"hpf"})
      [] setting = "mpu" -> If(~B1, Dt)
      [] setting = "wksrc" -> If(B1, GpioMask)
      [] setting = "asp" -> If(AspAvailable, Dt)
      [] setting = "amp" -> If(Clamping /\ Effects /\ playing = "no", {"gnd"})
      [] OTHER -> Dt

WordWanted ==
    CASE setting \in Files ->
           If(setting \in Requested(unit.fw) \ Missing, Dt)
      [] ~Effects -> Default
      [] setting = "gpio_mask" -> GpioMask
      [] setting = "gpio_pol" -> If(B1 /\ tree = "indv", Dt)
      [] setting = "gpio_enable" ->
           IF Gpio1Mode = "auto" /\ pm = "suspended" THEN {"on"} ELSE If(Gpio1Mode # "on", {"off"})
      [] setting = "spk_auto" -> If(Clamped /\ ~Clamping /\ B1, {"gnd"})
      [] setting = "events" -> If(EventControl, {"on"})
      [] setting = "irq_mask" -> If(B1, Dt)
      [] setting \in ButtonEdges -> If(setting \in GpioMask /\ InRange(setting), Dt)
      [] setting \in {"f0", "redc", "pr_timeout"} -> If(Has(setting), Dt)
      [] setting = "q" -> If(Has("q-default") /\ B1, Dt)
      [] OTHER -> Dt

(* Not so: registers with a calibration firmware that a recovery restored by its own
   name, the limit after a waveform with active braking, what a start or an end that
   failed left, and the button and the sources that wake the chip when runtime PM gave
   up. *)
Claimed ==
    /\ configured
    /\ (setting \in Registers => Effects \/ unit.remap # "cal")
    /\ ~(setting = "limit" /\ CondClassh /\ playing = "no")
    /\ ~(setting \in {"amp", "vctrl2", "pwr3", "limit"} /\ playing = "failed")
    /\ ~(setting \in {"gpio_enable", "wksrc"} /\ pm = "error")

(* Once a load came to its end, in whatever order user space answered and by whatever
   swaps, recoveries and hibernations: a register holds what was asked while the chip is
   awake, and a word and a file what was asked with the firmware that runs. *)
InForce ==
    Claimed => IF setting \in Registers THEN unit.asleep \/ unit.reg = RegisterWanted
               ELSE unit.reg = WordWanted

(* The DSP is started once all files that were asked for are answered, and never with one
   of them refused.  (A list with the resonances that are disabled has one file that is
   not asked for, and waits for it.) *)
AllAnswered ==
    /\ load.phase = "files" /\ load.pending = {} =>
           load.refused \/ Requested(unit.fw) # CoeffFiles(unit.fw)
    /\ started => load.pending = {} /\ ~load.refused
================================================================================
