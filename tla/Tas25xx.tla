------------------------------- MODULE Tas25xx -------------------------------
(***************************************************************************)
(* The TAS25xx driver with two amplifiers: the power states a stream walks *)
(* it through, the deferred work that ends a power-up, the work that       *)
(* answers a chip's interrupt by a reset, a restart or a shutdown, and     *)
(* what the driver writes again after a reset.  What the blocks of the     *)
(* register binary do to a chip is external: the one before power-up turns *)
(* it on, the one after completes it.  Work and handlers run under         *)
(* codec_lock, so each is one step.                                        *)
(***************************************************************************)
EXTENDS Integers, FiniteSets

CONSTANTS
    Setups,       \* what a fault does, of those in SetupsKnown
    IrqLimit,     \* TAS25XX_IRQ_DET_CNT_LIMIT
    MaxFaults     \* a bound: faults in a behaviour

Channels == {1, 2}
SetupsKnown == {"shutdown", "restart", "software", "hardware", "clock", "faulty"}

(* What a behaviour sets: of the stream, or a control of the first channel by when it is written. *)
Settings == {"fmt", "rx_width", "tx_format", "rate", "anytime", "pre", "post", "em", "profile"}
Controls == {"anytime", "pre", "post", "em", "profile"}

(* Each is watched where what a fault does is of interest to it. *)
SettingsOf(s) ==
    CASE s = "software" -> Settings \ {"profile"}
      [] s = "hardware" -> {"rx_width", "anytime"}
      [] s = "shutdown" -> {"profile"}
      [] s = "clock" -> {"post"}
      [] OTHER -> {"pre"}

TasAssumption ==
    /\ Setups \subseteq SetupsKnown
    /\ IrqLimit \in Nat \ {0} /\ MaxFaults \in Nat

VARIABLES
    setup, setting,
    table,      \* what formats of the sense slots the binary has, best first
    tas,        \* struct tas25xx_priv, its chips and the work queued
    dac_power, suspended,
    wanted,     \* what the focused setting was last set to
    faults

vars == <<setup, setting, table, tas, dac_power, suspended, wanted, faults>>

(* The actions the binary gives a clock interrupt and the others. *)
Action(k) ==
    CASE k = "clock" -> IF setup = "clock" THEN {} ELSE {"power_on"}
      [] setup \in {"restart", "clock", "faulty"} -> {"power_on"}
      [] setup = "software" -> {"power_on", "sw_reset"}
      [] setup = "hardware" -> {"power_on", "hw_reset"}
      [] OTHER -> {}

Reset == [power |-> "off", intr |-> FALSE, set |-> 0]

Init ==
    /\ setup \in Setups /\ setting \in SettingsOf(setup)
    /\ table \in (IF setting = "tx_format" THEN {{1}, {2, 4}, {}} ELSE {{1}})
    /\ tas = [fw_state |-> "LOAD_FAIL", m_power_state |-> "shutdown",
              mn_fmt |-> 0, mn_fmt_mode |-> 0, mn_rx_width |-> 0, mn_tx_slot_width |-> 0,
              sample_rate |-> 0, curr_val |-> 0,
              chip |-> [c \in Channels |-> Reset], latched |-> [c \in Channels |-> {}],
              detected |-> [c \in Channels |-> {}], irq_count |-> [c \in Channels |-> 0],
              init_work |-> [c \in Channels |-> {}], irq_work |-> FALSE,
              \* what the ways a reset, a fault or a suspend is mishandled have left behind
              lost |-> FALSE, stray |-> {}, disarmed |-> {}, missed |-> {}]
    /\ dac_power = FALSE /\ suspended = FALSE /\ wanted = 0 /\ faults = 0

(* Op on the channels of a mask, in the driver's order. *)
EachOf(Op(_, _), t, mask) ==
    LET a == IF 1 \in mask THEN Op(t, 1) ELSE t
    IN IF 2 \in mask THEN Op(a, 2) ELSE a

------------------------------------------------------------------------------
(* Interrupts of a chip *)

InterruptClear(t, c) == [t EXCEPT !.latched[c] = {}, !.missed = @ \ {c}]

InterruptDisable(t, c) == [t EXCEPT !.chip[c].intr = FALSE]

(* Allowing what is latched pulls the line, whose handler queues the work. *)
InterruptEnable(t, c) ==
    [t EXCEPT !.chip[c].intr = TRUE, !.irq_count[c] = 0, !.disarmed = @ \ {c},
              !.irq_work = @ \/ t.latched[c] # {}]

(* Faults of the clocks count only in the active state. *)
InterruptRead(t, c) ==
    IF t.m_power_state = "active" THEN t.latched[c] ELSE t.latched[c] \ {"clock"}

Detect(t, c) == [t EXCEPT !.detected[c] = @ \cup InterruptRead(t, c)]

------------------------------------------------------------------------------
(* Power *)

Opmode(t) == IF setting = "profile" /\ t.curr_val = 1 THEN {1} ELSE Channels

(* The controls of a kind written to their chip. *)
UpdateKcontrolData(t, when) ==
    IF setting = when THEN [t EXCEPT !.chip[1].set = t.curr_val] ELSE t

PowerUp(t, c, fails) ==
    IF c \in fails THEN [t EXCEPT !.disarmed = @ \cup {c}]
    ELSE LET on == [t EXCEPT !.chip[c].power = "on", !.init_work[c] = @ \cup {"pending"}]
         IN IF c = 1 THEN UpdateKcontrolData(on, "pre") ELSE on

PowerDown(t, c) ==
    [t EXCEPT !.chip[c].power = "off", !.chip[c].intr = FALSE,
              !.init_work[c] = @ \ {"pending"}, !.stray = @ \ {c}]

Mute(t, c) == [t EXCEPT !.chip[c].power = IF @ = "on" THEN "muted" ELSE @]

(* The blocks of a state, written to a channel of a device whose state was another. *)
WriteBlocks(t, c, s, was, fails) ==
    CASE s = "active" -> PowerUp(IF was # s THEN InterruptClear(t, c) ELSE t, c, fails)
      [] s = "mute" -> Mute(t, c)
      [] s = "shutdown" -> PowerDown(t, c)

(* The state is everyone's, the blocks are written to the channels of the mask. *)
SetPowerState(t, s, mask, fails) ==
    LET Op(v, c) == WriteBlocks(v, c, s, t.m_power_state, fails)
    IN EachOf(Op, [t EXCEPT !.m_power_state = s], mask \cap Opmode(t))

------------------------------------------------------------------------------
(* What is written to every chip, and again after a reset *)

Write(t, s, v) ==
    IF setting = s THEN [t EXCEPT !.chip = [c \in Channels |-> [t.chip[c] EXCEPT !.set = v]]]
    ELSE t

SetSampleRate(t, v) == Write([t EXCEPT !.sample_rate = v], "rate", v)

SetDaiFmtForFmt(t) == Write(t, "fmt", t.mn_fmt)

RxSetBitwidth(t, w) == Write([t EXCEPT !.mn_rx_width = w], "rx_width", w)

(* Sense widths 16, 12, 8 with the battery's slot, then without it: the first the binary has. *)
IvVbatSlotConfig(t, w) ==
    Write([t EXCEPT !.mn_tx_slot_width = w], "tx_format",
          CHOOSE f \in table : \A g \in table : f <= g)

WriteInitConfigParams(t) ==
    Write(Write(Write(SetSampleRate(t, 0), "fmt", 0), "rx_width", 0), "tx_format", 0)

(* How far a reset's settings are written again: a width that was never set, or time slots,
   end it. *)
Reaches(t, s) ==
    CASE s = "fmt" -> TRUE
      [] s = "rx_width" -> t.mn_fmt_mode = 0 \/ t.mn_rx_width # 0
      [] OTHER -> \/ t.mn_fmt_mode = 0
                  \/ t.mn_fmt_mode = 1 /\ t.mn_rx_width # 0 /\ t.mn_tx_slot_width # 0

\* MUTANT of FormatAgain: the format of the interface is not written again.
FormatAgainNot(t) == t

FormatAgain(t) == IF t.mn_fmt # 0 THEN SetDaiFmtForFmt(t) ELSE t

Reinit(t) ==
    LET a == WriteInitConfigParams(t)
        f == FormatAgain(a)
        b == IF Reaches(f, "rx_width") /\ f.mn_fmt_mode # 0
               THEN RxSetBitwidth(f, f.mn_rx_width) ELSE f
        c == IF Reaches(b, "tx_format") /\ b.mn_fmt_mode = 1
               THEN IvVbatSlotConfig(b, b.mn_tx_slot_width) ELSE b
        d == IF Reaches(c, "rate")
               THEN UpdateKcontrolData(SetSampleRate(c, c.sample_rate), "anytime") ELSE c
    IN [d EXCEPT !.lost = @ \/ setting = "rate"
                            \/ (setting \notin {"pre", "post"} /\ ~Reaches(a, setting))]

SoftwareReset(t, c) ==
    [t EXCEPT !.chip[c] = Reset, !.latched[c] = {}, !.missed = @ \ {c},
              !.stray = @ \ {c}, !.lost = @ \/ setting = "em"]

HardReset(t) == EachOf(SoftwareReset, t, Channels)

------------------------------------------------------------------------------
(* The work of an interrupt *)

Armless(t, c) == [t EXCEPT !.disarmed = @ \cup {c}]

(* One channel's turn; r.reset stays set for the channels after. *)
IrqChannel(r, c, late, fails) ==
    LET t == InterruptDisable(r.t, c)
        count == CASE t.irq_count[c] = 0 -> 1
                   [] c \in late -> 0
                   [] OTHER -> t.irq_count[c] + 1
        b == [t EXCEPT !.irq_count[c] = count]
        kinds == t.detected[c]
        d == [InterruptClear(b, c) EXCEPT !.detected[c] = {}]
        actions == (UNION {Action(k) : k \in kinds})
                     \ (IF kinds = {"clock"} THEN {"power_on"} ELSE {})
        e == IF "hw_reset" \in actions THEN HardReset(d) ELSE d
        f == IF "sw_reset" \in actions THEN SoftwareReset(e, c) ELSE e
        reset == r.reset \/ actions \cap {"hw_reset", "sw_reset"} # {}
        g == IF reset THEN Reinit(f) ELSE f
        up == SetPowerState(g, "active", {c}, fails)
        Done(u) == [t |-> u, reset |-> reset]
    IN IF count > IrqLimit THEN [t |-> Armless([b EXCEPT !.irq_count[c] = IrqLimit], c), reset |-> r.reset]
       ELSE IF \E k \in kinds : "power_on" \notin Action(k)
         THEN [t |-> IF "other" \in kinds THEN SetPowerState(d, "shutdown", {c}, {}) ELSE Armless(d, c),
               reset |-> r.reset]
       ELSE IF "power_on" \notin actions THEN Done(Armless(g, c))
       ELSE IF g.chip[c].power = "off"
         THEN Done(IF dac_power THEN up ELSE [up EXCEPT !.stray = @ \cup {c}])
       ELSE Done(InterruptEnable(g, c))

(* late: whose last interrupt is TAS25XX_IRQ_DET_TIMEOUT ago *)
IrqWorkFunc(t, late, fails) ==
    LET seen == EachOf(Detect, t, Channels)
        found == {c \in Channels : InterruptRead(t, c) # {}}
        Op(r, c) == IrqChannel(r, c, late, fails)
        r == EachOf(Op, [t |-> seen, reset |-> FALSE], found)
    IN [r.t EXCEPT !.missed = @ \cup {c \in Channels \ found : t.latched[c] # {}}]

Failing == IF setup = "faulty" THEN SUBSET Channels ELSE {{}}

IrqWorkRoutine(late, fails) ==
    LET t == [tas EXCEPT !.irq_work = FALSE]
    IN /\ tas.irq_work
       /\ late \subseteq {c \in Channels : tas.irq_count[c] # 0} /\ fails \in Failing
       /\ tas' = IF suspended
                   THEN [t EXCEPT !.missed = {c \in Channels : t.latched[c] # {}}]
                   ELSE IrqWorkFunc(t, late, fails)
       /\ UNCHANGED <<setup, setting, table, dac_power, suspended, wanted, faults>>

------------------------------------------------------------------------------
(* The work that ends a power-up *)

InitStarts(c) ==
    /\ "pending" \in tas.init_work[c] /\ "started" \notin tas.init_work[c]
    /\ tas' = [tas EXCEPT !.init_work[c] = {"started"}]
    /\ UNCHANGED <<setup, setting, table, dac_power, suspended, wanted, faults>>

(* Faults of the clocks while powering up are forgotten, others are left to raise the line. *)
InitWorkFunc(t, c) ==
    LET a == IF c = 1 THEN UpdateKcontrolData(t, "post") ELSE t
        b == Detect(a, c)
    IN InterruptEnable(IF InterruptRead(a, c) = {"clock"} THEN InterruptClear(b, c) ELSE b, c)

\* MUTANT of MayInit: a work that was started is not told the device was shut down.
MayInitAlways(t) == TRUE

MayInit(t) == t.m_power_state = "active"

(* While suspended, registers are written to a cache that keeps none of them. *)
InitWorkRoutine(c) ==
    LET t == [tas EXCEPT !.init_work[c] = @ \ {"started"}]
    IN /\ "started" \in tas.init_work[c]
       /\ tas' = IF ~MayInit(t) THEN t
                 ELSE IF suspended
                   THEN [Armless(t, c) EXCEPT !.irq_count[c] = 0,
                                              !.lost = @ \/ (setting = "post" /\ c = 1)]
                 ELSE InitWorkFunc(IF t.m_power_state = "active" /\ ~dac_power
                                     THEN [t EXCEPT !.stray = @ \cup {c}] ELSE t, c)
       /\ UNCHANGED <<setup, setting, table, dac_power, suspended, wanted, faults>>

------------------------------------------------------------------------------
(* The stream *)

Ready == tas.fw_state = "OK" /\ ~suspended

(* The binary is asked for again by a stream that finds none; the chips start from a reset. *)
StartFwLoad ==
    /\ tas.fw_state = "LOAD_FAIL" /\ ~suspended
    /\ tas' = [WriteInitConfigParams(HardReset(tas)) EXCEPT !.fw_state = "OK", !.lost = FALSE]
    /\ UNCHANGED <<setup, setting, table, dac_power, suspended, wanted, faults>>

SetDaiFmt ==
    /\ Ready /\ ~dac_power /\ setting = "fmt"
    /\ \E fmt \in {1, 2} :
         /\ tas' = [SetDaiFmtForFmt([tas EXCEPT !.mn_fmt = fmt]) EXCEPT !.lost = FALSE]
         /\ wanted' = fmt
    /\ UNCHANGED <<setup, setting, table, dac_power, suspended, faults>>

(* More than two channels of audio mean time slots. *)
HwParamsPlayback(mode, width, rate) ==
    LET t == SetSampleRate(RxSetBitwidth([tas EXCEPT !.mn_fmt_mode = mode], width), rate)
    IN /\ Ready /\ ~dac_power
       /\ tas' = [t EXCEPT !.lost = @ /\ setting \notin {"rx_width", "rate"}]
       /\ wanted' = CASE setting = "rx_width" -> width [] setting = "rate" -> rate [] OTHER -> wanted
       /\ UNCHANGED <<setup, setting, table, dac_power, suspended, faults>>

HwParamsCapture(mode) ==
    LET t == [tas EXCEPT !.mn_fmt_mode = mode]
    IN /\ Ready
       /\ tas' = IF table = {} THEN t
                 ELSE [IvVbatSlotConfig(t, 16) EXCEPT !.lost = @ /\ setting # "tx_format"]
       /\ wanted' = IF setting = "tx_format" /\ table # {}
                      THEN CHOOSE f \in table : \A g \in table : f <= g ELSE wanted
       /\ UNCHANGED <<setup, setting, table, dac_power, suspended, faults>>

(* The formats of a stream are varied where resets write them again. *)
HwParams ==
    \E mode \in (IF setting \in {"rx_width", "anytime"} THEN {1, 2} ELSE {1}) :
      \/ \E width \in (IF setting = "rx_width" THEN {16, 24} ELSE {16}),
            rate \in (IF setting = "rate" THEN {1, 2} ELSE {0}) :
              HwParamsPlayback(mode, width, rate)
      \/ setup = "software" /\ HwParamsCapture(mode)

DacPostPmu(fails) ==
    /\ Ready /\ ~dac_power /\ tas.mn_rx_width # 0 /\ fails \in Failing
    /\ dac_power' = TRUE
    /\ tas' = [SetPowerState(tas, "active", Channels, fails) EXCEPT !.stray = {}]
    /\ UNCHANGED <<setup, setting, table, suspended, wanted, faults>>

(* Channels an interrupt's shutdown or a change of profile spares are left on. *)
DacPrePmd ==
    /\ Ready /\ dac_power
    /\ dac_power' = FALSE
    /\ tas' = IF tas.m_power_state # "shutdown"
                THEN [SetPowerState(tas, "shutdown", Channels, {})
                        EXCEPT !.stray = Channels \ Opmode(tas)]
                ELSE [tas EXCEPT !.stray = {c \in Channels : tas.chip[c].power # "off" \/ tas.chip[c].intr}]
    /\ UNCHANGED <<setup, setting, table, suspended, wanted, faults>>

MuteStream(mute, fails) ==
    /\ Ready /\ dac_power /\ fails \in Failing /\ setup \in {"shutdown", "restart"}
    /\ ~mute => tas.m_power_state = "mute"
    /\ tas' = SetPowerState(tas, IF mute THEN "mute" ELSE "active", Channels, fails)
    /\ UNCHANGED <<setup, setting, table, dac_power, suspended, wanted, faults>>

(* A control that is not for any time is only remembered while the device is not active; a
   profile that spares the second channel leaves it as it is. *)
Put(v) ==
    LET now == setting \in {"anytime", "em"} \/ tas.m_power_state = "active"
        t == [tas EXCEPT !.curr_val = v, !.lost = FALSE,
                         !.disarmed = IF setting = "profile" THEN @ \cup {2} ELSE @]
    IN /\ Ready /\ setting \in Controls /\ wanted' = v
       /\ tas' = IF now THEN UpdateKcontrolData(t, setting) ELSE t
       /\ UNCHANGED <<setup, setting, table, dac_power, suspended, faults>>

------------------------------------------------------------------------------
(* Suspension and the chips *)

Suspend ==
    /\ ~suspended /\ setup = "clock" /\ suspended' = TRUE
    /\ tas' = [tas EXCEPT !.irq_work = FALSE,
                          !.missed = IF tas.irq_work
                                       THEN {c \in Channels : tas.latched[c] # {}} ELSE @]
    /\ UNCHANGED <<setup, setting, table, dac_power, wanted, faults>>

Resume ==
    /\ suspended /\ suspended' = FALSE
    /\ UNCHANGED <<setup, setting, table, tas, dac_power, wanted, faults>>

(* A fault of a chip that is on, of the second where it concerns the first; its line queues the work if the chip may pull it. *)
Fault(c, k) ==
    /\ c = 1 \/ setup = "hardware"
    /\ faults < MaxFaults /\ tas.chip[c].power # "off" /\ k \notin tas.latched[c]
    /\ tas' = [tas EXCEPT !.latched[c] = @ \cup {k}, !.missed = @ \ {c},
                          !.irq_work = @ \/ tas.chip[c].intr]
    /\ faults' = faults + 1
    /\ UNCHANGED <<setup, setting, table, dac_power, suspended, wanted>>

Next ==
    \/ StartFwLoad \/ SetDaiFmt \/ HwParams \/ DacPrePmd \/ Suspend \/ Resume
    \/ \E v \in {0, 1} : Put(v)
    \/ \E fails \in SUBSET Channels :
         \/ DacPostPmu(fails) \/ \E mute \in BOOLEAN : MuteStream(mute, fails)
         \/ \E late \in SUBSET Channels : IrqWorkRoutine(late, fails)
    \/ \E c \in Channels : InitStarts(c) \/ InitWorkRoutine(c) \/ \E k \in {"clock", "other"} : Fault(c, k)

Spec == Init /\ [][Next]_vars

------------------------------------------------------------------------------
TypeOK ==
    /\ setup \in Setups /\ setting \in Settings /\ dac_power \in BOOLEAN /\ suspended \in BOOLEAN
    /\ faults \in 0..MaxFaults /\ tas.fw_state \in {"LOAD_FAIL", "OK"}
    /\ tas.m_power_state \in {"active", "mute", "shutdown"}
    /\ \A c \in Channels :
         /\ tas.chip[c].power \in {"off", "on", "muted"} /\ tas.chip[c].intr \in BOOLEAN
         /\ tas.latched[c] \subseteq {"clock", "other"} /\ tas.detected[c] \subseteq {"clock", "other"}
         /\ tas.irq_count[c] \in 0..IrqLimit /\ tas.init_work[c] \subseteq {"pending", "started"}
    /\ tas.irq_work \in BOOLEAN

(* Without a stream no chip is on and none raises an interrupt, whatever work was left started,
   but those a shutdown passed over, those an interrupt turned on again, and those whose work
   was left started until then. *)
Silent ==
    ~dac_power =>
      \A c \in Channels \ tas.stray : tas.chip[c].power = "off" /\ ~tas.chip[c].intr

(* A chip that is on has what was last set, whatever resets it went through, but for what a
   reset is known to lose. *)
Kept ==
    setting # "profile" /\ ~tas.lost /\ tas.m_power_state = "active" =>
      \A c \in (IF setting \in Controls THEN {1} ELSE Channels) :
        tas.chip[c].power = "on" /\ (setting = "post" => tas.init_work[c] = {})
          => tas.chip[c].set = wanted

(* While a stream plays, a chip that is on can report a fault, or the work that will let it is
   queued. *)
Armed ==
    dac_power /\ tas.m_power_state = "active" =>
      \A c \in Opmode(tas) \ tas.disarmed :
        tas.chip[c].power = "on" => tas.chip[c].intr \/ tas.init_work[c] # {}

(* A fault a chip reports is going to be looked at. *)
Heard ==
    tas.m_power_state = "active" =>
      \A c \in Channels \ tas.missed :
        tas.chip[c].intr /\ tas.latched[c] # {} => tas.irq_work

SmartAmpSound == Silent /\ Kept /\ Armed /\ Heard
==============================================================================
