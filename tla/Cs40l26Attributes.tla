-------------------------- MODULE Cs40l26Attributes --------------------------
(***************************************************************************)
(* The attributes in sysfs that set words of the CS40L26's DSP, beside the  *)
(* loads of Cs40l26Config: the results of calibrations, the compensations,  *)
(* the timeouts, the control that a user selects by its name, and the time  *)
(* an open wavetable's wave brakes.                                         *)
(***************************************************************************)
EXTENDS Cs40l26Config

LOCAL INSTANCE SequencesExt

CONSTANT MaxWaves       \* bound: waves in the open wavetable

VARIABLES
    sel,                \* what is selected for fw_ctrl_val is the watched control's
    waves               \* the waves in the open wavetable, as the DSP has them

attribute_vars == <<sel, waves>>
all_vars == <<vars, attribute_vars>>

AttributesAssumption == MaxWaves \in Nat

Keys == {"algo", "name", "block"}

(* A wave: whether it is a PWLE; its metadata, "svc" that of the braking, and "" none;
   the period in it; and its words, which may look like anything. *)
WaveKinds ==
    {[pwle |-> TRUE, md |-> m, period |-> p, name |-> <<"svc", "end">>] :
        m \in {"svc", "other"}, p \in {0, 1, 2}}
    \cup {[pwle |-> k, md |-> "", period |-> 0, name |-> <<"end", "svc">>] : k \in BOOLEAN}

AttributesTypeOK == TypeOK /\ sel \subseteq Keys /\ waves \in Seq(WaveKinds)

AttributesInit ==
    /\ Init
    /\ sel = {} /\ waves = <<>>

--------------------------------------------------------------------------------
(* The firmware that has the word: those of calibration are not in the runtime's. *)
Algorithm ==
    CASE setting \in {"redc_est", "freq_span", "freq_centre", "ls_temp"} -> {"calib"}
      [] setting \in {"op_gain", "ls_results"} -> {"runtime"}
      [] OTHER -> {"runtime", "calib"}

(* The device is resumed first, which takes runtime PM. *)
Usable == bound /\ unit.pm /\ unit.dsp \in Algorithm

(* An attribute is stored by one access, which may fail; then the chip is awake, and
   nothing else changed, as when it is shown. *)
Access(v) ==
    \/ /\ unit' = [Awake(unit) EXCEPT !.reg = v] /\ stored' = v
       /\ UNCHANGED cut
    \/ unit' = Awake(unit) /\ UNCHANGED <<stored, cut>>
    \/ /\ cut < ConfigFaults /\ cut' = cut + 1
       /\ unit' = Awake(unit) /\ UNCHANGED stored

Rest == UNCHANGED <<fixed, bound, configured, attribute_vars>>

Inputs == {{"low"}, {"user"}, {"high"}}

(* f0_stored, freq_centre and freq_span (without its sign) are bounded on both
   sides, and so is overprotection_gain; f0_offset, a number with a sign, is refused
   between its bounds. *)
F0Stored(v) == setting = "f0" /\ v = {"user"} /\ Access(v)
OverprotectionGain(v) == setting = "op_gain" /\ v = {"user"} /\ Access(v)
FreqCentre(v) == setting = "freq_centre" /\ v = {"user"} /\ Access(v)
FreqSpan(v) == setting = "freq_span" /\ v = {"user"} /\ Access(v)
F0Offset(v) == setting = "f0_offset" /\ v # {"user"} /\ Access(v)

QStored(v) == setting = "q" /\ revision # "b2" /\ v = {"user"} /\ Access(v)

(* Without bounds: redc_stored, redc_est, the temperature, and the six coefficients, if
   they are six, in one write.  Of logging_en the bits that are one. *)
RedcStored(v) == setting = "redc" /\ Access(v)
RedcEst(v) == setting = "redc_est" /\ Access(v)
LsCalibrationParamsTemp(v) == setting = "ls_temp" /\ Access(v)
DvlPeqCoefficients(v) == setting = "peq" /\ Access(v)
LoggingEn(v) == setting = "logging_en" /\ Access(v \ {"high"})

(* The results of the calibration firmware, word by word into the runtime's, which is
   told first to start again with them; what was written before a failure stays. *)
LsCalibrationResults ==
    /\ setting = "ls_results"
    /\ LET program == Add("ls_results", {"reinit"}) \o Add("ls_results", {"first"})
                      \o Add("ls_results", {"second"})
           at == States(program, Awake(unit)) IN
       \E n \in DOMAIN at :
           /\ n < Len(program) => cut < ConfigFaults
           /\ cut' = IF n < Len(program) THEN cut + 1 ELSE cut
           /\ unit' = at[n] /\ stored' = at[n].reg

AttributeAccess ==
    /\ Usable
    /\ \/ \E v \in Inputs :
            \/ F0Stored(v) \/ QStored(v) \/ RedcStored(v) \/ RedcEst(v)
            \/ OverprotectionGain(v) \/ FreqCentre(v) \/ FreqSpan(v)
            \/ F0Offset(v) \/ LsCalibrationParamsTemp(v) \/ LoggingEn(v)
            \/ DvlPeqCoefficients(v)
       \/ LsCalibrationResults
    /\ UNCHANGED comp /\ Rest

(* cs40l26_pm_timeout_ms_set bounds what it is given. *)
PmTimeoutMsSet(v) == IF v = {"low"} THEN {"min"} ELSE IF v = {"high"} THEN {"max"} ELSE v

(* pm_stdby_timeout_ms, pm_active_timeout_ms *)
PmTimeoutMs ==
    /\ Usable /\ setting \in {"stdby", "active"}
    /\ \E v \in Inputs : Access(PmTimeoutMsSet(v))
    /\ UNCHANGED comp /\ Rest

(* MUTANT of CompEnable: the other compensation is not written with it. *)
CompEnableAlone(which, on) == IF on THEN {which} ELSE {}

(* The word: both of the driver's copies, with this one changed *)
CompEnable(which, on) == IF on THEN comp \cup {which} ELSE comp \ {which}

(* f0_comp_enable, redc_comp_enable: the copy is changed first, and kept
   where the calibration firmware has no word for it, or the write fails. *)
CompEnabled ==
    /\ Usable /\ setting = "comp"
    /\ \E which \in {"f0", "redc"}, on \in BOOLEAN :
         /\ comp' = IF on THEN comp \cup {which} ELSE comp \ {which}
         /\ \/ /\ unit' = IF unit.dsp = "calib" THEN Awake(unit)
                          ELSE [Awake(unit) EXCEPT !.reg = CompEnable(which, on)]
               /\ UNCHANGED cut
            \/ /\ unit.dsp # "calib" /\ cut < ConfigFaults /\ cut' = cut + 1
               /\ unit' = Awake(unit)
    /\ UNCHANGED stored /\ Rest

(* fw_algo_id_store, fw_ctrl_name_store, fw_mem_block_type_store *)
FwCtrlSelect ==
    /\ bound /\ setting = "control"
    /\ \E p \in Keys : sel' \in {sel \cup {p}, sel \ {p}}
    /\ UNCHANGED <<vars, waves>>

(* fw_ctrl_val: of a control that can be written and that the DSP does not change; one
   that cannot is refused, and so is another number of words than it has. *)
FwCtrlVal ==
    /\ Usable /\ setting = "control" /\ sel = Keys
    /\ \E v \in Inputs : Access(v)
    /\ UNCHANGED comp /\ Rest

--------------------------------------------------------------------------------
(* The words of a wave in the table: a header, which has its type, whether there is
   metadata, and the number of the words behind; the metadata, ended by a
   terminator, which a PWLE always has; the waveform. *)
WaveWords(w) ==
    <<<<"header", Len(w.name),
        (IF w.pwle THEN {"pwle"} ELSE {}) \cup (IF w.md # "" THEN {"md"} ELSE {})>>>>
    \o (IF w.md = "" THEN <<>> ELSE <<<<w.md, 0, {}>>, <<"word", w.period, {}>>>>)
    \o (IF w.md # "" \/ w.pwle THEN <<<<"end", 0, {}>>>> ELSE <<>>)
    \o [n \in 1 .. Len(w.name) |-> <<w.name[n], 0, {}>>]

Table == FlattenSeq([n \in DOMAIN waves |-> WaveWords(waves[n])])

(* cs40l26_owt_wave_upload and erase, as the table sees them; the DSP closes the gap. *)
ChangeTable ==
    /\ bound /\ configured /\ setting = "braking"
    /\ \/ Len(waves) < MaxWaves /\ \E w \in WaveKinds : waves' = Append(waves, w)
       \/ \E n \in DOMAIN waves : waves' = RemoveAt(waves, n)
    /\ UNCHANGED <<vars, sel>>

(* cs40l26_braking_time_find: where it ends, and the period of the wave that is asked for. *)
BrakingTimeFind(table, wanted) ==
    LET find[at \in DOMAIN table] ==
          IF table[at][1] = "svc" /\ wanted THEN [at |-> at + 2, period |-> table[at + 1][2]]
          ELSE IF table[at][1] = "end" THEN [at |-> at + 1, period |-> 0]
          ELSE find[at + 1]
    IN find

Invalid == 0 - 1

(* MUTANT of OwtBrakingTimeGet: the terminator of a PWLE without metadata is not skipped. *)
OwtBrakingTimeGetNoEnd(table, index) ==
    LET get[at \in 1 .. Len(table) + 4, current \in 0 .. index] ==
          IF at > Len(table) THEN 0
          ELSE LET header == table[at]
                   found == IF "md" \in header[3]
                            THEN BrakingTimeFind(table, index = current)[at + 1]
                            ELSE [at |-> at + 1, period |-> 0]
               IN CASE "pwle" \notin header[3] /\ current = index -> Invalid
                    [] found.period > 0 -> found.period
                    [] current = index -> Invalid
                    [] OTHER -> get[found.at + header[2], current + 1]
    IN get[1, 0]

(* cs40l26_owt_braking_time_get: wave by wave up to the one that is asked for. *)
OwtBrakingTimeGet(table, index) ==
    LET get[at \in 1 .. Len(table) + 4, current \in 0 .. index] ==
          IF at > Len(table) THEN 0
          ELSE LET header == table[at]
                   found == IF "md" \in header[3]
                            THEN BrakingTimeFind(table, index = current)[at + 1]
                            ELSE [at |-> IF "pwle" \in header[3] THEN at + 2 ELSE at + 1,
                                  period |-> 0]
               IN CASE "pwle" \notin header[3] /\ current = index -> Invalid
                    [] found.period > 0 -> found.period
                    [] current = index -> Invalid
                    [] OTHER -> get[found.at + header[2], current + 1]
    IN get[1, 0]

(* The time shown for every wave of the open wavetable is the one of its own
   metadata, whatever waves stand before it; a wave without one is refused. *)
BrakingShown ==
    \A n \in DOMAIN waves :
        OwtBrakingTimeGet(Table, n - 1) =
            (IF waves[n].pwle /\ waves[n].md = "svc" /\ waves[n].period > 0
             THEN waves[n].period ELSE Invalid)

--------------------------------------------------------------------------------
(* What loads firmware empties the table; one that is cut may leave it. *)
ConfigNext ==
    /\ \/ /\ Probe \/ Unbind \/ SwapFirmware \/ ResetWorker
          /\ waves' = <<>> \/ (~configured' /\ waves' = waves)
       \/ (Suspend \/ Resume \/ SwapWavetable) /\ UNCHANGED waves
    /\ UNCHANGED sel

AttributesNext ==
    \/ ConfigNext
    \/ AttributeAccess \/ PmTimeoutMs \/ CompEnabled
    \/ FwCtrlSelect \/ FwCtrlVal
    \/ ChangeTable

AttributesSpec == AttributesInit /\ [][AttributesNext]_all_vars
================================================================================
