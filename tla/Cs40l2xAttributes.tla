-------------------------- MODULE Cs40l2xAttributes --------------------------
(***************************************************************************)
(* The attributes of the CS40L25 that set a word, or a field of a word, of *)
(* the DSP: what each accepts, which are kept for a recovery, and where    *)
(* two of them share a word; the table of the resonances measured for      *)
(* single waveforms; and the counts of hardware errors.  Cs40l2xSettings   *)
(* has the cache itself, its size and the firmwares' addresses.            *)
(***************************************************************************)
EXTENDS Integers, Sequences, FiniteSets

CONSTANTS
    Pairs,              \* the pairs of attributes that are exercised together
    F0Min, F0Max,       \* pdata f0_min and f0_max, 0 for none
    Gpios,              \* the buttons, of 1 .. 4
    Entries,            \* CS40l2X_F0_MAX_ENTRIES
    Resonances,         \* values for the table
    ErrorMax            \* CS40L2X_HW_ERR_COUNT_MAX

VARIABLES
    pair,               \* the attributes exercised
    memory,             \* chip: words of the DSP, by field
    dsp_cache,          \* words kept for a recovery
    lost,               \* the chip has lost its state
    blind,              \* a shared word was changed while its state was lost
    wanted,             \* what was stored and is to be in force, by attribute
    dynamic_f0,         \* entries the driver knows: index and f0, or None
    f0_table,           \* chip: DYN_F0_TABLE
    unread,             \* the DSP has changed it since the driver read it
    apart,           \* it was emptied by a load, which the driver does not note
    latched,            \* chip: a hardware error stands, and the driver has seen it
    hw_err_count,
    stuck               \* a release failed

attr_vars == <<pair, memory, dsp_cache, lost, blind, wanted>>
f0_vars == <<dynamic_f0, f0_table, unread, apart>>
error_vars == <<latched, hw_err_count, stuck>>
vars == <<attr_vars, f0_vars, error_vars>>

None == -1
DigScaleMax == 816
TimeoutMax == 8388607

(* An attribute is a field of a word, with the ranges it accepts, and whether it is
   kept for recoveries.  A flag takes every value, and stands for 0 or 1. *)
Attr(word, field, ranges, kept) ==
    [word |-> word, field |-> field, ranges |-> ranges, flag |-> FALSE, kept |-> kept]
Word(word, least, most) == Attr(word, "all", {<<least, most>>}, TRUE)
Raw(word, most) == Attr(word, "all", {<<0, most>>}, FALSE)
Flag(word) == [Word(word, 0, 2) EXCEPT !.flag = TRUE]

HiberTimeout == Word("FALSEI2CTIMEOUT", 10, 500)
Gpio1Enable == Flag("GPIO_ENABLE")
Gpio1FallTimeout == Word("PRESS_RELEASE_TIMEOUT", 0, TimeoutMax)
StandbyTimeout == Word("EVENT_TIMEOUT", 0, TimeoutMax)
F0Stored == Word("F0_STORED", F0Min, IF F0Max > 0 THEN F0Max ELSE TimeoutMax)
F0Offset == Attr("F0_OFFSET", "all", {<<0, 1638400>>, <<15138816, 16777215>>}, TRUE)
RedcStored == Word("REDC_STORED", 0, TimeoutMax)
QStored == Word("Q_STORED", 0, TimeoutMax)
Gpio1DigScale == Attr("GAIN_CONTROL", "gpio", {<<0, DigScaleMax>>}, TRUE)
CpDigScale == Attr("GAIN_CONTROL", "trig", {<<0, DigScaleMax>>}, TRUE)
ExcEnable == Flag("EX_PROTECT_ENABLED")
ImonOffsEnable == Flag("VMON_IMON_OFFSET_ENABLE")
ClabEnable == Flag("CLAB_ENABLED")
ClabPeak == Word("PEAK_AMPLITUDE_CONTROL", 0, 4194304)
ParEnable == Flag("PWLE_REGULATION_ENABLED")
ParGainComp == Flag("PCM_GAIN_COMPENSATION_ENABLED")
BemfRecEn == Raw("MEASURE_BEMF_ONLY", 1)
BemfShift == Raw("BEMF_SHIFT", TimeoutMax)
MaxBackEmf == Raw("MAXBACKEMF", TimeoutMax)
PwleRampDown == Raw("RAMPDOWN_COEFF", TimeoutMax)

(* The gains of a button's edges, which are the fields of one word; the polarity of
   the button says which is which. *)
GpioGain == <<"GPIO1_GAIN", "GPIO2_GAIN", "GPIO3_GAIN", "GPIO4_GAIN">>
RiseDigScale(gpio) == Attr(GpioGain[gpio], "rise", {<<0, DigScaleMax>>}, TRUE)
FallDigScale(gpio) == Attr(GpioGain[gpio], "fall", {<<0, DigScaleMax>>}, TRUE)

Attributes ==
    {HiberTimeout, Gpio1Enable, Gpio1FallTimeout, StandbyTimeout, F0Stored, F0Offset, RedcStored,
     QStored, Gpio1DigScale, CpDigScale, ExcEnable, ImonOffsEnable, ClabEnable, ClabPeak,
     ParEnable, ParGainComp, BemfRecEn, BemfShift, MaxBackEmf, PwleRampDown}
    \cup {RiseDigScale(g) : g \in Gpios} \cup {FallDigScale(g) : g \in Gpios}

Shared(a) == {b \in Attributes : b.word = a.word /\ b # a} # {}

AttributesAssumption ==
    /\ \A p \in Pairs : p \subseteq Attributes
    /\ F0Min \in Nat /\ F0Max \in Nat /\ Gpios \subseteq 1 .. 4
    /\ Entries \in Nat \ {0} /\ Resonances \subseteq Nat /\ ErrorMax \in Nat

Accepts(a, v) == \E r \in a.ranges : v \in r[1] .. r[2]

(* Both sides of every limit *)
Tried(a) == (UNION {{r[1] - 1, r[1], r[2], r[2] + 1} : r \in a.ranges}) \cap Nat

(* A word as the firmware has it after its load *)
FieldsOf(word) == {a.field : a \in {b \in Attributes : b.word = word}}
Words == {a.word : a \in UNION Pairs} \cup {ImonOffsEnable.word}
Loaded == [w \in Words |-> [f \in FieldsOf(w) |-> 0]]

Slot == 1 .. Entries
Empty == [i \in Slot |-> [index |-> None, f0 |-> 0]]

TypeOK ==
    /\ pair \in Pairs /\ lost \in BOOLEAN /\ blind \in BOOLEAN
    /\ \A w \in Words : memory[w] \in [FieldsOf(w) -> Nat]
    /\ \A w \in DOMAIN dsp_cache : dsp_cache[w] \in [FieldsOf(w) -> Nat]
    /\ wanted \in [pair -> Nat \cup {None}]
    /\ dynamic_f0 \in [Slot -> [index : Slot \cup {None}, f0 : Resonances \cup {0}]]
    /\ f0_table \in [Slot -> [index : Slot \cup {None}, f0 : Resonances \cup {0}]]
    /\ unread \in BOOLEAN /\ apart \in BOOLEAN
    /\ latched \in {"no", "new", "seen"} /\ hw_err_count \in 0 .. ErrorMax + 1 /\ stuck \in BOOLEAN

Init ==
    /\ pair \in Pairs /\ memory = Loaded /\ dsp_cache = [w \in {} |-> 0]
    /\ lost = FALSE /\ blind = FALSE /\ wanted = [a \in pair |-> None]
    /\ dynamic_f0 = Empty /\ f0_table = Empty /\ unread = FALSE /\ apart = FALSE
    /\ latched = "no" /\ hw_err_count = 0 /\ stuck = FALSE

--------------------------------------------------------------------------------
(* MUTANT of Changed: the neighbouring field is lost. *)
ChangedWhole(a, v) == [f \in FieldsOf(a.word) |-> v]

(* A store reads the word, changes its field, writes it and caches it. *)
Changed(a, v) == [memory[a.word] EXCEPT ![a.field] = v]

Standing(a, v) == IF a.flag THEN (IF v > 0 THEN 1 ELSE 0) ELSE v

(* cs40l2x_imon_offs_sync, whose write is not cached *)
ImonSynced(m, clab) ==
    [m EXCEPT ![ImonOffsEnable.word] = [all |-> clab]]

(* cs40l2x_dsp_cache: a word that is there is replaced, another added. *)
Cached(w, word) ==
    [u \in DOMAIN dsp_cache \cup {w} |-> IF u = w THEN word ELSE dsp_cache[u]]

Store(a, v) ==
    /\ Accepts(a, v) /\ a \in pair
    /\ LET word == Changed(a, Standing(a, v))
           m == [memory EXCEPT ![a.word] = word]
       IN  /\ memory' = IF a = ClabEnable THEN ImonSynced(m, word.all) ELSE m
           /\ dsp_cache' = IF a.kept THEN Cached(a.word, word) ELSE dsp_cache
    /\ wanted' = [b \in pair |->
                    CASE b = a -> Standing(a, v)
                      [] a = ClabEnable /\ b = ImonOffsEnable -> None
                      [] OTHER -> wanted[b]]
    /\ blind' = (blind \/ (lost /\ Shared(a)))
    /\ UNCHANGED <<pair, lost, f0_vars, error_vars>>

(* The chip loses its state, and its amplifier's firmware with it. *)
Lose ==
    /\ ~lost /\ lost' = TRUE
    /\ memory' = Loaded
    /\ f0_table' = Empty /\ apart' = TRUE
    /\ UNCHANGED <<pair, dsp_cache, blind, wanted, dynamic_f0, unread, error_vars>>

(* MUTANT of Replayed: the cache is forgotten. *)
ReplayedNot == Loaded

Replayed == [w \in Words |-> IF w \in DOMAIN dsp_cache THEN dsp_cache[w] ELSE Loaded[w]]

(* cs40l2x_reset_recovery *)
Recover ==
    /\ lost /\ lost' = FALSE
    /\ memory' = Replayed
    /\ wanted' = [a \in pair |-> IF a.kept THEN wanted[a] ELSE None]
    /\ UNCHANGED <<pair, dsp_cache, blind, f0_vars, error_vars>>

(* cs40l2x_fw_swap_store: another firmware starts from its own defaults. *)
FwSwap ==
    /\ ~lost
    /\ memory' = Loaded /\ dsp_cache' = [w \in {} |-> 0]
    /\ wanted' = [a \in pair |-> None] /\ blind' = FALSE
    /\ f0_table' = Empty /\ apart' = TRUE
    /\ UNCHANGED <<pair, lost, dynamic_f0, unread, error_vars>>

--------------------------------------------------------------------------------
(* The table of resonances: cs40l2x_dyn_f0_index_store selects "index", and
   cs40l2x_dyn_f0_val_store writes the entry of it. *)
Changes(table, i, index, f0) == [table EXCEPT ![i] = [index |-> index, f0 |-> f0]]

With(table, index) == {i \in Slot : table[i].index = index}
First(slots) == CHOOSE i \in slots : \A j \in slots : i <= j

(* MUTANT of Place: an entry is always a new one. *)
PlaceNew(index) == With(dynamic_f0, None)

(* Where an entry goes: to the one with its index, or the first that is free; a full
   table refuses it. *)
Place(index) ==
    IF With(dynamic_f0, index) # {} THEN With(dynamic_f0, index) ELSE With(dynamic_f0, None)

DynF0ValStore(index, f0) ==
    /\ Place(index) # {}
    /\ LET i == First(Place(index))
       IN  /\ dynamic_f0' = Changes(dynamic_f0, i, index, f0)
           /\ f0_table' = Changes(f0_table, i, index, f0)
    /\ apart' = (apart \/ unread)
    /\ UNCHANGED <<attr_vars, unread, error_vars>>

(* The DSP measures the resonance for a waveform. *)
DspMeasures(index, f0) ==
    LET slots == IF With(f0_table, index) # {} THEN With(f0_table, index)
                 ELSE With(f0_table, None)
    IN  /\ ~lost /\ slots # {}
        /\ f0_table' = Changes(f0_table, First(slots), index, f0)
        /\ unread' = TRUE
        /\ UNCHANGED <<attr_vars, dynamic_f0, apart, error_vars>>

(* cs40l2x_read_dyn_f0_table closes the gaps; entries it had beyond those stay. *)
Filled == {i \in Slot : f0_table[i].index # None}
Nth(n) == CHOOSE i \in Filled : Cardinality({j \in Filled : j <= i}) = n

ReadDynF0Table ==
    /\ dynamic_f0' = [n \in Slot |-> IF n <= Cardinality(Filled) THEN f0_table[Nth(n)]
                                     ELSE dynamic_f0[n]]
    /\ unread' = FALSE
    /\ UNCHANGED <<attr_vars, f0_table, apart, error_vars>>

--------------------------------------------------------------------------------
(* Hardware errors of one kind. *)

HwErrOccurs ==
    /\ latched = "no" /\ latched' = "new"
    /\ UNCHANGED <<attr_vars, f0_vars, hw_err_count, stuck>>

Exhausted == hw_err_count > ErrorMax

(* cs40l2x_hw_err_rls: it releases the error, or a write fails. *)
HwErrRls(ok) ==
    /\ latched' = IF ok THEN "no" ELSE "seen"
    /\ stuck' = ~ok

(* cs40l2x_hw_err_chk: an error is released, until so many have been. *)
HwErrChk(ok) ==
    /\ latched = "new"
    /\ hw_err_count' = hw_err_count + 1
    /\ IF hw_err_count >= ErrorMax THEN latched' = "seen" /\ UNCHANGED stuck ELSE HwErrRls(ok)
    /\ UNCHANGED <<attr_vars, f0_vars>>

(* cs40l2x_hw_err_count_store *)
HwErrCountStore(ok) ==
    /\ IF Exhausted THEN HwErrRls(ok) ELSE UNCHANGED <<latched, stuck>>
    /\ hw_err_count' = IF Exhausted /\ ~ok THEN hw_err_count ELSE 0
    /\ UNCHANGED <<attr_vars, f0_vars>>

(* MUTANT of Forgotten: one at a time. *)
ForgottenLess == hw_err_count - 1

(* Errors that were not given up on *)
Forgotten == IF Exhausted THEN hw_err_count ELSE 0

(* cs40l2x_vibe_start_worker *)
StartForgets ==
    /\ hw_err_count' = Forgotten
    /\ UNCHANGED <<attr_vars, f0_vars, latched, stuck>>

(* The table and the errors have no word in common with the attributes, and are
   exercised without them. *)
TableOrErrors ==
    \/ \E i \in Slot, f0 \in Resonances : DynF0ValStore(i, f0) \/ DspMeasures(i, f0)
    \/ ReadDynF0Table
    \/ HwErrOccurs \/ StartForgets
    \/ \E ok \in BOOLEAN : HwErrChk(ok) \/ HwErrCountStore(ok)

Next ==
    \/ \E a \in pair : \E v \in Tried(a) : Store(a, v)
    \/ Lose \/ Recover \/ FwSwap
    \/ pair = {} /\ TableOrErrors

Spec == Init /\ [][Next]_vars

--------------------------------------------------------------------------------
(* What was stored last is in force, whatever was stored beside it, in its own word or
   in the same, and whatever state the chip lost and was given back; but attributes
   that are not kept are the firmware's after that, the offset of the current, which
   follows the attribute clab_enable, is no longer its own, and a shared word that
   is changed while the chip's state is lost loses its other field. *)
InForce ==
    (~lost /\ ~blind) =>
        \A a \in pair : wanted[a] # None => memory[a.word][a.field] = wanted[a]

(* The resonances that are shown are those the DSP goes by, one for each index, as
   long as the driver has read what the DSP measured and no firmware was loaded. *)
ResonancesShown ==
    (~unread /\ ~apart) =>
        \A index \in Slot :
            /\ Cardinality(With(dynamic_f0, index)) <= 1
            /\ {dynamic_f0[i] : i \in With(dynamic_f0, index)} =
                   {f0_table[i] : i \in With(f0_table, index)}

(* An error that was left standing is one that could not be released, or can be by
   writing to hw_err_count: no later playback has forgotten it. *)
GivenUpShown == latched = "seen" /\ ~stuck => Exhausted
================================================================================
