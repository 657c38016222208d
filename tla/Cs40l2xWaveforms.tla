--------------------------- MODULE Cs40l2xWaveforms ---------------------------
(***************************************************************************)
(* The open wavetable of the CS40L25: waveforms that user space composes   *)
(* and saves at run time.  When a wavetable is loaded the driver appends   *)
(* three empty slots to it, one for the control port and two for the edges *)
(* of the first button.  Saved waveforms are kept in the driver and get    *)
(* virtual indices, which begin where the table's own waveforms end; to    *)
(* play one, it is written to a slot and the slot's index is used.         *)
(***************************************************************************)
EXTENDS Integers, Sequences

CONSTANTS
    Contents,           \* composites user space may enter
    TooLong,            \* those that do not fit in a slot
    Tables,             \* sizes in words of a wavetable's waveforms
    Space,              \* words the firmware has for a wavetable
    Want, Step, Least,  \* words asked for the slots, less at each attempt, at least
    Edges,              \* of the button, of {"rise", "fall"}, those that are used
    MaxVirtual          \* WT_MAX_VIRT_WAVS

VARIABLES
    table,              \* the loaded wavetable file, a member of Tables
    fw,                 \* the firmware that runs, "R" or "CAL"
    open_wt_enable, cal_disabled_owt, virtual_bin,
    num_waves,          \* as the driver last read it
    virtual,            \* virtual_waveform_head, newest first
    queue,              \* the composite entered and not yet saved (queue_stored)
    ovwr_wav,           \* what the overwriting stores write
    loaded,             \* loaded_virtual_index, loaded_gpio_index
    cp_trigger_index,
    gpio_reg,           \* chip: INDEXBUTTONPRESS1 and INDEXBUTTONRELEASE1
    slot,               \* chip: the contents of the slots
    asked,              \* user space: what it wants of each slot
    erased,             \* the slots whose contents a load has erased
    moved               \* virtual indices have been given for another wavetable

vars == <<table, fw, open_wt_enable, cal_disabled_owt, virtual_bin, num_waves, virtual,
          queue, ovwr_wav, loaded, cp_trigger_index, gpio_reg, slot, asked, erased,
          moved>>

None == "none"
Slots == {"rise", "fall", "comp"}
NumSlots == 3
GP1F_OVWR == 65527
GP1R_OVWR == 65528
OVWR_SAVE == 65529
PBQ_SAVE == 65531
PEAK == 65533
DIAG == 65535
CLICK_MAX == 32767

(* A wavetable has at least the waveform of index 0 (CS40L2X_INDEX_VIBE), and no waveform
   has an index that stands for something else. *)
WaveformsAssumption ==
    /\ Edges \subseteq {"rise", "fall"}
    /\ TooLong \subseteq Contents /\ None \notin Contents
    /\ Tables \subseteq Seq(Nat \ {0}) /\ MaxVirtual \in Nat
    /\ \A t \in Tables : Len(t) # 0 /\ Len(t) + NumSlots + MaxVirtual <= CLICK_MAX
    /\ Space \in Nat /\ Want \in Nat /\ Step \in Nat \ {0} /\ Least \in Nat

--------------------------------------------------------------------------------
(* Layout, in words.  A block is the words of a wavetable: its header has three
   words for each waveform, then a terminator, then the data. *)

Entry == 3

(* The words of the first "n" waveforms *)
Words(sizes, n) ==
    LET words[i \in 0 .. Len(sizes)] == IF i = 0 THEN 0 ELSE words[i - 1] + sizes[i]
    IN  words[n]

(* A waveform's offset counts from the start of the header. *)
Offsets(sizes) ==
    [i \in 1 .. Len(sizes) |-> Entry * Len(sizes) + 1 + Words(sizes, i - 1)]

BlockSize(sizes) == Entry * Len(sizes) + 1 + Words(sizes, Len(sizes))

(* What cs40l2x_add_wt_slots may ask for; nothing when nothing fits. *)
AttemptsIn(room) == {n \in Least .. Want : (Want - n) % Step = 0 /\ n <= room}
Room == Space - BlockSize(table)
FitsXm == AttemptsIn(Room) # {}
Granted(room) == CHOOSE n \in AttemptsIn(room) : \A m \in AttemptsIn(room) : m <= n

(* The words of one slot: what is granted, less the three entries, in three. *)
SlotSize(granted) == (granted - Entry * NumSlots) \div NumSlots

(* cs40l2x_update_wt_header_offsets: the entries appended to the header move what
   is behind it. *)
Moved(offsets) == [i \in DOMAIN offsets |-> offsets[i] + Entry * NumSlots]

(* MUTANT of SlotOffset: as if the header had not grown. *)
SlotOffsetUnmoved(sizes, size, i) ==
    LET n == Len(sizes) IN Offsets(sizes)[n] + sizes[n] + (i - 1) * size

(* cs40l2x_insert_comp_wt_header: the slots follow the last waveform. *)
SlotOffset(sizes, size, i) ==
    LET n == Len(sizes)
    IN  Offsets(sizes)[n] + sizes[n] + Entry * NumSlots + (i - 1) * size

(* cs40l2x_copy_waveform_data: the data begins behind the terminator again. *)
DataAt(sizes) == [i \in DOMAIN sizes |->
    LET from == Offsets(sizes)[i] + Entry * NumSlots IN from .. from + sizes[i] - 1]

SlotAt(sizes, granted) == [i \in 1 .. NumSlots |->
    LET from == SlotOffset(sizes, SlotSize(granted), i)
    IN  from .. from + SlotSize(granted) - 1]

--------------------------------------------------------------------------------
(* Indices. *)

Own(t) == Len(t)                                \* waveforms of the table's own
Waves(bin, t) == IF bin THEN Own(t) + NumSlots ELSE Own(t)

(* virtual_slot_index and the two before it *)
SlotIndex(s) ==
    Own(table) + (CASE s = "rise" -> 0 [] s = "fall" -> 1 [] OTHER -> 2)

Indices == 0 .. (Len(table) + NumSlots + MaxVirtual)

TypeOK ==
    /\ table \in Tables /\ fw \in {"R", "CAL"}
    /\ open_wt_enable \in BOOLEAN /\ cal_disabled_owt \in BOOLEAN /\ virtual_bin \in BOOLEAN
    /\ num_waves \in Nat
    /\ virtual \in Seq([index : Nat, content : Contents]) /\ Len(virtual) <= MaxVirtual
    /\ queue \in Contents \cup {None}
    /\ ovwr_wav \in Contents \cup {None}
    /\ loaded \in [Slots -> Nat]
    /\ cp_trigger_index \in Nat /\ gpio_reg \in [Edges -> Nat]
    /\ slot \in [Slots -> Contents \cup {None}] /\ asked \in [Slots -> Contents \cup {None}]
    /\ erased \subseteq Slots /\ moved \in BOOLEAN

Init ==
    /\ table \in Tables /\ fw = "R"
    /\ open_wt_enable \in BOOLEAN /\ cal_disabled_owt = FALSE
    /\ virtual_bin = open_wt_enable /\ num_waves = Waves(virtual_bin, table)
    /\ virtual = <<>> /\ queue = None /\ ovwr_wav = None
    /\ loaded = [s \in Slots |-> 0]
    /\ cp_trigger_index = 0 /\ gpio_reg = [e \in Edges |-> 0]
    /\ slot = [s \in Slots |-> None] /\ asked = slot
    /\ erased = {} /\ moved = FALSE

bin_vars == <<table, fw, open_wt_enable, cal_disabled_owt, virtual_bin, num_waves, moved>>
store_vars == <<virtual, queue, ovwr_wav>>
slot_vars == <<loaded, slot, erased>>

(* cs40l2x_cp_trigger_queue_store, a string that is accepted *)
EnterQueue(c) ==
    /\ queue' = c
    /\ UNCHANGED <<bin_vars, virtual, ovwr_wav, slot_vars,
                   cp_trigger_index, gpio_reg, asked>>

CanSave == virtual_bin /\ queue # None

(* PBQ_SAVE: cs40l2x_convert_and_save_comp_data and
   cs40l2x_add_waveform_to_virtual_list; a composite that is too long, or one too
   many, is refused and has to be entered again. *)
Save ==
    /\ CanSave
    /\ queue' = None
    /\ IF queue \in TooLong \/ Len(virtual) = MaxVirtual
       THEN UNCHANGED <<virtual, cp_trigger_index>>
       ELSE /\ virtual' = <<[index |-> num_waves - NumSlots + Len(virtual),
                             content |-> queue]>> \o virtual
            /\ cp_trigger_index' = PBQ_SAVE
    /\ UNCHANGED <<bin_vars, ovwr_wav, slot_vars, gpio_reg, asked>>

(* MUTANT of Writes: the waveform of a rising edge goes to the other slot. *)
WritesFall(s, index, content) ==
    LET t == IF s = "rise" THEN "fall" ELSE s
    IN  /\ slot' = [slot EXCEPT ![t] = content]
        /\ loaded' = [loaded EXCEPT ![s] = index]
        /\ erased' = erased \ {t}

(* cs40l2x_write_virtual_waveform, to slot "s" *)
Writes(s, index, content) ==
    /\ slot' = [slot EXCEPT ![s] = content]
    /\ loaded' = [loaded EXCEPT ![s] = index]
    /\ erased' = erased \ {s}

(* The newest waveform with the index, as the list is searched; a waveform that is
   not found is not written, and nobody looks at the error. *)
Found(index) == {n \in DOMAIN virtual : virtual[n].index = index}
Newest(index) == virtual[CHOOSE n \in Found(index) : \A m \in Found(index) : n <= m].content

WritesVirtual(s, index) ==
    IF index = loaded[s] \/ Found(index) = {}
    THEN UNCHANGED slot_vars
    ELSE Writes(s, index, Newest(index))

(* OVWR_SAVE: to the control port's slot at once.  A composite that does not fit
   leaves ovwr_wav, which is written all the same, if it holds anything. *)
Converted == IF queue \in TooLong THEN ovwr_wav ELSE queue

Overwrite ==
    /\ CanSave
    /\ queue' = None /\ ovwr_wav' = Converted
    /\ IF Converted = None
       THEN UNCHANGED <<slot_vars, asked, cp_trigger_index>>
       ELSE /\ Writes("comp", OVWR_SAVE, Converted)
            /\ asked' = [asked EXCEPT !["comp"] = Converted]
            /\ cp_trigger_index' = SlotIndex("comp")
    /\ UNCHANGED <<bin_vars, virtual, gpio_reg>>

(* GP1R_OVWR and GP1F_OVWR: to an edge's slot, which the edge then uses. *)
OverwriteEdge(e) ==
    /\ CanSave
    /\ queue' = None
    /\ IF queue \in TooLong
       THEN UNCHANGED <<ovwr_wav, slot_vars, gpio_reg, cp_trigger_index,
                        asked>>
       ELSE LET index == IF e = "rise" THEN GP1R_OVWR ELSE GP1F_OVWR
            IN  /\ ovwr_wav' = queue
                /\ Writes(e, index, queue)
                /\ gpio_reg' = [gpio_reg EXCEPT ![e] = SlotIndex(e)]
                /\ cp_trigger_index' = index
                /\ asked' = [asked EXCEPT ![e] = queue]
    /\ UNCHANGED <<bin_vars, virtual>>

IsVirtual(i) ==
    /\ i >= num_waves - NumSlots /\ i < num_waves - NumSlots + Len(virtual)

(* What user space saved under an index; the oldest, which is last, has the least. *)
SavedAs(i) == virtual[Len(virtual) - (i - Own(table))].content

--------------------------------------------------------------------------------
(* Loads of firmware and of wavetables. *)

(* cs40l2x_coeff_file_parse adds slots to a table that is loaded while they are asked for. *)
VirtualBin(f, open) == open \/ (virtual_bin /\ f # "CAL")

(* cs40l2x_coeff_file_parse and cs40l2x_add_wt_slots *)
Load(f, t, open) ==
    /\ fw' = f /\ table' = t /\ open_wt_enable' = open
    /\ virtual_bin' = VirtualBin(f, open)
    /\ num_waves' = IF f = "CAL" THEN num_waves ELSE Waves(virtual_bin', t)
    /\ moved' = (moved \/ (Len(t) # Len(table) /\ virtual # <<>>))

Defaults == gpio_reg' = [e \in Edges |-> 0]

(* The slots come back empty. *)
Erases ==
    /\ slot' = [s \in Slots |-> None] /\ erased' = Slots
    /\ UNCHANGED loaded

(* Out of calibration, by cs40l2x_cp_trigger_index_impl: the slots come back, too. *)
Leaves ==
    IF fw = "CAL"
    THEN /\ Load("R", table, open_wt_enable \/ cal_disabled_owt) /\ Defaults
         /\ cal_disabled_owt' = FALSE
    ELSE UNCHANGED <<bin_vars, gpio_reg>>

(* cs40l2x_cp_trigger_index_impl with the index of a waveform: a virtual one is
   written to its slot unless it is there; in calibration before the swap erases it. *)
TriggerIndex(i) ==
    LET virt == virtual_bin /\ IsVirtual(i)
    IN  /\ (virtual_bin \/ i < num_waves) /\ (virtual_bin => i < num_waves - NumSlots + Len(virtual))
        /\ IF fw = "CAL"
           THEN Erases
           ELSE IF virt THEN WritesVirtual("comp", i) ELSE UNCHANGED slot_vars
        /\ Leaves
        /\ cp_trigger_index' = IF virt THEN SlotIndex("comp") ELSE i
        /\ asked' = IF virt /\ ~moved THEN [asked EXCEPT !["comp"] = SavedAs(i)] ELSE asked
        /\ UNCHANGED <<store_vars>>

(* ... with the index of a measurement *)
TriggerDiag ==
    /\ cp_trigger_index' = DIAG
    /\ IF fw = "CAL"
       THEN UNCHANGED <<bin_vars, gpio_reg, slot_vars>>
       ELSE /\ fw' = "CAL" /\ Erases /\ Defaults
            /\ open_wt_enable' = FALSE /\ virtual_bin' = (virtual_bin /\ ~open_wt_enable)
            /\ cal_disabled_owt' = (cal_disabled_owt \/ open_wt_enable)
            /\ UNCHANGED <<table, num_waves, moved>>
    /\ UNCHANGED <<store_vars, asked>>

TriggerPeak ==
    /\ cp_trigger_index' = PEAK
    /\ IF fw = "CAL" THEN Erases ELSE UNCHANGED slot_vars
    /\ Leaves
    /\ UNCHANGED <<store_vars, asked>>

(* MUTANT of Rewritten: the slot is left empty. *)
RewrittenNot == FALSE

(* cs40l2x_fw_swap_store puts back the waveform that is triggered. *)
Rewritten ==
    cp_trigger_index = SlotIndex("comp") /\ Found(loaded["comp"]) # {}

(* cs40l2x_fw_swap_store to another firmware; it does not enable the slots again. *)
FwSwap ==
    /\ Load("R", table, open_wt_enable) /\ Defaults
    /\ UNCHANGED cal_disabled_owt
    /\ LET s == "comp"
       IN  /\ slot' = [t \in Slots |-> IF t = s /\ Rewritten /\ virtual_bin'
                                       THEN Newest(loaded[s]) ELSE None]
           /\ erased' = IF loaded[s] # OVWR_SAVE /\ cp_trigger_index = SlotIndex(s)
                        THEN Slots \ {s} ELSE Slots
    /\ UNCHANGED <<store_vars, loaded, cp_trigger_index, asked>>

(* cs40l2x_wt_file_store: cs40l2x_wavetable_swap and cs40l2x_wavetable_sync *)
WtFile(t) ==
    /\ fw # "CAL"
    /\ Load("R", t, open_wt_enable)
    /\ Erases
    /\ UNCHANGED <<cal_disabled_owt, store_vars, cp_trigger_index, gpio_reg,
                   asked>>

(* cs40l2x_reset_recovery: the buttons' indices are cached, their waveforms not. *)
Recover ==
    /\ Load(fw, table, open_wt_enable) /\ Erases
    /\ UNCHANGED <<cal_disabled_owt, store_vars, cp_trigger_index, gpio_reg,
                   asked>>

--------------------------------------------------------------------------------
(* cs40l2x_gpio_edge_index_set, called by cs40l2x_gpio1_rise_index_store and
   cs40l2x_gpio1_fall_index_store, which note the index to be shown before it is refused.
   A table of fewer than three waveforms wraps the limit below zero. *)
GpioIndex(e, i) ==
    LET virt == virtual_bin /\ IsVirtual(i)
        ok == /\ fw # "CAL"
              /\ IF virtual_bin THEN i < num_waves - NumSlots + Len(virtual)
                 ELSE i <= num_waves - NumSlots \/ num_waves < NumSlots
    IN  /\ IF virt THEN WritesVirtual(e, i) ELSE UNCHANGED slot_vars
        /\ gpio_reg' = IF ~ok THEN gpio_reg
                       ELSE [gpio_reg EXCEPT ![e] = IF virt THEN SlotIndex(e) ELSE i]
        /\ asked' = IF ok /\ virt /\ ~moved THEN [asked EXCEPT ![e] = SavedAs(i)] ELSE asked
        /\ UNCHANGED <<bin_vars, store_vars, cp_trigger_index>>

Next ==
    \/ \E c \in Contents : EnterQueue(c)
    \/ Save \/ Overwrite
    \/ \E e \in Edges : OverwriteEdge(e)
    \/ \E i \in Indices : TriggerIndex(i)
    \/ TriggerDiag \/ TriggerPeak \/ FwSwap \/ Recover
    \/ \E t \in Tables : WtFile(t)
    \/ \E e \in Edges, i \in Indices : GpioIndex(e, i)

Spec == Init /\ [][Next]_vars

--------------------------------------------------------------------------------
(* What index a slot is used by *)
Uses(s) ==
    IF s = "comp" THEN cp_trigger_index ELSE IF s \in Edges THEN gpio_reg[s] ELSE 0

(* A slot that is triggered holds the waveform that user space saved under the index
   it gave, or entered last, whatever was loaded into the slots in between
   (cs40l2x_cp_trigger_index_impl, cs40l2x_gpio_edge_index_set,
   cs40l2x_write_virtual_waveform); but a load empties all but the slot of a virtual
   waveform that is triggered when cs40l2x_fw_swap_store loads a firmware, and the
   driver takes them to be loaded still.  "Entered last" is of composites that fit. *)
PlaysSaved ==
    (virtual_bin /\ ~moved) =>
        \A s \in Slots \ erased : Uses(s) = SlotIndex(s) => slot[s] = asked[s]

(* Appending slots to a wavetable leaves every waveform where its entry says, and
   slots lie beside each other behind them, within what the firmware has room for. *)
SlotsApart ==
    FitsXm =>
        LET granted == Granted(Room)
            data == DataAt(table)
            slots == SlotAt(table, granted)
            end == Entry * (Len(table) + NumSlots) + 1
        IN  /\ \A i \in 1 .. Len(table) :
                 data[i] = {Moved(Offsets(table))[i] + k : k \in 0 .. table[i] - 1}
            /\ \A i \in 1 .. NumSlots :
                 /\ slots[i] \subseteq end .. Space - 1
                 /\ \A j \in 1 .. Len(table) : slots[i] \cap data[j] = {}
                 /\ \A j \in (1 .. NumSlots) \ {i} : slots[i] \cap slots[j] = {}
================================================================================
