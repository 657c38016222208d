--------------------------- MODULE Cs40l2xSettings ---------------------------
(***************************************************************************)
(* What user space has set of a CS40L25, and what of it the chip has after *)
(* its firmware was swapped or its state was lost.  Most attributes write  *)
(* a register of the firmware and a copy to dsp_cache, which recovery      *)
(* replays; some only the register; compensation is kept by the driver and *)
(* applied with every firmware; the amplifier's volume is in the write     *)
(* sequence, which every firmware but the calibration's executes.  The     *)
(* same register is at another address in other firmware.  All of it       *)
(* happens under the driver's lock, so that every operation is one step.   *)
(***************************************************************************)
EXTENDS Integers, Sequences

CONSTANTS
    Cached, Uncached,   \* attributes
    Values, Default,    \* of attributes and of the volume; Default after a reset
    Remaps,             \* firmware for effects
    Addresses, Address, \* of an attribute in a firmware; NoAddress if it has none
    CacheMax,           \* CS40L2X_DSP_CACHE_MAX
    WseqMax,            \* CS40L2X_WSEQ_LENGTH_MAX
    amp_gnd_stby        \* the clamp of firmware that has none of its own

Comp == "comp_enable"
Attributes == Cached \cup Uncached \cup {Comp}
Firmwares == Remaps \cup {"CAL"}
NoAddress == "None"

SettingsAssumption ==
    /\ Default \in Values
    /\ "CAL" \notin Remaps /\ Remaps # {}
    /\ Comp \notin Cached \cup Uncached
    /\ NoAddress \notin Addresses
    /\ Address \in [Firmwares -> [Attributes -> Addresses \cup {NoAddress}]]
    \* attributes that share a register are in Cs40l2xAttributes
    /\ \A f \in Firmwares : \A a, b \in Attributes :
         Address[f][a] = Address[f][b] /\ a # b => Address[f][a] = NoAddress
    /\ {CacheMax, WseqMax} \subseteq Nat \ {0, 1}
    /\ amp_gnd_stby \in BOOLEAN

VARIABLES
    fw,                 \* fw_desc
    fw_id_remap,        \* the firmware to return to from calibration
    dsp_cache,          \* <<address, value>>, in the order first stored
    comp_enable,
    wseq_table,         \* <<register, value>>
    chip,               \* OK, LOST its state, in reset, or DOWN with no firmware running
    memory,             \* chip: the firmware's registers by address
    volume,             \* chip: AMP_DIG_VOL_CTRL
    wanted,             \* history: what user space last stored for this firmware
    wanted_volume,
    foreign,            \* history: dsp_cache is of other firmware, or lacks something
    overwritten         \* history: the sequence has a current for the volume

driver == <<fw, fw_id_remap, dsp_cache, comp_enable, wseq_table>>
device == <<chip, memory, volume>>
wants == <<wanted, wanted_volume, foreign, overwritten>>
vars == <<driver, device, wants>>

Blank == [a \in Addresses |-> Default]
Unset == [a \in Attributes |-> Default]

Init ==
    /\ fw \in Remaps /\ fw_id_remap = fw
    /\ dsp_cache = <<>> /\ comp_enable = Default
    /\ wseq_table = <<<<"VOLUME", Default>>>> \o (IF amp_gnd_stby THEN <<<<"CLAMP", Default>>>> ELSE <<>>)
    /\ chip = "OK" /\ memory = Blank /\ volume = Default
    /\ wanted = Unset /\ wanted_volume = Default
    /\ foreign = FALSE /\ overwritten = FALSE

------------------------------------------------------------------------------
(* Helpers of the driver. *)

First(s, key) == {i \in 1..Len(s) : s[i][1] = key /\ \A j \in 1..(i - 1) : s[j][1] # key}

(* cs40l2x_dsp_cache; what does not fit is refused. *)
CacheFull(reg) == First(dsp_cache, reg) = {} /\ Len(dsp_cache) = CacheMax
CacheWith(reg, val) ==
    IF CacheFull(reg) THEN dsp_cache
    ELSE IF First(dsp_cache, reg) = {} THEN Append(dsp_cache, <<reg, val>>)
    ELSE [dsp_cache EXCEPT ![CHOOSE i \in First(dsp_cache, reg) : TRUE] = <<reg, val>>]

(* cs40l2x_wseq_replace: the first entry of the register. *)
WseqReplace(reg, val) ==
    wseq_table' = [wseq_table EXCEPT ![CHOOSE i \in First(wseq_table, reg) : TRUE] = <<reg, val>>]

(* A table that is written out in order: of several entries of a register the last prevails. *)
Last(s, key) == {i \in 1..Len(s) : s[i][1] = key /\ \A j \in (i + 1)..Len(s) : s[j][1] # key}

WrittenOut(s, key, old) ==
    IF Last(s, key) = {} THEN old ELSE s[CHOOSE i \in Last(s, key) : TRUE][2]

Executed == WrittenOut(wseq_table, "VOLUME", volume)

(* MUTANT of Replayed: the entry cached last is left out. *)
ReplayedLess(m) ==
    [a \in Addresses |-> WrittenOut(SubSeq(dsp_cache', 1, Len(dsp_cache') - 1), a, m[a])]

Replayed(m) == [a \in Addresses |-> WrittenOut(dsp_cache', a, m[a])]

(* A freshly loaded firmware id: cs40l2x_dsp_post_config applies the compensation. *)
Loaded(id) ==
    IF id = "CAL" THEN Blank ELSE [Blank EXCEPT ![Address[id][Comp]] = comp_enable]

(* cs40l2x_firmware_swap. Before firmware for effects is started, cs40l2x_dsp_pre_config
   appends the clamp to the write sequence, and fails if that is full. *)
SwapFits(id) == id = "CAL" \/ ~amp_gnd_stby \/ Len(wseq_table) < WseqMax

SwapWseq(id) ==
    wseq_table' = IF id = "CAL" \/ ~amp_gnd_stby THEN wseq_table
                  ELSE Append(wseq_table, <<"CLAMP", Default>>)

SwapCache(id, kept) == dsp_cache' = IF id = "CAL" THEN <<>> ELSE kept

SwapFails(id) ==
    /\ ~SwapFits(id)
    /\ chip' = "DOWN" /\ fw' = id /\ memory' = Blank
    /\ UNCHANGED <<fw_id_remap, dsp_cache, comp_enable, wseq_table, volume, wants>>

(* From one running firmware to another. *)
Swap(id, kept) ==
    /\ chip = "OK" /\ fw # id /\ SwapFits(id)
    /\ fw' = id /\ SwapWseq(id) /\ SwapCache(id, kept)
    /\ memory' = Loaded(id)
    /\ wanted' = [Unset EXCEPT ![Comp] = comp_enable]
    /\ foreign' = (dsp_cache' # <<>>)
    /\ UNCHANGED <<comp_enable, chip, volume, wanted_volume, overwritten>>

------------------------------------------------------------------------------
(* User space. *)

(* The attributes' store functions, which differ in the register and in whether they
   call cs40l2x_dsp_cache. A value that does not fit in the cache is in force, though
   the store fails. *)
Reg(a) == Address[fw][a]

Store(a, v) ==
    /\ chip \in {"OK", "LOST"} /\ Reg(a) # NoAddress
    /\ memory' = [memory EXCEPT ![Reg(a)] = v]
    /\ dsp_cache' = IF a \in Cached THEN CacheWith(Reg(a), v) ELSE dsp_cache
    /\ wanted' = IF a \in Cached /\ CacheFull(Reg(a)) THEN wanted ELSE [wanted EXCEPT ![a] = v]
    /\ foreign' = (foreign \/ (a \in Cached /\ CacheFull(Reg(a))))
    /\ UNCHANGED <<fw, fw_id_remap, comp_enable, wseq_table, chip, volume, wanted_volume,
                   overwritten>>

(* comp_enable_store and its like: the state is kept even where the firmware has no
   compensation. *)
StoreComp(v) ==
    /\ comp_enable' = v
    /\ IF chip \in {"OK", "LOST"} /\ Reg(Comp) # NoAddress
       THEN memory' = [memory EXCEPT ![Reg(Comp)] = v] ELSE UNCHANGED memory
    /\ wanted' = [wanted EXCEPT ![Comp] = v]
    /\ UNCHANGED <<fw, fw_id_remap, dsp_cache, wseq_table, chip, volume,
                   wanted_volume, foreign, overwritten>>

(* dig_scale_store. *)
StoreVolume(v) ==
    /\ chip \in {"OK", "LOST"}
    /\ volume' = v /\ WseqReplace("VOLUME", v)
    /\ wanted_volume' = v /\ overwritten' = FALSE
    /\ UNCHANGED <<fw, fw_id_remap, dsp_cache, comp_enable, chip, memory, wanted, foreign>>

(* boost_ipk_store: the current goes to its own register, and to the volume's place in
   the sequence. *)
StoreIpk(v) ==
    /\ chip \in {"OK", "LOST"}
    /\ WseqReplace("VOLUME", v) /\ overwritten' = TRUE
    /\ UNCHANGED <<fw, fw_id_remap, dsp_cache, comp_enable, device, wanted, wanted_volume, foreign>>

(* fw_swap_store. *)
FwSwapStore(id) ==
    /\ id \in Remaps /\ fw # id /\ chip = "OK"
    /\ \/ Swap(id, <<>>) /\ fw_id_remap' = id
       \/ SwapFails(id)

(* cp_trigger_index_store, to calibration firmware and back. *)
StoreIndex ==
    LET id == IF fw = "CAL" THEN fw_id_remap ELSE "CAL" IN
    /\ chip = "OK"
    /\ \/ Swap(id, dsp_cache) /\ UNCHANGED fw_id_remap
       \/ SwapFails(id)

(* Out of the boot ROM, from which the sequence is executed. *)
Boot(kept) ==
    /\ SwapFits(fw) /\ SwapWseq(fw) /\ SwapCache(fw, kept)
    /\ chip' = "OK" /\ volume' = Executed
    /\ UNCHANGED <<fw, fw_id_remap, comp_enable>>

(* hw_reset_store. *)
HwReset ==
    \/ /\ chip # "RESET" /\ chip' = "RESET"
       /\ memory' = Blank /\ volume' = Default
       /\ UNCHANGED <<driver, wants>>
    \/ /\ chip = "RESET"
       /\ \/ /\ Boot(<<>>) /\ memory' = Loaded(fw)
             /\ wanted' = [Unset EXCEPT ![Comp] = comp_enable]
             /\ UNCHANGED <<wanted_volume, foreign, overwritten>>
          \/ SwapFails(fw)

(* cs40l2x_reset_recovery, when the loss is noticed. *)
Recover ==
    /\ chip = "LOST"
    /\ \/ /\ Boot(dsp_cache)
          /\ memory' = Replayed(Loaded(fw))
          /\ UNCHANGED wants
       \/ SwapFails(fw)

(* The chip's supply drops out. *)
Lose ==
    /\ chip = "OK" /\ chip' = "LOST"
    /\ memory' = Blank /\ volume' = Default
    /\ UNCHANGED <<driver, wants>>

Next ==
    \/ \E a \in Cached \cup Uncached, v \in Values : Store(a, v)
    \/ \E v \in Values : StoreComp(v) \/ StoreVolume(v) \/ StoreIpk(v)
    \/ \E id \in Remaps : FwSwapStore(id)
    \/ StoreIndex \/ HwReset \/ Recover \/ Lose

Spec == Init /\ [][Next]_vars

------------------------------------------------------------------------------
(* Driver and chip are of their types; the tables keep to their sizes. *)
TypeOK ==
    /\ fw \in Firmwares /\ fw_id_remap \in Remaps
    /\ \A i \in 1..Len(dsp_cache) : dsp_cache[i] \in Addresses \X Values
    /\ Len(dsp_cache) <= CacheMax
    /\ comp_enable \in Values
    /\ \A i \in 1..Len(wseq_table) : wseq_table[i] \in {"VOLUME", "CLAMP"} \X Values
    /\ Len(wseq_table) <= WseqMax
    /\ chip \in {"OK", "LOST", "RESET", "DOWN"}
    /\ memory \in [Addresses -> Values] /\ volume \in Values
    /\ wanted \in [Attributes -> Values] /\ wanted_volume \in Values
    /\ {foreign, overwritten} \subseteq BOOLEAN

(* While the chip works, after whatever swaps, resets and recoveries, what was set for
   its firmware is in force, and not what was set for another. Not so for attributes
   that are not cached; in calibration firmware, whose load empties the cache that is
   about to be replayed; with the cache of calibration firmware, or a full one; and for
   the volume, when the boost current was stored in its place. *)
Restored ==
    chip = "OK" =>
        /\ (fw # "CAL" /\ ~foreign) =>
             \A a \in Cached \cup {Comp} : Reg(a) # NoAddress => memory[Reg(a)] = wanted[a]
        /\ ~overwritten => volume = wanted_volume
==============================================================================
