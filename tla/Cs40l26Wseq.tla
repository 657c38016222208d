----------------------------- MODULE Cs40l26Wseq -----------------------------
(***************************************************************************)
(* The write sequence of the CS40L26: a list of register writes in the     *)
(* chip's memory that it replays when it wakes up.  The driver keeps where *)
(* the list ends and how long it is, extends it, replaces writes in it, and *)
(* cuts it back to what the ROM put there before it loads other firmware.  *)
(* A call is one step, with the access that fails, if one does; the list's *)
(* writers hold the driver's lock or run before there is another.          *)
(***************************************************************************)
EXTENDS Integers, Sequences

CONSTANTS
    Data,               \* data of a register write
    MaxSize,            \* words of the chip's memory (max_size_bytes)
    Faults              \* bound: accesses that fail in a behaviour

WseqAssumption == MaxSize \in Nat /\ MaxSize >= 3 /\ Faults \in Nat /\ Data # {}

VARIABLES
    memory,             \* chip: the words of the sequence
    rom,                \* chip: whether the ROM's list has a write of its own
    params,             \* struct cs40l26_wseq_params
    failed,             \* accesses that failed
    intact,             \* no access failed since the list was last initialised
    wanted              \* the writes the driver asked for, in order

vars == <<memory, rom, params, failed, intact, wanted>>

(* An operation is named by its code and its register; which of its words a
   word is, is kept instead of its bits. *)
Full == <<"FULL", "BLOCK_ENABLES2">>
High == <<"H16", "IRQ1_MASK">>
Low == <<"L16", "IRQ1_MASK">>
TestKey == <<"L16", "TEST_KEY_CTRL">>
End == <<"END", "END">>
Empty == <<"FULL", "0">>
Keys == {Full, High, Low, TestKey}

(* cs40l26_clip_lvl_config and the errata append, all others replace. *)
Update(key) == key # TestKey

Width(key) == IF key[1] = "FULL" THEN 3 ELSE IF key[1] = "END" THEN 1 ELSE 2

Word(key, value, part) == [key |-> key, value |-> value, part |-> part]

(* cl_dsp_memchunk_write: the words of one operation *)
Words(key, value) == [i \in 1 .. Width(key) |-> Word(key, value, i)]

None == [rom |-> 0, term |-> 0, size |-> 0]

RomList == IF rom THEN Words(Low, CHOOSE v \in Data : TRUE) ELSE <<>>

(* The words w written to memory from offset at. *)
Put(mem, at, w) ==
    [i \in DOMAIN mem |-> IF i >= at /\ i < at + Len(w) THEN w[i - at + 1] ELSE mem[i]]

Terminator == <<Word(End, 0, 1)>>

Image == Put([i \in 0 .. MaxSize - 1 |-> Word(Empty, 0, 1)], 0, RomList \o Terminator)

(* The writes up to the first terminator, as the chip replays them. *)
Replayed(mem) ==
    LET from[p \in 0 .. MaxSize] ==
            IF p = MaxSize THEN <<"overrun">>
            ELSE LET w == mem[p] IN
                 IF w.key = End THEN <<>>
                 ELSE IF w.part # 1 \/ p + Width(w.key) > MaxSize THEN <<"garbage">>
                 ELSE <<<<w.key, mem[p + Width(w.key) - 1].value>>>> \o from[p + Width(w.key)]
    IN from[0]

Ready == params.size # 0

TypeOK ==
    /\ \A i \in 0 .. MaxSize - 1 :
         memory[i].key \in Keys \cup {End, Empty} /\ memory[i].part \in 1 .. 3
    /\ params.rom \in Nat /\ params.term \in Nat /\ params.size \in 0 .. MaxSize
    /\ Ready => params.term < params.size
    /\ rom \in BOOLEAN /\ intact \in BOOLEAN /\ failed \in 0 .. Faults
    /\ wanted \in Seq(Keys \X Data)

Init ==
    /\ rom \in BOOLEAN
    /\ memory = Image
    /\ params = None
    /\ failed = 0 /\ intact = TRUE /\ wanted = <<>>

--------------------------------------------------------------------------------
(* MUTANT of Scan: the last operation of the list is not looked at. *)
ScanShort(key, n) ==
    LET from[p \in 0 .. n] ==
            IF p = n \/ p + Width(memory[p].key) >= n - 1 THEN [found |-> "no", at |-> 0]
            ELSE LET w == memory[p] IN
                 IF w.part # 1 THEN [found |-> "error", at |-> 0]
                 ELSE IF w.key = key THEN [found |-> "yes", at |-> p]
                 ELSE from[p + Width(w.key)]
    IN from[0]

(* cs40l26_wseq_get_reg_addr: the first such operation in n words; an operation
   that reaches beyond them is an error.  A terminator does not end the search. *)
Scan(key, n) ==
    LET from[p \in 0 .. n] ==
            IF p = n THEN [found |-> "no", at |-> 0]
            ELSE LET w == memory[p] IN
                 IF w.part # 1 \/ p + Width(w.key) > n THEN [found |-> "error", at |-> 0]
                 ELSE IF w.key = key THEN [found |-> "yes", at |-> p]
                 ELSE from[p + Width(w.key)]
    IN from[0]

Fault == failed < Faults /\ failed' = failed + 1 /\ intact' = FALSE
NoFault == UNCHANGED <<failed, intact>>

(* cs40l26_wseq_init *)
WseqInit ==
    /\ ~Ready
    /\ LET end == Scan(End, MaxSize) IN
       /\ end.found = "yes"
       /\ params' = [rom |-> Len(RomList), term |-> end.at, size |-> end.at + 1]
    /\ wanted' = Replayed(memory) /\ intact' = TRUE
    /\ UNCHANGED <<memory, rom, failed>>

(* The index of the first write of that register among those wanted. *)
First(key) == CHOOSE i \in 1 .. Len(wanted) :
    wanted[i][1] = key /\ \A j \in 1 .. i - 1 : wanted[j][1] # key

(* What the driver wants of the list once it has asked for a write. *)
Asked(key, value) ==
    wanted' = IF ~intact THEN wanted
              ELSE IF Update(key) /\ \E i \in 1 .. Len(wanted) : wanted[i][1] = key
              THEN [wanted EXCEPT ![First(key)] = <<key, value>>]
              ELSE Append(wanted, <<key, value>>)

(* A bulk write that failed may have written a part of the words. *)
PartOf(mem, at, w) == \E n \in 0 .. Len(w) : memory' = Put(mem, at, SubSeq(w, 1, n))

Replace(key, value) ==
    LET at == Scan(key, params.size).at IN
    /\ \/ /\ memory' = Put(memory, at, Words(key, value))
          /\ Asked(key, value)
          /\ NoFault
       \/ PartOf(memory, at, Words(key, value)) /\ Fault /\ UNCHANGED wanted
    /\ UNCHANGED params

(* MUTANT of Extend: the size is checked without the new words. *)
ExtendUnchecked(key, value) ==
    LET words == Words(key, value)
        longer == [params EXCEPT !.size = @ + Width(key)] IN
    IF params.size > MaxSize
    THEN UNCHANGED <<memory, params, wanted, failed, intact>>
    ELSE /\ memory' = Put(memory, params.term, words \o Terminator)
         /\ params' = [longer EXCEPT !.term = @ + Width(key)]
         /\ Asked(key, value)
         /\ NoFault

(* The operation takes the terminator's place, and a new one follows.  If the
   first write fails, the size has grown and the end has not moved; if the
   second does, there is no terminator either. *)
Extend(key, value) ==
    LET words == Words(key, value)
        longer == [params EXCEPT !.size = @ + Width(key)] IN
    IF longer.size > MaxSize
    THEN UNCHANGED <<memory, params, wanted, failed, intact>>
    ELSE \/ /\ memory' = Put(memory, params.term, words \o Terminator)
            /\ params' = [longer EXCEPT !.term = @ + Width(key)]
            /\ Asked(key, value)
            /\ NoFault
         \/ /\ PartOf(memory, params.term, words)
            /\ params' = longer
            /\ Fault /\ UNCHANGED wanted

(* cs40l26_wseq_write; a scan that fails leaves everything as it was. *)
WseqWrite(key, value) ==
    /\ Ready
    /\ LET scan == Scan(key, params.size) IN
       \/ scan.found = "yes" /\ Update(key) /\ Replace(key, value)
       \/ (scan.found = "no" \/ (scan.found = "yes" /\ ~Update(key))) /\ Extend(key, value)
       \/ scan.found = "error" /\ UNCHANGED <<memory, params, wanted, failed, intact>>
    /\ UNCHANGED rom

Zeros(from, to) == [i \in 1 .. to - from |-> Word(Empty, 0, 1)]

(* MUTANT of WseqClear: the terminator is not put back. *)
WseqClearOpen ==
    /\ Ready
    /\ memory' = Put(memory, params.rom, Zeros(params.rom, params.term))
    /\ params' = None /\ NoFault
    /\ UNCHANGED <<rom, wanted>>

(* cs40l26_wseq_clear, word by word; parameters it has already wiped (the other
   list's clear failed, or the load did) make it write to register 0 instead. *)
WseqClear ==
    /\ Ready
    /\ \/ /\ memory' = Put(Put(memory, params.rom, Zeros(params.rom, params.term)),
                           params.rom, Terminator)
          /\ params' = None /\ NoFault
       \/ /\ PartOf(memory, params.rom, Zeros(params.rom, params.term))
          /\ Fault /\ UNCHANGED params
    /\ UNCHANGED <<rom, wanted>>

(* A hardware reset (cs40l26_reset_worker) restores the ROM's list; the
   driver's parameters are those of the old one until it is cleared. *)
ChipReset ==
    /\ memory' = Image /\ intact' = FALSE
    /\ UNCHANGED <<rom, params, failed, wanted>>

Next ==
    \/ WseqInit \/ WseqClear \/ ChipReset
    \/ \E key \in Keys, value \in Data : WseqWrite(key, value)

Spec == Init /\ [][Next]_vars

--------------------------------------------------------------------------------
(* What the chip replays is what the driver asked for: appended writes in their
   order, each replaced one once and with its last data, up to a terminator
   that no call loses, also when the list is full.  (No access failed since
   the list was initialised.) *)
Replays == (Ready /\ intact) => Replayed(memory) = wanted

(* A list that is cleared holds the ROM's own writes again, and only these,
   whatever was asked of it before and whatever failed. *)
ClearedToRom ==
    params = None =>
        [i \in DOMAIN Replayed(memory) |-> Replayed(memory)[i][1]]
            = IF rom THEN <<Low>> ELSE <<>>
================================================================================
