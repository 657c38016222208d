------------------------ MODULE MCSettingsParts_proofs -------------------------
(***************************************************************************)
(* Proofs about three of the parts of MCSettings, which MCSettings_proofs  *)
(* rests on: the waveforms of the CS40L25 (Cs40l2xWaveforms), the TAS256x  *)
(* (Tas256x) and the configuration of the CS40L25 (Cs40l2xConfig).  Each   *)
(* has its inductive invariant, its initial states, its steps, and what    *)
(* the invariant says of its properties.                                   *)
(***************************************************************************)
EXTENDS MCSettings, Sequences, FiniteSets, SequenceTheorems, FiniteSetTheorems,
        NaturalsInduction, WellFoundedInduction, TLAPS

--------------------------------------------------------------------------------
(* Induction and recursion over numbers, of sets and functions *)

LEMMA LeastNatural ==
    ASSUME NEW S, S \subseteq Nat, S # {}
    PROVE  \E n \in S : \A m \in S : n <= m
  <1>1. \E n \in S : \A m \in S : ~ (<<m, n>> \in OpToRel(<, Nat))
    BY NatLessThanWellFounded, WFMin
  <1>2. ASSUME NEW m \in Nat, NEW n \in Nat, ~ (<<m, n>> \in OpToRel(<, Nat))
        PROVE  n <= m
    BY <1>2 DEF OpToRel
  <1> QED BY <1>1, <1>2

(* What holds of 0, and of a number up to n if it holds of the one before, holds of n. *)
LEMMA Induction ==
    ASSUME NEW n \in Nat, NEW S, 0 \in S,
           \A m \in Nat : m < n /\ m \in S => m + 1 \in S
    PROVE  \A m \in 0..n : m \in S
  <1> SUFFICES ASSUME {m \in 0..n : m \notin S} # {} PROVE FALSE
    OBVIOUS
  <1>1. PICK m \in {k \in 0..n : k \notin S} : \A k \in {k \in 0..n : k \notin S} : m <= k
    <2>1. {k \in 0..n : k \notin S} \subseteq Nat
      OBVIOUS
    <2> QED BY <2>1, LeastNatural
  <1>2. m \in Nat /\ m # 0 /\ m <= n /\ m \notin S
    BY <1>1
  <1>3. m - 1 \in Nat /\ m - 1 < n /\ m - 1 \in 0..n /\ (m - 1) + 1 = m /\ ~(m <= m - 1)
    BY <1>2
  <1>4. m - 1 \in S
    BY <1>1, <1>3
  <1> QED BY <1>2, <1>3, <1>4

(* A function that is defined by steps exists. *)
Steps(T, n) == [1..n -> [T -> T]]

Iterates(g, T, base, n, step) ==
    g \in [0..n -> T] /\ g[0] = base /\ \A i \in 1..n : g[i] = step[i][g[i - 1]]

LEMMA Iteration ==
    ASSUME NEW T, NEW base \in T, NEW n \in Nat, NEW step \in Steps(T, n)
    PROVE  \E g : Iterates(g, T, base, n, step)
  <1> USE DEF Steps
  <1> DEFINE Iter(m) ==
               \E g \in [0..m -> T] : g[0] = base /\ \A i \in 1..m : g[i] = step[i][g[i - 1]]
             Good == {m \in Nat : Iter(m)}
  <1>1. Iter(0)
    <2> DEFINE g == [i \in 0..0 |-> base]
    <2>1. g \in [0..0 -> T] /\ g[0] = base /\ \A i \in 1..0 : g[i] = step[i][g[i - 1]]
      OBVIOUS
    <2> QED BY <2>1
  <1>2. ASSUME NEW m \in Nat, m < n, Iter(m) PROVE Iter(m + 1)
    <2>1. PICK g \in [0..m -> T] : g[0] = base /\ \A i \in 1..m : g[i] = step[i][g[i - 1]]
      BY <1>2
    <2>2. step[m + 1] \in [T -> T] /\ g[m] \in T
      BY <1>2, <2>1
    <2>3. step[m + 1][g[m]] \in T
      BY <2>2
    <2> DEFINE h == [i \in 0..(m + 1) |-> IF i = m + 1 THEN step[m + 1][g[m]] ELSE g[i]]
    <2>4. h \in [0..(m + 1) -> T]
      BY <2>3
    <2>5. h[0] = base /\ \A i \in 0..m : h[i] = g[i]
      BY <1>2, <2>1
    <2>6. h[m + 1] = step[m + 1][h[m]]
      BY <1>2, <2>5
    <2>7. ASSUME NEW i \in 1..(m + 1) PROVE h[i] = step[i][h[i - 1]]
      <3> HIDE DEF h
      <3>1. CASE i = m + 1
        BY <3>1, <2>6, <1>2
      <3>2. CASE i # m + 1
        <4>1. i \in 1..m /\ i \in 0..m /\ i - 1 \in 0..m
          BY <3>2, <1>2
        <4> QED BY <4>1, <2>1, <2>5
      <3> QED BY <3>1, <3>2
    <2> QED BY <2>4, <2>5, <2>7
  <1> HIDE DEF Iter
  <1>3. 0 \in Good /\ \A m \in Nat : m < n /\ m \in Good => m + 1 \in Good
    BY <1>1, <1>2
  <1>4. n \in Good
    <2> HIDE DEF Good
    <2>1. \A m \in 0..n : m \in Good
      BY <1>3, Induction
    <2> QED BY <2>1
  <1> QED BY <1>4 DEF Iter, Iterates

--------------------------------------------------------------------------------
(* The invariant *)

(* What "loaded" has for a slot that was overwritten *)
Code(s) == CASE s = "rise" -> Owt!GP1R_OVWR [] s = "fall" -> Owt!GP1F_OVWR [] OTHER -> Owt!OVWR_SAVE

(* In calibration there are no slots, and with them the driver knows their number. *)
SlotsKnown ==
    /\ virtual_bin = open_wt_enable
    /\ fw = "CAL" => ~virtual_bin
    /\ virtual_bin => num_waves = Owt!Own(table) + Owt!NumSlots

(* The indices of what was saved go on where those of the table end, oldest first. *)
Numbered ==
    \A n \in 1 .. Len(virtual) : virtual[n].index = Owt!Own(table) + Len(virtual) - n

(* What user space wants of a slot is what the driver takes to be loaded. *)
Asked(s) ==
    \/ loaded[s] = 0 /\ asked[s] = Owt!None
    \/ loaded[s] = Code(s)
    \/ \E n \in 1 .. Len(virtual) :
         loaded[s] = virtual[n].index /\ asked[s] = virtual[n].content

(* A slot that no load has erased has it. *)
Holds(s) == virtual_bin /\ s \notin erased => slot[s] = asked[s]

SlotsInv == \A s \in Owt!Slots : Asked(s) /\ Holds(s)

WaveformsInv == Owt!TypeOK /\ SlotsKnown /\ (~moved => Numbered /\ SlotsInv)

--------------------------------------------------------------------------------
(* Lookups *)

LEMMA VirtualTyped ==
    ASSUME Owt!TypeOK
    PROVE  /\ Len(virtual) \in Nat /\ DOMAIN virtual = 1 .. Len(virtual)
           /\ \A n \in 1 .. Len(virtual) :
                virtual[n].index \in Nat /\ virtual[n].content \in Contents
  <1>1. virtual \in Seq([index : Nat, content : Contents])
    BY DEF Owt!TypeOK
  <1>2. ASSUME NEW n \in 1 .. Len(virtual)
        PROVE  virtual[n] \in [index : Nat, content : Contents]
    BY <1>1, ElementOfSeq
  <1> QED BY <1>1, <1>2

LEMMA TableTyped ==
    ASSUME Owt!WaveformsAssumption, Owt!TypeOK
    PROVE  /\ Owt!Own(table) \in Nat /\ Owt!Own(table) # 0
           /\ Owt!Own(table) + Owt!NumSlots + MaxVirtual <= Owt!CLICK_MAX /\ MaxVirtual \in Nat
  <1>1. table \in Tables /\ table \in Seq(Nat \ {0})
    BY DEF Owt!TypeOK, Owt!WaveformsAssumption
  <1> QED BY <1>1 DEF Owt!WaveformsAssumption, Owt!Own

(* No saved waveform has the index of another, nor one that stands for something else. *)
LEMMA NewestIs ==
    ASSUME Owt!WaveformsAssumption, Owt!TypeOK, Numbered, NEW n \in 1 .. Len(virtual)
    PROVE  /\ Owt!Found(virtual[n].index) = {n}
           /\ Owt!Newest(virtual[n].index) = virtual[n].content
           /\ virtual[n].index # 0 /\ virtual[n].index < Owt!GP1F_OVWR
  <1>1. \A m \in 1 .. Len(virtual) : virtual[m].index = virtual[n].index => m = n
    BY VirtualTyped, TableTyped DEF Numbered
  <1>2. Owt!Found(virtual[n].index) = {n}
    BY <1>1, VirtualTyped DEF Owt!Found
  <1>3. (CHOOSE m \in Owt!Found(virtual[n].index) : \A k \in Owt!Found(virtual[n].index) : m <= k) = n
    BY <1>2
  <1>4. Owt!Newest(virtual[n].index) = virtual[n].content
    BY <1>3 DEF Owt!Newest
  <1>5. Len(virtual) <= MaxVirtual
    BY DEF Owt!TypeOK
  <1>6. virtual[n].index # 0 /\ virtual[n].index < Owt!GP1F_OVWR
    BY <1>5, VirtualTyped, TableTyped DEF Numbered, Owt!GP1F_OVWR, Owt!CLICK_MAX, Owt!NumSlots
  <1> QED BY <1>2, <1>4, <1>6

(* Place of a waveform in the list *)
Nth(i) == Len(virtual) - (i - Owt!Own(table))

LEMMA SavedIs ==
    ASSUME Owt!WaveformsAssumption, Owt!TypeOK, SlotsKnown, Numbered, virtual_bin, NEW i \in Nat,
           Owt!IsVirtual(i)
    PROVE  /\ Nth(i) \in 1 .. Len(virtual) /\ virtual[Nth(i)].index = i
           /\ Owt!SavedAs(i) = virtual[Nth(i)].content
           /\ Owt!Found(i) # {} /\ Owt!Newest(i) = Owt!SavedAs(i) /\ Owt!SavedAs(i) \in Contents
  <1>1. Nth(i) \in 1 .. Len(virtual)
    BY VirtualTyped, TableTyped DEF Nth, Owt!IsVirtual, SlotsKnown, Owt!NumSlots
  <1>2. virtual[Nth(i)].index = i
    BY <1>1, VirtualTyped, TableTyped DEF Nth, Numbered
  <1>3. Owt!SavedAs(i) = virtual[Nth(i)].content
    BY DEF Owt!SavedAs, Nth
  <1>4. Owt!Found(i) = {Nth(i)} /\ Owt!Newest(i) = Owt!SavedAs(i)
    BY <1>1, <1>2, <1>3, NewestIs
  <1>5. Owt!SavedAs(i) \in Contents
    BY <1>1, <1>3, VirtualTyped
  <1> QED BY <1>1, <1>2, <1>3, <1>4, <1>5

(* An index that is not found is none of the list's. *)
LEMMA NewestTyped ==
    ASSUME Owt!TypeOK, NEW i, Owt!Found(i) # {}
    PROVE  Owt!Newest(i) \in Contents
  <1>1. Owt!Found(i) \subseteq 1 .. Len(virtual)
    BY VirtualTyped DEF Owt!Found
  <1>2. \E n \in Owt!Found(i) : \A m \in Owt!Found(i) : n <= m
    <2>1. Owt!Found(i) \subseteq Nat
      BY <1>1, VirtualTyped
    <2> QED BY <2>1, LeastNatural
  <1>3. (CHOOSE n \in Owt!Found(i) : \A m \in Owt!Found(i) : n <= m) \in 1 .. Len(virtual)
    BY <1>1, <1>2
  <1> QED BY <1>3, VirtualTyped DEF Owt!Newest

--------------------------------------------------------------------------------
(* Steps *)

LEMMA FreshWaveforms ==
    ASSUME Owt!WaveformsAssumption, Owt!Init
    PROVE  WaveformsInv
  <1>1. table \in Seq(Nat \ {0}) /\ Len(table) \in Nat
    BY DEF Owt!Init, Owt!WaveformsAssumption
  <1>2. SlotsKnown
    BY DEF Owt!Init, SlotsKnown, Owt!Waves
  <1>3. Owt!TypeOK
    <2>1. virtual \in Seq([index : Nat, content : Contents]) /\ Len(virtual) = 0
      BY DEF Owt!Init
    <2>2. num_waves \in Nat
      BY <1>1 DEF Owt!Init, Owt!Waves, Owt!Own, Owt!NumSlots
    <2>3. Len(virtual) <= MaxVirtual
      BY <2>1 DEF Owt!WaveformsAssumption
    <2>4. /\ loaded \in [Owt!Slots -> Nat] /\ gpio_reg \in [Edges -> Nat] /\ cp_trigger_index \in Nat
          /\ slot \in [Owt!Slots -> Contents \cup {Owt!None}]
          /\ asked \in [Owt!Slots -> Contents \cup {Owt!None}]
      BY DEF Owt!Init
    <2>5. /\ table \in Tables /\ fw \in {"R", "CAL"} /\ queue = Owt!None /\ ovwr_wav = Owt!None
          /\ erased \subseteq Owt!Slots
      BY DEF Owt!Init
    <2>6. /\ open_wt_enable \in BOOLEAN /\ cal_disabled_owt \in BOOLEAN /\ virtual_bin \in BOOLEAN
          /\ moved \in BOOLEAN
      BY DEF Owt!Init
    <2> QED BY <2>1, <2>2, <2>3, <2>4, <2>5, <2>6 DEF Owt!TypeOK
  <1>4. Numbered
    BY DEF Owt!Init, Numbered
  <1>5. SlotsInv
    BY DEF Owt!Init, SlotsInv, Asked, Holds, Owt!Slots
  <1> QED BY <1>2, <1>3, <1>4, <1>5 DEF WaveformsInv

(* What does not touch the list and the slots *)
LEMMA SlotsStay ==
    ASSUME WaveformsInv, virtual' = virtual, loaded' = loaded, asked' = asked, slot' = slot,
           erased' = erased, virtual_bin' => virtual_bin
    PROVE  ~moved => SlotsInv'
  BY DEF WaveformsInv, SlotsInv, Asked, Holds

(* An erased slot holds nothing, and what was asked of it stays asked. *)
LEMMA SlotsErased ==
    ASSUME WaveformsInv, virtual' = virtual, loaded' = loaded, asked' = asked, erased' = Owt!Slots
    PROVE  ~moved => SlotsInv'
  BY DEF WaveformsInv, SlotsInv, Asked, Holds

LEMMA ErasesTyped ==
    ASSUME Owt!TypeOK, Owt!Erases
    PROVE  /\ slot' \in [Owt!Slots -> Contents \cup {Owt!None}]
           /\ erased' \subseteq Owt!Slots
           /\ loaded' \in [Owt!Slots -> Nat]
  BY DEF Owt!TypeOK, Owt!Erases

(* A load numbers what is saved as before, or notes that it did not. *)
LEMMA Loaded ==
    ASSUME Owt!WaveformsAssumption, WaveformsInv, NEW f \in {"R", "CAL"}, NEW t \in Tables,
           NEW open \in BOOLEAN, Owt!Load(f, t, open), virtual' = virtual,
           open_wt_enable => open,
           f = "CAL" => fw = "CAL" /\ open = open_wt_enable /\ t = table
    PROVE  /\ SlotsKnown' /\ (moved => moved')
           /\ fw' \in {"R", "CAL"} /\ table' \in Tables /\ open_wt_enable' \in BOOLEAN
           /\ virtual_bin' \in BOOLEAN /\ num_waves' \in Nat /\ moved' \in BOOLEAN
           /\ ~moved' => Numbered'
  <1>1. t \in Seq(Nat \ {0}) /\ Len(t) \in Nat
    BY DEF Owt!WaveformsAssumption
  <1>2. virtual_bin' = open /\ open_wt_enable' = open
    <2>1. virtual_bin' = (open \/ (virtual_bin /\ f # "CAL")) /\ open_wt_enable' = open
      BY Zenon DEF Owt!Load, Owt!VirtualBin
    <2>2. virtual_bin => open
      BY Zenon DEF WaveformsInv, SlotsKnown
    <2> QED BY <2>1, <2>2
  <1>3. num_waves' \in Nat
    BY <1>1, <1>2 DEF Owt!Load, WaveformsInv, Owt!TypeOK, Owt!Waves, Owt!Own, Owt!NumSlots
  <1>4. SlotsKnown'
    BY <1>2 DEF Owt!Load, SlotsKnown, Owt!Waves, Owt!Own, WaveformsInv
  <1>5. moved' \in BOOLEAN /\ (moved => moved')
    BY DEF Owt!Load, WaveformsInv, Owt!TypeOK
  <1>6. ASSUME ~moved' PROVE Numbered'
    <2>1. CASE virtual = <<>>
      BY <2>1 DEF Numbered
    <2>2. CASE virtual # <<>>
      <3>1. Owt!Own(table') = Owt!Own(table)
        BY <1>6, <2>2 DEF Owt!Load, Owt!Own
      <3> QED BY <3>1, <1>5, <1>6 DEF Numbered, WaveformsInv
    <2> QED BY <2>1, <2>2
  <1> QED BY <1>2, <1>3, <1>4, <1>5, <1>6 DEF Owt!Load

LEMMA EnterQueueKept ==
    ASSUME Owt!WaveformsAssumption, WaveformsInv, NEW c \in Contents, Owt!EnterQueue(c)
    PROVE  WaveformsInv'
  <1>1. Owt!TypeOK' /\ SlotsKnown'
    BY DEF WaveformsInv, Owt!TypeOK, SlotsKnown, Owt!EnterQueue, Owt!bin_vars, Owt!slot_vars
  <1>2. ~moved => Numbered'
    BY DEF WaveformsInv, Owt!EnterQueue, Owt!bin_vars, Numbered
  <1>3. ~moved => SlotsInv'
    BY SlotsStay DEF Owt!EnterQueue, Owt!bin_vars, Owt!slot_vars
  <1> QED BY <1>1, <1>2, <1>3 DEF WaveformsInv, Owt!EnterQueue, Owt!bin_vars

(* The new waveform comes first, those before it keep their index and content. *)
LEMMA SaveKept ==
    ASSUME Owt!WaveformsAssumption, WaveformsInv, Owt!Save
    PROVE  WaveformsInv'
  <1>1. CASE UNCHANGED <<virtual, cp_trigger_index>>
    <2>1. Owt!TypeOK' /\ SlotsKnown'
      BY <1>1 DEF WaveformsInv, Owt!TypeOK, SlotsKnown, Owt!Save, Owt!bin_vars, Owt!slot_vars
    <2>2. ~moved => Numbered'
      BY <1>1 DEF WaveformsInv, Owt!Save, Owt!bin_vars, Numbered
    <2>3. ~moved => SlotsInv'
      BY <1>1, SlotsStay DEF Owt!Save, Owt!bin_vars, Owt!slot_vars
    <2> QED BY <2>1, <2>2, <2>3 DEF WaveformsInv, Owt!Save, Owt!bin_vars
  <1>2. CASE ~ UNCHANGED <<virtual, cp_trigger_index>>
    <2> DEFINE new == [index |-> num_waves - Owt!NumSlots + Len(virtual), content |-> queue]
    <2>1. /\ virtual' = <<new>> \o virtual /\ cp_trigger_index' = Owt!PBQ_SAVE
          /\ Len(virtual) # MaxVirtual /\ virtual_bin /\ queue # Owt!None
          /\ queue' = Owt!None /\ UNCHANGED <<Owt!bin_vars, ovwr_wav, Owt!slot_vars, gpio_reg, asked>>
      BY <1>2, Zenon DEF Owt!Save, Owt!CanSave
    <2>2. new.index = Owt!Own(table) + Len(virtual) /\ new.content = queue
      BY <2>1, TableTyped, VirtualTyped DEF WaveformsInv, SlotsKnown, Owt!NumSlots
    <2>3. new \in [index : Nat, content : Contents]
      <3>1. queue \in Contents
        BY <2>1 DEF WaveformsInv, Owt!TypeOK
      <3>2. Owt!Own(table) + Len(virtual) \in Nat
        BY TableTyped, VirtualTyped DEF WaveformsInv
      <3> QED BY <2>2, <3>1, <3>2
    <2> HIDE DEF new
    <2>4. /\ virtual' \in Seq([index : Nat, content : Contents])
          /\ Len(virtual') = Len(virtual) + 1
          /\ virtual'[1] = new /\ \A n \in 1 .. Len(virtual) : virtual'[n + 1] = virtual[n]
      <3>1. virtual \in Seq([index : Nat, content : Contents])
        BY DEF WaveformsInv, Owt!TypeOK
      <3> QED BY <2>1, <2>3, <3>1
    <2>5. Owt!TypeOK'
      <3>1. Len(virtual') <= MaxVirtual
        BY <2>1, <2>4, VirtualTyped DEF WaveformsInv, Owt!TypeOK, Owt!WaveformsAssumption
      <3>2. cp_trigger_index' \in Nat
        BY <2>1 DEF Owt!PBQ_SAVE
      <3> QED BY <2>1, <2>4, <3>1, <3>2 DEF WaveformsInv, Owt!TypeOK, Owt!bin_vars, Owt!slot_vars
    <2>6. SlotsKnown'
      BY <2>1 DEF WaveformsInv, SlotsKnown, Owt!bin_vars
    <2>7. ASSUME ~moved PROVE Numbered'
      <3> SUFFICES ASSUME NEW n \in 1 .. Len(virtual')
                   PROVE  virtual'[n].index = Owt!Own(table) + Len(virtual') - n
        BY <2>1 DEF Numbered, Owt!bin_vars
      <3>1. CASE n = 1
        BY <3>1, <2>2, <2>4, TableTyped, VirtualTyped DEF WaveformsInv
      <3>2. CASE n # 1
        <4>1. n - 1 \in 1 .. Len(virtual) /\ n = (n - 1) + 1
          BY <3>2, <2>4, VirtualTyped DEF WaveformsInv
        <4>2. virtual'[n] = virtual[n - 1]
          BY <4>1, <2>4
        <4>3. virtual[n - 1].index = Owt!Own(table) + Len(virtual) - (n - 1)
          BY <4>1, <2>7 DEF WaveformsInv, Numbered
        <4> QED BY <4>1, <4>2, <4>3, <2>4, TableTyped, VirtualTyped DEF WaveformsInv
      <3> QED BY <3>1, <3>2
    <2>8. ASSUME ~moved, NEW s \in Owt!Slots PROVE Asked(s)' /\ Holds(s)'
      <3>1. Asked(s) /\ Holds(s)
        BY <2>8 DEF WaveformsInv, SlotsInv
      <3>2. Holds(s)'
        BY <3>1, <2>1 DEF Holds, Owt!bin_vars, Owt!slot_vars
      <3>3. ASSUME NEW n \in 1 .. Len(virtual), loaded[s] = virtual[n].index,
                   asked[s] = virtual[n].content
            PROVE  \E m \in 1 .. Len(virtual') :
                     loaded[s] = virtual'[m].index /\ asked[s] = virtual'[m].content
        <4>1. n + 1 \in 1 .. Len(virtual')
          BY <2>4, VirtualTyped DEF WaveformsInv
        <4> QED BY <4>1, <3>3, <2>4
      <3>4. Asked(s)'
        BY <3>1, <3>3, <2>1 DEF Asked, Owt!slot_vars
      <3> QED BY <3>2, <3>4
    <2> QED BY <2>1, <2>5, <2>6, <2>7, <2>8 DEF WaveformsInv, SlotsInv, Owt!bin_vars
  <1> QED BY <1>1, <1>2

(* A slot that is written holds what is asked of it. *)
LEMMA SlotWritten ==
    ASSUME Owt!WaveformsAssumption, WaveformsInv, NEW s \in Owt!Slots, NEW i \in Nat,
           NEW c \in Contents, Owt!Writes(s, i, c), asked' = [asked EXCEPT ![s] = c],
           virtual' = virtual, virtual_bin' => virtual_bin,
           \/ i = Code(s)
           \/ \E n \in 1 .. Len(virtual) : i = virtual[n].index /\ c = virtual[n].content
    PROVE  /\ ~moved => SlotsInv'
           /\ slot' \in [Owt!Slots -> Contents \cup {Owt!None}]
           /\ asked' \in [Owt!Slots -> Contents \cup {Owt!None}]
           /\ erased' \subseteq Owt!Slots /\ loaded' \in [Owt!Slots -> Nat]
  <1>1. /\ loaded \in [Owt!Slots -> Nat] /\ slot \in [Owt!Slots -> Contents \cup {Owt!None}]
        /\ asked \in [Owt!Slots -> Contents \cup {Owt!None}] /\ erased \subseteq Owt!Slots
    BY DEF WaveformsInv, Owt!TypeOK
  <1>2. /\ loaded' = [loaded EXCEPT ![s] = i] /\ slot' = [slot EXCEPT ![s] = c]
        /\ erased' = erased \ {s}
    BY DEF Owt!Writes
  <1>3. ASSUME ~moved, NEW t \in Owt!Slots PROVE Asked(t)' /\ Holds(t)'
    <2>1. Asked(t) /\ Holds(t)
      BY <1>3 DEF WaveformsInv, SlotsInv
    <2>2. CASE t = s
      <3>1. loaded'[t] = i /\ slot'[t] = c /\ asked'[t] = c
        BY <2>2, <1>1, <1>2
      <3> QED BY <3>1, <2>2 DEF Asked, Holds, Code
    <2>3. CASE t # s
      <3>1. /\ loaded'[t] = loaded[t] /\ slot'[t] = slot[t] /\ asked'[t] = asked[t]
            /\ (t \in erased' <=> t \in erased)
        BY <2>3, <1>1, <1>2
      <3> QED BY <3>1, <2>1 DEF Asked, Holds, Code
    <2> QED BY <2>2, <2>3
  <1> QED BY <1>1, <1>2, <1>3 DEF SlotsInv

LEMMA SlotIndexTyped ==
    ASSUME Owt!WaveformsAssumption, Owt!TypeOK, NEW s \in Owt!Slots
    PROVE  Owt!SlotIndex(s) \in Nat
  BY TableTyped DEF Owt!SlotIndex

LEMMA OverwriteKept ==
    ASSUME Owt!WaveformsAssumption, WaveformsInv, Owt!Overwrite
    PROVE  WaveformsInv'
  <1>1. /\ virtual_bin /\ queue # Owt!None /\ queue' = Owt!None /\ ovwr_wav' = Owt!Converted
        /\ UNCHANGED <<Owt!bin_vars, virtual, gpio_reg>>
    BY DEF Owt!Overwrite, Owt!CanSave
  <1>2. SlotsKnown' /\ (~moved => Numbered') /\ moved' = moved
    BY <1>1 DEF WaveformsInv, SlotsKnown, Numbered, Owt!bin_vars
  <1>3. Owt!Converted \in Contents \cup {Owt!None}
    BY DEF Owt!Converted, WaveformsInv, Owt!TypeOK
  <1>4. CASE Owt!Converted = Owt!None
    <2>1. UNCHANGED <<Owt!slot_vars, asked, cp_trigger_index>>
      BY <1>4 DEF Owt!Overwrite
    <2>2. Owt!TypeOK'
      BY <1>1, <1>3, <2>1 DEF WaveformsInv, Owt!TypeOK, Owt!bin_vars, Owt!slot_vars
    <2>3. ~moved => SlotsInv'
      BY <1>1, <2>1, SlotsStay DEF Owt!bin_vars, Owt!slot_vars
    <2> QED BY <1>2, <2>2, <2>3 DEF WaveformsInv
  <1>5. CASE Owt!Converted # Owt!None
    <2>1. /\ Owt!Writes("comp", Owt!OVWR_SAVE, Owt!Converted)
          /\ asked' = [asked EXCEPT !["comp"] = Owt!Converted]
          /\ cp_trigger_index' = Owt!SlotIndex("comp")
      BY <1>5 DEF Owt!Overwrite
    <2>2. "comp" \in Owt!Slots /\ Owt!OVWR_SAVE \in Nat /\ Owt!OVWR_SAVE = Code("comp")
      BY DEF Owt!Slots, Owt!OVWR_SAVE, Code
    <2>3. Owt!Converted \in Contents
      BY <1>3, <1>5
    <2>4. /\ ~moved => SlotsInv'
          /\ slot' \in [Owt!Slots -> Contents \cup {Owt!None}]
          /\ asked' \in [Owt!Slots -> Contents \cup {Owt!None}]
          /\ erased' \subseteq Owt!Slots /\ loaded' \in [Owt!Slots -> Nat]
      BY <1>1, <2>1, <2>2, <2>3, SlotWritten DEF Owt!bin_vars
    <2>5. cp_trigger_index' \in Nat
      BY <2>1, <2>2, SlotIndexTyped DEF WaveformsInv
    <2>6. Owt!TypeOK'
      BY <1>1, <1>3, <2>4, <2>5 DEF WaveformsInv, Owt!TypeOK, Owt!bin_vars
    <2> QED BY <1>2, <2>4, <2>6 DEF WaveformsInv
  <1> QED BY <1>4, <1>5

LEMMA OverwriteEdgeKept ==
    ASSUME Owt!WaveformsAssumption, WaveformsInv, NEW e \in Edges, Owt!OverwriteEdge(e)
    PROVE  WaveformsInv'
  <1>1. /\ virtual_bin /\ queue # Owt!None /\ queue' = Owt!None /\ UNCHANGED <<Owt!bin_vars, virtual>>
    BY DEF Owt!OverwriteEdge, Owt!CanSave
  <1>2. SlotsKnown' /\ (~moved => Numbered') /\ moved' = moved
    BY <1>1 DEF WaveformsInv, SlotsKnown, Numbered, Owt!bin_vars
  <1>3. CASE queue \in TooLong
    <2>1. UNCHANGED <<ovwr_wav, Owt!slot_vars, gpio_reg, cp_trigger_index, asked>>
      BY <1>3 DEF Owt!OverwriteEdge
    <2>2. Owt!TypeOK'
      BY <1>1, <2>1 DEF WaveformsInv, Owt!TypeOK, Owt!bin_vars, Owt!slot_vars
    <2>3. ~moved => SlotsInv'
      BY <1>1, <2>1, SlotsStay DEF Owt!bin_vars, Owt!slot_vars
    <2> QED BY <1>2, <2>2, <2>3 DEF WaveformsInv
  <1>4. CASE queue \notin TooLong
    <2> DEFINE index == IF e = "rise" THEN Owt!GP1R_OVWR ELSE Owt!GP1F_OVWR
    <2>1. /\ ovwr_wav' = queue /\ Owt!Writes(e, index, queue)
          /\ gpio_reg' = [gpio_reg EXCEPT ![e] = Owt!SlotIndex(e)]
          /\ cp_trigger_index' = index /\ asked' = [asked EXCEPT ![e] = queue]
      BY <1>4 DEF Owt!OverwriteEdge
    <2>2. e \in Owt!Slots /\ index \in Nat /\ index = Code(e)
      BY DEF Owt!WaveformsAssumption, Owt!Slots, Code, Owt!GP1R_OVWR, Owt!GP1F_OVWR
    <2>3. queue \in Contents
      BY <1>1 DEF WaveformsInv, Owt!TypeOK
    <2> HIDE DEF index
    <2>4. /\ ~moved => SlotsInv'
          /\ slot' \in [Owt!Slots -> Contents \cup {Owt!None}]
          /\ asked' \in [Owt!Slots -> Contents \cup {Owt!None}]
          /\ erased' \subseteq Owt!Slots /\ loaded' \in [Owt!Slots -> Nat]
      BY <1>1, <2>1, <2>2, <2>3, SlotWritten DEF Owt!bin_vars
    <2>5. gpio_reg' \in [Edges -> Nat]
      BY <2>1, <2>2, SlotIndexTyped DEF WaveformsInv, Owt!TypeOK
    <2>6. Owt!TypeOK'
      BY <1>1, <2>1, <2>2, <2>3, <2>4, <2>5 DEF WaveformsInv, Owt!TypeOK, Owt!bin_vars
    <2> QED BY <1>2, <2>4, <2>6 DEF WaveformsInv
  <1> QED BY <1>3, <1>4

(* A saved waveform is written to its slot, or is there. *)
LEMMA VirtualWritten ==
    ASSUME Owt!WaveformsAssumption, WaveformsInv, NEW s \in Owt!Slots, NEW i \in Nat, virtual_bin,
           Owt!IsVirtual(i), Owt!WritesVirtual(s, i), virtual' = virtual, virtual_bin' => virtual_bin,
           asked' = IF ~moved THEN [asked EXCEPT ![s] = Owt!SavedAs(i)] ELSE asked
    PROVE  /\ ~moved => SlotsInv'
           /\ slot' \in [Owt!Slots -> Contents \cup {Owt!None}]
           /\ asked' \in [Owt!Slots -> Contents \cup {Owt!None}]
           /\ erased' \subseteq Owt!Slots /\ loaded' \in [Owt!Slots -> Nat]
  <1>1. /\ loaded \in [Owt!Slots -> Nat] /\ slot \in [Owt!Slots -> Contents \cup {Owt!None}]
        /\ asked \in [Owt!Slots -> Contents \cup {Owt!None}] /\ erased \subseteq Owt!Slots
    BY DEF WaveformsInv, Owt!TypeOK
  <1>2. CASE moved
    <2>1. CASE UNCHANGED Owt!slot_vars
      BY <1>1, <1>2, <2>1 DEF Owt!slot_vars
    <2>2. CASE Owt!Found(i) # {} /\ Owt!Writes(s, i, Owt!Newest(i))
      <3>1. Owt!Newest(i) \in Contents
        BY <2>2, NewestTyped DEF WaveformsInv
      <3> QED BY <1>1, <1>2, <2>2, <3>1 DEF Owt!Writes
    <2> QED BY <2>1, <2>2 DEF Owt!WritesVirtual
  <1>3. CASE ~moved
    <2>1. /\ Nth(i) \in 1 .. Len(virtual) /\ virtual[Nth(i)].index = i
          /\ Owt!SavedAs(i) = virtual[Nth(i)].content
          /\ Owt!Found(i) # {} /\ Owt!Newest(i) = Owt!SavedAs(i) /\ Owt!SavedAs(i) \in Contents
      BY <1>3, SavedIs DEF WaveformsInv
    <2>2. asked' = [asked EXCEPT ![s] = Owt!SavedAs(i)]
      BY <1>3
    <2>3. CASE i = loaded[s]
      <3>1. UNCHANGED Owt!slot_vars
        BY <2>3 DEF Owt!WritesVirtual
      <3>2. asked[s] = Owt!SavedAs(i)
        <4>1. Asked(s)
          BY <1>3 DEF WaveformsInv, SlotsInv
        <4>2. Owt!Found(i) = {Nth(i)} /\ i # 0 /\ i < Owt!GP1F_OVWR
          BY <1>3, <2>1, NewestIs DEF WaveformsInv
        <4>3. i # Code(s)
          BY <4>2 DEF Code, Owt!GP1F_OVWR, Owt!GP1R_OVWR, Owt!OVWR_SAVE
        <4>4. ASSUME NEW n \in 1 .. Len(virtual), loaded[s] = virtual[n].index
              PROVE  n = Nth(i)
          <5>1. n \in Owt!Found(i)
            BY <2>3, <4>4, VirtualTyped DEF Owt!Found, WaveformsInv
          <5> QED BY <4>2, <5>1
        <4> QED BY <2>1, <2>3, <4>1, <4>2, <4>3, <4>4 DEF Asked
      <3>3. asked' = asked
        BY <1>1, <2>2, <3>2
      <3>4. SlotsInv'
        BY <1>3, <3>1, <3>3, SlotsStay DEF Owt!slot_vars
      <3> QED BY <1>1, <3>1, <3>3, <3>4 DEF Owt!slot_vars
    <2>4. CASE i # loaded[s]
      <3>1. Owt!Writes(s, i, Owt!SavedAs(i))
        BY <2>1, <2>4 DEF Owt!WritesVirtual
      <3> QED BY <2>1, <2>2, <3>1, SlotWritten
    <2> QED BY <2>3, <2>4
  <1> QED BY <1>2, <1>3

LEMMA DefaultsTyped ==
    ASSUME Owt!Defaults
    PROVE  gpio_reg' \in [Edges -> Nat]
  BY DEF Owt!Defaults

(* Leaving calibration, where there is nothing to be held *)
LEMMA LeavesKept ==
    ASSUME Owt!WaveformsAssumption, WaveformsInv, Owt!Leaves, virtual' = virtual
    PROVE  /\ SlotsKnown' /\ (moved => moved') /\ (~moved' => Numbered')
           /\ fw' \in {"R", "CAL"} /\ table' \in Tables /\ open_wt_enable' \in BOOLEAN
           /\ cal_disabled_owt' \in BOOLEAN /\ virtual_bin' \in BOOLEAN /\ num_waves' \in Nat
           /\ moved' \in BOOLEAN /\ gpio_reg' \in [Edges -> Nat]
           /\ fw # "CAL" => virtual_bin' = virtual_bin
  <1>1. CASE fw = "CAL"
    <2>1. /\ Owt!Load("R", table, open_wt_enable \/ cal_disabled_owt) /\ Owt!Defaults
          /\ cal_disabled_owt' = FALSE
      BY <1>1 DEF Owt!Leaves
    <2>2. /\ "R" \in {"R", "CAL"} /\ table \in Tables
          /\ (open_wt_enable \/ cal_disabled_owt) \in BOOLEAN
          /\ (open_wt_enable => open_wt_enable \/ cal_disabled_owt)
          /\ ("R" = "CAL" => fw = "CAL" /\ (open_wt_enable \/ cal_disabled_owt) = open_wt_enable
                              /\ table = table)
      BY DEF WaveformsInv, Owt!TypeOK
    <2> DEFINE open == open_wt_enable \/ cal_disabled_owt
    <2>3. /\ open \in BOOLEAN /\ Owt!Load("R", table, open) /\ (open_wt_enable => open)
          /\ ("R" = "CAL" => fw = "CAL" /\ open = open_wt_enable /\ table = table)
      BY <2>1, <2>2
    <2> HIDE DEF open
    <2>4. /\ SlotsKnown' /\ (moved => moved') /\ (~moved' => Numbered')
          /\ fw' \in {"R", "CAL"} /\ table' \in Tables /\ open_wt_enable' \in BOOLEAN
          /\ virtual_bin' \in BOOLEAN /\ num_waves' \in Nat /\ moved' \in BOOLEAN
      BY <2>2, <2>3, Loaded
    <2> QED BY <1>1, <2>1, <2>4, DefaultsTyped
  <1>2. CASE fw # "CAL"
    <2>1. UNCHANGED <<Owt!bin_vars, gpio_reg>>
      BY <1>2 DEF Owt!Leaves
    <2> QED BY <2>1 DEF Owt!bin_vars, WaveformsInv, Owt!TypeOK, SlotsKnown, Numbered
  <1> QED BY <1>1, <1>2

LEMMA TriggerIndexKept ==
    ASSUME Owt!WaveformsAssumption, WaveformsInv, NEW i \in Owt!Indices, Owt!TriggerIndex(i)
    PROVE  WaveformsInv'
  <1> DEFINE virt == virtual_bin /\ Owt!IsVirtual(i)
  <1>1. /\ IF fw = "CAL" THEN Owt!Erases
            ELSE IF virt THEN Owt!WritesVirtual("comp", i) ELSE UNCHANGED Owt!slot_vars
        /\ Owt!Leaves
        /\ cp_trigger_index' = IF virt THEN Owt!SlotIndex("comp") ELSE i
        /\ asked' = IF virt /\ ~moved THEN [asked EXCEPT !["comp"] = Owt!SavedAs(i)] ELSE asked
        /\ UNCHANGED <<Owt!store_vars>>
    BY Zenon DEF Owt!TriggerIndex
  <1>2. i \in Nat /\ "comp" \in Owt!Slots
    BY DEF Owt!Indices, Owt!Slots
  <1>3. virtual' = virtual /\ queue' = queue /\ ovwr_wav' = ovwr_wav
    BY <1>1 DEF Owt!store_vars
  <1>4. /\ SlotsKnown' /\ (moved => moved') /\ (~moved' => Numbered')
        /\ fw' \in {"R", "CAL"} /\ table' \in Tables /\ open_wt_enable' \in BOOLEAN
        /\ cal_disabled_owt' \in BOOLEAN /\ virtual_bin' \in BOOLEAN /\ num_waves' \in Nat
        /\ moved' \in BOOLEAN /\ gpio_reg' \in [Edges -> Nat]
        /\ fw # "CAL" => virtual_bin' = virtual_bin
    BY <1>1, <1>3, LeavesKept
  <1>5. cp_trigger_index' \in Nat
    <2>1. Owt!SlotIndex("comp") \in Nat
      BY <1>2, SlotIndexTyped DEF WaveformsInv
    <2> QED BY <1>1, <1>2, <2>1
  <1>6. /\ ~moved => SlotsInv'
        /\ slot' \in [Owt!Slots -> Contents \cup {Owt!None}]
        /\ asked' \in [Owt!Slots -> Contents \cup {Owt!None}]
        /\ erased' \subseteq Owt!Slots /\ loaded' \in [Owt!Slots -> Nat]
    <2>1. CASE fw = "CAL"
      <3>1. Owt!Erases /\ ~virt
        BY <1>1, <2>1 DEF WaveformsInv, SlotsKnown
      <3>2. asked' = asked
        BY <1>1, <3>1
      <3>3. erased' = Owt!Slots /\ loaded' = loaded
        BY <3>1 DEF Owt!Erases
      <3>4. ~moved => SlotsInv'
        BY <1>3, <3>2, <3>3, SlotsErased
      <3>5. asked' \in [Owt!Slots -> Contents \cup {Owt!None}]
        BY <3>2 DEF WaveformsInv, Owt!TypeOK
      <3> QED BY <3>1, <3>4, <3>5, ErasesTyped DEF WaveformsInv
    <2>2. CASE fw # "CAL" /\ virt
      <3>1. Owt!WritesVirtual("comp", i) /\ virtual_bin /\ Owt!IsVirtual(i)
        BY <1>1, <2>2
      <3>2. asked' = IF ~moved THEN [asked EXCEPT !["comp"] = Owt!SavedAs(i)] ELSE asked
        BY <1>1, <2>2
      <3> QED BY <1>2, <1>3, <3>1, <3>2, VirtualWritten
    <2>3. CASE fw # "CAL" /\ ~virt
      <3>1. UNCHANGED Owt!slot_vars /\ asked' = asked
        BY <1>1, <2>3
      <3>2. ~moved => SlotsInv'
        BY <1>3, <1>4, <2>3, <3>1, SlotsStay DEF Owt!slot_vars
      <3> QED BY <3>1, <3>2 DEF Owt!slot_vars, WaveformsInv, Owt!TypeOK
    <2> QED BY <2>1, <2>2, <2>3
  <1>7. Owt!TypeOK'
    <2>1. virtual' \in Seq([index : Nat, content : Contents]) /\ Len(virtual') <= MaxVirtual
      BY <1>3 DEF WaveformsInv, Owt!TypeOK
    <2>2. queue' \in Contents \cup {Owt!None} /\ ovwr_wav' \in Contents \cup {Owt!None}
      BY <1>3 DEF WaveformsInv, Owt!TypeOK
    <2> QED BY <1>4, <1>5, <1>6, <2>1, <2>2 DEF Owt!TypeOK
  <1> QED BY <1>4, <1>6, <1>7 DEF WaveformsInv

LEMMA TriggerDiagKept ==
    ASSUME Owt!WaveformsAssumption, WaveformsInv, Owt!TriggerDiag
    PROVE  WaveformsInv'
  <1>1. cp_trigger_index' \in Nat /\ UNCHANGED <<Owt!store_vars, asked>>
    BY DEF Owt!TriggerDiag, Owt!DIAG
  <1>2. CASE fw = "CAL"
    <2>1. UNCHANGED <<Owt!bin_vars, gpio_reg, Owt!slot_vars>>
      BY <1>2 DEF Owt!TriggerDiag
    <2>2. Owt!TypeOK' /\ SlotsKnown' /\ (~moved => Numbered')
      BY <1>1, <2>1 DEF WaveformsInv, Owt!TypeOK, SlotsKnown, Numbered, Owt!bin_vars,
                        Owt!slot_vars, Owt!store_vars
    <2>3. ~moved => SlotsInv'
      BY <1>1, <2>1, SlotsStay DEF Owt!bin_vars, Owt!slot_vars, Owt!store_vars
    <2> QED BY <2>1, <2>2, <2>3 DEF WaveformsInv, Owt!bin_vars
  <1>3. CASE fw # "CAL"
    <2>1. /\ fw' = "CAL" /\ Owt!Erases /\ Owt!Defaults
          /\ open_wt_enable' = FALSE /\ virtual_bin' = (virtual_bin /\ ~open_wt_enable)
          /\ cal_disabled_owt' = (cal_disabled_owt \/ open_wt_enable)
          /\ UNCHANGED <<table, num_waves, moved>>
      BY <1>3 DEF Owt!TriggerDiag
    <2>2. virtual_bin' = FALSE
      BY <2>1 DEF WaveformsInv, SlotsKnown
    <2>3. SlotsKnown' /\ (~moved => Numbered')
      BY <1>1, <2>1, <2>2 DEF WaveformsInv, SlotsKnown, Numbered, Owt!store_vars
    <2>4. ~moved => SlotsInv'
      BY <1>1, <2>1, SlotsErased DEF Owt!Erases, Owt!store_vars
    <2>5. Owt!TypeOK'
      <3>1. /\ slot' \in [Owt!Slots -> Contents \cup {Owt!None}]
            /\ erased' \subseteq Owt!Slots
            /\ loaded' \in [Owt!Slots -> Nat]
        BY <2>1, ErasesTyped DEF WaveformsInv
      <3>2. cal_disabled_owt' \in BOOLEAN /\ gpio_reg' \in [Edges -> Nat]
        BY <2>1, DefaultsTyped
      <3> QED BY <1>1, <2>1, <2>2, <3>1, <3>2 DEF WaveformsInv, Owt!TypeOK, Owt!store_vars
    <2> QED BY <2>1, <2>3, <2>4, <2>5 DEF WaveformsInv
  <1> QED BY <1>2, <1>3

LEMMA TriggerPeakKept ==
    ASSUME Owt!WaveformsAssumption, WaveformsInv, Owt!TriggerPeak
    PROVE  WaveformsInv'
  <1>1. /\ cp_trigger_index' \in Nat /\ UNCHANGED <<Owt!store_vars, asked>> /\ Owt!Leaves
        /\ IF fw = "CAL" THEN Owt!Erases ELSE UNCHANGED Owt!slot_vars
    BY DEF Owt!TriggerPeak, Owt!PEAK
  <1>2. /\ SlotsKnown' /\ (moved => moved') /\ (~moved' => Numbered')
        /\ fw' \in {"R", "CAL"} /\ table' \in Tables /\ open_wt_enable' \in BOOLEAN
        /\ cal_disabled_owt' \in BOOLEAN /\ virtual_bin' \in BOOLEAN /\ num_waves' \in Nat
        /\ moved' \in BOOLEAN /\ gpio_reg' \in [Edges -> Nat]
        /\ fw # "CAL" => virtual_bin' = virtual_bin
    BY <1>1, LeavesKept DEF Owt!store_vars
  <1>3. /\ ~moved => SlotsInv'
        /\ slot' \in [Owt!Slots -> Contents \cup {Owt!None}]
        /\ erased' \subseteq Owt!Slots /\ loaded' \in [Owt!Slots -> Nat]
    <2>1. CASE fw = "CAL"
      <3>1. ~moved => SlotsInv'
        BY <1>1, <2>1, SlotsErased DEF Owt!Erases, Owt!store_vars
      <3> QED BY <1>1, <2>1, <3>1, ErasesTyped DEF WaveformsInv
    <2>2. CASE fw # "CAL"
      <3>1. ~moved => SlotsInv'
        BY <1>1, <1>2, <2>2, SlotsStay DEF Owt!slot_vars, Owt!store_vars
      <3> QED BY <1>1, <2>2, <3>1 DEF Owt!slot_vars, WaveformsInv, Owt!TypeOK
    <2> QED BY <2>1, <2>2
  <1>4. Owt!TypeOK'
    <2>1. /\ virtual' \in Seq([index : Nat, content : Contents]) /\ Len(virtual') <= MaxVirtual
          /\ queue' \in Contents \cup {Owt!None} /\ ovwr_wav' \in Contents \cup {Owt!None}
          /\ asked' \in [Owt!Slots -> Contents \cup {Owt!None}]
      BY <1>1 DEF WaveformsInv, Owt!TypeOK, Owt!store_vars
    <2> QED BY <1>1, <1>2, <1>3, <2>1 DEF Owt!TypeOK
  <1> QED BY <1>2, <1>3, <1>4 DEF WaveformsInv

(* The slot that is written again gets what is asked of it. *)
LEMMA FwSwapKept ==
    ASSUME Owt!WaveformsAssumption, WaveformsInv, Owt!FwSwap
    PROVE  WaveformsInv'
  <1>1. /\ Owt!Load("R", table, open_wt_enable) /\ Owt!Defaults /\ UNCHANGED cal_disabled_owt
        /\ slot' = [t \in Owt!Slots |-> IF t = "comp" /\ Owt!Rewritten /\ virtual_bin'
                                         THEN Owt!Newest(loaded["comp"]) ELSE Owt!None]
        /\ erased' = IF loaded["comp"] # Owt!OVWR_SAVE /\ cp_trigger_index = Owt!SlotIndex("comp")
                      THEN Owt!Slots \ {"comp"} ELSE Owt!Slots
        /\ UNCHANGED <<Owt!store_vars, loaded, cp_trigger_index, asked>>
    BY DEF Owt!FwSwap
  <1>2. table \in Tables /\ open_wt_enable \in BOOLEAN /\ virtual' = virtual
    BY <1>1 DEF WaveformsInv, Owt!TypeOK, Owt!store_vars
  <1>3. /\ SlotsKnown' /\ (moved => moved') /\ (~moved' => Numbered')
        /\ fw' \in {"R", "CAL"} /\ table' \in Tables /\ open_wt_enable' \in BOOLEAN
        /\ virtual_bin' \in BOOLEAN /\ num_waves' \in Nat /\ moved' \in BOOLEAN
    BY <1>1, <1>2, Loaded
  <1>4. ASSUME ~moved' PROVE SlotsInv'
    <2>1. ~moved /\ Numbered /\ SlotsInv
      BY <1>3, <1>4 DEF WaveformsInv
    <2>2. ASSUME NEW s \in Owt!Slots PROVE Asked(s)'
      BY <1>1, <1>2, <2>1 DEF SlotsInv, Asked
    <2>3. ASSUME NEW s \in Owt!Slots, virtual_bin', s \notin erased' PROVE slot'[s] = asked'[s]
      <3>1. s = "comp" /\ loaded[s] # Owt!OVWR_SAVE /\ cp_trigger_index = Owt!SlotIndex("comp")
        BY <1>1, <2>3
      <3>2. Owt!Rewritten <=> Owt!Found(loaded[s]) # {}
        BY <3>1 DEF Owt!Rewritten
      <3>3. CASE loaded[s] = 0 /\ asked[s] = Owt!None
        <4>1. Owt!Found(loaded[s]) = {}
          <5> SUFFICES ASSUME NEW n \in 1 .. Len(virtual), virtual[n].index = 0 PROVE FALSE
            BY <3>3, VirtualTyped DEF Owt!Found, WaveformsInv
          <5> QED BY <2>1, NewestIs DEF WaveformsInv
        <4> QED BY <1>1, <3>1, <3>2, <3>3, <4>1
      <3>4. ASSUME NEW n \in 1 .. Len(virtual), loaded[s] = virtual[n].index,
                   asked[s] = virtual[n].content
            PROVE  slot'[s] = asked'[s]
        <4>1. Owt!Found(loaded[s]) # {} /\ Owt!Newest(loaded[s]) = asked[s]
          BY <2>1, <3>4, NewestIs DEF WaveformsInv
        <4> QED BY <1>1, <2>3, <3>1, <3>2, <4>1
      <3>5. loaded[s] # Code(s)
        BY <3>1 DEF Code
      <3> QED BY <2>1, <3>3, <3>4, <3>5 DEF SlotsInv, Asked
    <2> QED BY <2>2, <2>3 DEF SlotsInv, Holds
  <1>5. Owt!TypeOK'
    <2>1. slot' \in [Owt!Slots -> Contents \cup {Owt!None}]
      <3>1. Owt!Rewritten => Owt!Newest(loaded["comp"]) \in Contents
        BY NewestTyped DEF Owt!Rewritten, WaveformsInv
      <3> QED BY <1>1, <3>1
    <2>2. erased' \subseteq Owt!Slots /\ gpio_reg' \in [Edges -> Nat]
      BY <1>1, DefaultsTyped
    <2>3. /\ virtual' \in Seq([index : Nat, content : Contents]) /\ Len(virtual') <= MaxVirtual
          /\ queue' \in Contents \cup {Owt!None} /\ ovwr_wav' \in Contents \cup {Owt!None}
          /\ asked' \in [Owt!Slots -> Contents \cup {Owt!None}] /\ loaded' \in [Owt!Slots -> Nat]
          /\ cp_trigger_index' \in Nat /\ cal_disabled_owt' \in BOOLEAN
      BY <1>1 DEF WaveformsInv, Owt!TypeOK, Owt!store_vars
    <2> QED BY <1>3, <2>1, <2>2, <2>3 DEF Owt!TypeOK
  <1> QED BY <1>3, <1>4, <1>5 DEF WaveformsInv

(* A load that erases the slots and writes none *)
LEMMA EmptyLoadKept ==
    ASSUME Owt!WaveformsAssumption, WaveformsInv, NEW f \in {"R", "CAL"}, NEW t \in Tables,
           Owt!Load(f, t, open_wt_enable), f = "CAL" => fw = "CAL" /\ t = table, Owt!Erases,
           UNCHANGED <<cal_disabled_owt, Owt!store_vars, cp_trigger_index, gpio_reg, asked>>
    PROVE  WaveformsInv'
  <1>1. open_wt_enable \in BOOLEAN /\ virtual' = virtual
    BY DEF WaveformsInv, Owt!TypeOK, Owt!store_vars
  <1>2. /\ SlotsKnown' /\ (moved => moved') /\ (~moved' => Numbered')
        /\ fw' \in {"R", "CAL"} /\ table' \in Tables /\ open_wt_enable' \in BOOLEAN
        /\ virtual_bin' \in BOOLEAN /\ num_waves' \in Nat /\ moved' \in BOOLEAN
    BY <1>1, Loaded
  <1>3. ~moved => SlotsInv'
    BY <1>1, SlotsErased DEF Owt!Erases
  <1>4. Owt!TypeOK'
    <2>1. /\ virtual' \in Seq([index : Nat, content : Contents]) /\ Len(virtual') <= MaxVirtual
          /\ queue' \in Contents \cup {Owt!None} /\ ovwr_wav' \in Contents \cup {Owt!None}
          /\ asked' \in [Owt!Slots -> Contents \cup {Owt!None}] /\ gpio_reg' \in [Edges -> Nat]
          /\ cp_trigger_index' \in Nat /\ cal_disabled_owt' \in BOOLEAN
      BY DEF WaveformsInv, Owt!TypeOK, Owt!store_vars
    <2>2. /\ slot' \in [Owt!Slots -> Contents \cup {Owt!None}]
          /\ erased' \subseteq Owt!Slots
          /\ loaded' \in [Owt!Slots -> Nat]
      BY ErasesTyped DEF WaveformsInv
    <2> QED BY <1>2, <2>1, <2>2 DEF Owt!TypeOK
  <1> QED BY <1>2, <1>3, <1>4 DEF WaveformsInv

LEMMA WtFileKept ==
    ASSUME Owt!WaveformsAssumption, WaveformsInv, NEW t \in Tables, Owt!WtFile(t)
    PROVE  WaveformsInv'
  BY EmptyLoadKept DEF Owt!WtFile

LEMMA RecoverKept ==
    ASSUME Owt!WaveformsAssumption, WaveformsInv, Owt!Recover
    PROVE  WaveformsInv'
  <1>1. fw \in {"R", "CAL"} /\ table \in Tables
    BY DEF WaveformsInv, Owt!TypeOK
  <1> QED BY <1>1, EmptyLoadKept DEF Owt!Recover

LEMMA GpioIndexKept ==
    ASSUME Owt!WaveformsAssumption, WaveformsInv, NEW e \in Edges, NEW i \in Owt!Indices, Owt!GpioIndex(e, i)
    PROVE  WaveformsInv'
  <1> DEFINE virt == virtual_bin /\ Owt!IsVirtual(i)
             ok == /\ fw # "CAL"
                   /\ IF virtual_bin THEN i < num_waves - Owt!NumSlots + Len(virtual)
                      ELSE i <= num_waves - Owt!NumSlots \/ num_waves < Owt!NumSlots
  <1>1. /\ IF virt THEN Owt!WritesVirtual(e, i) ELSE UNCHANGED Owt!slot_vars
        /\ gpio_reg' = IF ~ok THEN gpio_reg
                       ELSE [gpio_reg EXCEPT ![e] = IF virt THEN Owt!SlotIndex(e) ELSE i]
        /\ asked' = IF ok /\ virt /\ ~moved THEN [asked EXCEPT ![e] = Owt!SavedAs(i)] ELSE asked
        /\ UNCHANGED <<Owt!bin_vars, Owt!store_vars, cp_trigger_index>>
    BY Zenon DEF Owt!GpioIndex
  <1>2. i \in Nat /\ e \in Owt!Slots
    BY DEF Owt!Indices, Owt!WaveformsAssumption, Owt!Slots
  <1>3. virt => ok
    BY DEF WaveformsInv, SlotsKnown, Owt!IsVirtual
  <1>4. /\ ~moved => SlotsInv'
        /\ slot' \in [Owt!Slots -> Contents \cup {Owt!None}]
        /\ asked' \in [Owt!Slots -> Contents \cup {Owt!None}]
        /\ erased' \subseteq Owt!Slots /\ loaded' \in [Owt!Slots -> Nat]
    <2>1. virtual' = virtual /\ virtual_bin' = virtual_bin
      BY <1>1 DEF Owt!store_vars, Owt!bin_vars
    <2>2. CASE virt
      <3>1. Owt!WritesVirtual(e, i) /\ virtual_bin /\ Owt!IsVirtual(i)
        BY <1>1, <2>2
      <3>2. asked' = IF ~moved THEN [asked EXCEPT ![e] = Owt!SavedAs(i)] ELSE asked
        BY <1>1, <1>3, <2>2
      <3> QED BY <1>2, <2>1, <3>1, <3>2, VirtualWritten
    <2>3. CASE ~virt
      <3>1. UNCHANGED Owt!slot_vars /\ asked' = asked
        BY <1>1, <2>3
      <3>2. ~moved => SlotsInv'
        BY <2>1, <3>1, SlotsStay DEF Owt!slot_vars
      <3> QED BY <3>1, <3>2 DEF Owt!slot_vars, WaveformsInv, Owt!TypeOK
    <2> QED BY <2>2, <2>3
  <1>5. gpio_reg' \in [Edges -> Nat]
    <2>1. Owt!SlotIndex(e) \in Nat /\ gpio_reg \in [Edges -> Nat]
      BY <1>2, SlotIndexTyped DEF WaveformsInv, Owt!TypeOK
    <2> HIDE DEF virt, ok
    <2>2. gpio_reg' = gpio_reg \/ \E k \in Nat : gpio_reg' = [gpio_reg EXCEPT ![e] = k]
      BY <1>1, <1>2, <2>1
    <2> QED BY <2>1, <2>2
  <1>6. Owt!TypeOK' /\ SlotsKnown' /\ (~moved => Numbered')
    BY <1>1, <1>4, <1>5 DEF WaveformsInv, Owt!TypeOK, SlotsKnown, Numbered, Owt!bin_vars,
                            Owt!store_vars
  <1> QED BY <1>1, <1>4, <1>6 DEF WaveformsInv, Owt!bin_vars

LEMMA WaveformsStep ==
    ASSUME Owt!WaveformsAssumption, WaveformsInv, [Owt!Next]_waveform_vars
    PROVE  WaveformsInv'
  <1>1. CASE Owt!Next
    <2>1. CASE \E c \in Contents : Owt!EnterQueue(c)
      BY <2>1, EnterQueueKept
    <2>2. CASE Owt!Save
      BY <2>2, SaveKept
    <2>3. CASE Owt!Overwrite
      BY <2>3, OverwriteKept
    <2>4. CASE \E e \in Edges : Owt!OverwriteEdge(e)
      BY <2>4, OverwriteEdgeKept
    <2>5. CASE \E i \in Owt!Indices : Owt!TriggerIndex(i)
      BY <2>5, TriggerIndexKept
    <2>6. CASE Owt!TriggerDiag
      BY <2>6, TriggerDiagKept
    <2>7. CASE Owt!TriggerPeak
      BY <2>7, TriggerPeakKept
    <2>8. CASE Owt!FwSwap
      BY <2>8, FwSwapKept
    <2>9. CASE Owt!Recover
      BY <2>9, RecoverKept
    <2>10. CASE \E t \in Tables : Owt!WtFile(t)
      BY <2>10, WtFileKept
    <2>11. CASE \E e \in Edges, i \in Owt!Indices : Owt!GpioIndex(e, i)
      BY <2>11, GpioIndexKept
    <2> QED BY <1>1, <2>1, <2>2, <2>3, <2>4, <2>5, <2>6, <2>7, <2>8, <2>9, <2>10, <2>11 DEF Owt!Next
  <1>2. CASE UNCHANGED waveform_vars
    <2>1. Owt!TypeOK' /\ SlotsKnown' /\ Numbered' = Numbered /\ moved' = moved
      BY <1>2 DEF WaveformsInv, Owt!TypeOK, SlotsKnown, Numbered, waveform_vars
    <2>2. ~moved => SlotsInv'
      BY <1>2, SlotsStay DEF waveform_vars
    <2> QED BY <2>1, <2>2 DEF WaveformsInv
  <1> QED BY <1>1, <1>2

--------------------------------------------------------------------------------
(* Layout of any wavetable *)

(* The words of one waveform more are those of the ones before it, and its own. *)
LEMMA WordsSteps ==
    ASSUME NEW s \in Seq(Nat \ {0})
    PROVE  /\ Owt!Words(s, 0) = 0
           /\ \A i \in 1 .. Len(s) : Owt!Words(s, i) = Owt!Words(s, i - 1) + s[i]
           /\ \A i \in 0 .. Len(s) : Owt!Words(s, i) \in Nat
  <1> DEFINE step == [i \in 1 .. Len(s) |-> [x \in Nat |-> x + s[i]]]
             Sums(f) == f = [i \in 0 .. Len(s) |-> IF i = 0 THEN 0 ELSE f[i - 1] + s[i]]
             words == CHOOSE f : Sums(f)
  <1>1. Len(s) \in Nat /\ \A i \in 1 .. Len(s) : s[i] \in Nat
    OBVIOUS
  <1>2. step \in Steps(Nat, Len(s))
    BY <1>1 DEF Steps
  <1> HIDE DEF words
  <1>3. PICK g \in [0 .. Len(s) -> Nat] :
          g[0] = 0 /\ \A i \in 1 .. Len(s) : g[i] = step[i][g[i - 1]]
    <2> HIDE DEF step
    <2>1. 0 \in Nat
      OBVIOUS
    <2>2. \E g : Iterates(g, Nat, 0, Len(s), step)
      BY <1>1, <1>2, <2>1, Iteration, Zenon
    <2> QED BY <2>2, Zenon DEF Iterates
  <1>4. ASSUME NEW i \in 1 .. Len(s)
        PROVE  g[i] = g[i - 1] + s[i]
    <2>1. i - 1 \in 0 .. Len(s)
      BY <1>1
    <2>2. g[i - 1] \in Nat
      <3> HIDE DEF step
      <3> QED BY <1>3, <2>1
    <2>3. step[i] = [x \in Nat |-> x + s[i]]
      OBVIOUS
    <2>4. step[i][g[i - 1]] = g[i - 1] + s[i]
      BY <2>2, <2>3
    <2> HIDE DEF step
    <2> QED BY <1>3, <2>4
  <1> HIDE DEF step
  <1>5. Sums(g)
    <2>1. \A i \in 0 .. Len(s) : g[i] = IF i = 0 THEN 0 ELSE g[i - 1] + s[i]
      BY <1>1, <1>3, <1>4
    <2> QED BY <1>3, <2>1
  <1>6. Sums(words)
    <2> HIDE DEF Sums
    <2> QED BY <1>5, Zenon DEF words
  <1>7. \A i \in 0 .. Len(s) : Owt!Words(s, i) = words[i]
    BY DEF Owt!Words, words
  <1>8. words[0] = 0 /\ \A i \in 1 .. Len(s) : words[i] = words[i - 1] + s[i]
    <2>1. \A i \in 0 .. Len(s) : words[i] = IF i = 0 THEN 0 ELSE words[i - 1] + s[i]
      BY <1>6, Zenon
    <2>2. \A i \in 1 .. Len(s) : i \in 0 .. Len(s) /\ i # 0
      BY <1>1
    <2>3. 0 \in 0 .. Len(s)
      BY <1>1
    <2> HIDE DEF Sums
    <2> QED BY <2>1, <2>2, <2>3
  <1>9. ASSUME NEW n \in 0 .. Len(s) PROVE words[n] \in Nat
    <2> DEFINE Good == {m \in Nat : m <= Len(s) => words[m] \in Nat}
    <2>1. 0 \in Good
      BY <1>8
    <2>2. ASSUME NEW m \in Nat, m < Len(s), m \in Good PROVE m + 1 \in Good
      <3>1. m + 1 \in 1 .. Len(s) /\ (m + 1) - 1 = m /\ words[m] \in Nat
        BY <1>1, <2>2
      <3>2. words[m + 1] = words[m] + s[m + 1]
        BY <1>8, <3>1
      <3> QED BY <1>1, <3>1, <3>2
    <2> HIDE DEF Good
    <2>3. \A m \in 0 .. Len(s) : m \in Good
      BY <1>1, <2>1, <2>2, Induction
    <2> QED BY <1>1, <2>3 DEF Good
  <1>10. \A i \in 1 .. Len(s) : i - 1 \in 0 .. Len(s) /\ i \in 0 .. Len(s)
    BY <1>1
  <1>11. 0 \in 0 .. Len(s)
    BY <1>1
  <1> QED BY <1>7, <1>8, <1>9, <1>10, <1>11

LEMMA WordsGrow ==
    ASSUME NEW s \in Seq(Nat \ {0}), NEW i \in 0 .. Len(s)
    PROVE  Owt!Words(s, i) <= Owt!Words(s, Len(s))
  <1> DEFINE k == Len(s) - i
             Good == {m \in Nat : m <= k => Owt!Words(s, i) <= Owt!Words(s, i + m)}
  <1>1. Len(s) \in Nat /\ k \in Nat /\ \A n \in 1 .. Len(s) : s[n] \in Nat
    OBVIOUS
  <1>2. 0 \in Good
    BY <1>1, WordsSteps
  <1>3. ASSUME NEW m \in Nat, m < k, m \in Good PROVE m + 1 \in Good
    <2>1. i + (m + 1) \in 1 .. Len(s) /\ (i + (m + 1)) - 1 = i + m /\ i + m \in 0 .. Len(s)
      BY <1>1, <1>3
    <2>2. Owt!Words(s, i + (m + 1)) = Owt!Words(s, i + m) + s[i + (m + 1)]
      BY <2>1, WordsSteps
    <2>3. Owt!Words(s, i + m) \in Nat /\ s[i + (m + 1)] \in Nat /\ Owt!Words(s, i) \in Nat
      BY <1>1, <2>1, WordsSteps
    <2> QED BY <1>3, <2>2, <2>3
  <1> HIDE DEF Good
  <1>4. \A m \in 0 .. k : m \in Good
    BY <1>1, <1>2, <1>3, Induction
  <1>5. k \in Good /\ i + k = Len(s)
    BY <1>1, <1>4
  <1> QED BY <1>1, <1>5 DEF Good

(* What is granted is the most that was asked for and fits. *)
LEMMA GrantedFits ==
    ASSUME Owt!WaveformsAssumption, NEW room \in Int, Owt!AttemptsIn(room) # {}
    PROVE  Owt!Granted(room) \in Nat /\ Owt!Granted(room) <= room
  <1> DEFINE Less == {Want - n : n \in Owt!AttemptsIn(room)}
  <1>1. Want \in Nat /\ Least \in Nat /\ \A n \in Owt!AttemptsIn(room) : n \in Nat /\ n <= Want /\ n <= room
    BY DEF Owt!WaveformsAssumption, Owt!AttemptsIn
  <1>2. Less \subseteq Nat /\ Less # {}
    BY <1>1
  <1>3. PICK x \in Less : \A y \in Less : x <= y
    <2> HIDE DEF Less
    <2> QED BY <1>2, LeastNatural
  <1>4. PICK n \in Owt!AttemptsIn(room) : x = Want - n
    BY <1>3
  <1>5. ASSUME NEW m \in Owt!AttemptsIn(room) PROVE m <= n
    <2>1. x <= Want - m
      BY <1>3
    <2>2. m \in Nat /\ n \in Nat /\ Want \in Nat
      BY <1>1, <1>4
    <2> HIDE DEF Less
    <2> QED BY <1>4, <2>1, <2>2
  <1>6. Owt!Granted(room) \in Owt!AttemptsIn(room)
    BY <1>4, <1>5 DEF Owt!Granted
  <1> QED BY <1>1, <1>6

LEMMA SlotSizeFits ==
    ASSUME NEW granted \in Nat
    PROVE  Owt!SlotSize(granted) \in Int /\ Owt!NumSlots * Owt!SlotSize(granted) <= granted - Owt!Entry * Owt!NumSlots
  BY DEF Owt!SlotSize, Owt!NumSlots, Owt!Entry

(* Where the data of a waveform begins and ends, and where that of the last does *)
LEMMA DataPlaced ==
    ASSUME NEW s \in Seq(Nat \ {0}), NEW j \in 1 .. Len(s)
    PROVE  /\ Owt!Offsets(s)[j] = 3 * Len(s) + 1 + Owt!Words(s, j - 1)
           /\ Owt!Offsets(s)[j] \in Nat /\ s[j] \in Nat /\ Owt!Words(s, Len(s)) \in Nat
           /\ Owt!Offsets(s)[j] + s[j] = 3 * Len(s) + 1 + Owt!Words(s, j)
           /\ Owt!Offsets(s)[j] + s[j] <= Owt!BlockSize(s)
           /\ Owt!BlockSize(s) = 3 * Len(s) + 1 + Owt!Words(s, Len(s))
  <1>1. Len(s) \in Nat /\ s[j] \in Nat /\ j - 1 \in 0 .. Len(s) /\ j \in 0 .. Len(s)
        /\ Len(s) \in 0 .. Len(s)
    OBVIOUS
  <1>2. /\ Owt!Words(s, j - 1) \in Nat /\ Owt!Words(s, j) \in Nat /\ Owt!Words(s, Len(s)) \in Nat
        /\ Owt!Words(s, j) = Owt!Words(s, j - 1) + s[j]
    BY <1>1, WordsSteps
  <1>3. Owt!Words(s, j) <= Owt!Words(s, Len(s))
    BY <1>1, WordsGrow
  <1>4. Owt!Offsets(s)[j] = 3 * Len(s) + 1 + Owt!Words(s, j - 1)
    BY <1>1 DEF Owt!Offsets, Owt!Entry
  <1>5. Owt!BlockSize(s) = 3 * Len(s) + 1 + Owt!Words(s, Len(s))
    BY DEF Owt!BlockSize, Owt!Entry
  <1> QED BY <1>1, <1>2, <1>3, <1>4, <1>5

(* Places in an interval, and three intervals beside each other *)
LEMMA Interval ==
    ASSUME NEW a \in Int, NEW m \in Nat
    PROVE  a .. a + m - 1 = {a + k : k \in 0 .. m - 1}
  <1>1. ASSUME NEW w \in a .. a + m - 1 PROVE w \in {a + k : k \in 0 .. m - 1}
    <2>1. w - a \in 0 .. m - 1 /\ w = a + (w - a)
      OBVIOUS
    <2> QED BY <2>1
  <1>2. ASSUME NEW k \in 0 .. m - 1 PROVE a + k \in a .. a + m - 1
    OBVIOUS
  <1> QED BY <1>1, <1>2

LEMMA ThreeApart ==
    ASSUME NEW at, NEW from \in Int, NEW size \in Int, NEW least \in Int, NEW most \in Int,
           least <= from, from + 3 * size <= most,
           at[1] = from .. from + size - 1,
           at[2] = from + size .. from + size + size - 1,
           at[3] = from + 2 * size .. from + 2 * size + size - 1
    PROVE  /\ \A i \in 1 .. 3 : at[i] \subseteq from .. most - 1
           /\ \A i \in 1 .. 3 : at[i] \subseteq least .. most - 1
           /\ \A i \in 1 .. 3 : \A j \in (1 .. 3) \ {i} : at[i] \cap at[j] = {}
  <1>1. at[1] \subseteq from .. most - 1 /\ at[1] \subseteq least .. most - 1
    OBVIOUS
  <1>2. at[2] \subseteq from .. most - 1 /\ at[2] \subseteq least .. most - 1
    OBVIOUS
  <1>3. at[3] \subseteq from .. most - 1 /\ at[3] \subseteq least .. most - 1
    OBVIOUS
  <1>4. at[1] \cap at[2] = {} /\ at[1] \cap at[3] = {} /\ at[2] \cap at[3] = {}
    OBVIOUS
  <1>5. \A i \in 1 .. 3 : i = 1 \/ i = 2 \/ i = 3
    OBVIOUS
  <1> QED BY <1>1, <1>2, <1>3, <1>4, <1>5

(* The slots of any wavetable lie behind its waveforms, beside each other and within what
   the firmware has room for, and its waveforms are where their entries say
   (cs40l2x_add_wt_slots, cs40l2x_update_wt_header_offsets,
   cs40l2x_insert_comp_wt_header, cs40l2x_copy_waveform_data). *)
LEMMA SlotsPlaced ==
    ASSUME Owt!WaveformsAssumption, Owt!TypeOK
    PROVE  Owt!SlotsApart
  <1> SUFFICES ASSUME Owt!FitsXm PROVE Owt!SlotsApart
    BY DEF Owt!SlotsApart
  <1> DEFINE s == table
             n == Len(s)
             granted == Owt!Granted(Owt!Room)
             size == Owt!SlotSize(granted)
             data == Owt!DataAt(s)
             slots == Owt!SlotAt(s, granted)
             end == Owt!Entry * (n + Owt!NumSlots) + 1
             block == Owt!BlockSize(s)
  <1>1. s \in Seq(Nat \ {0}) /\ n \in Nat /\ n # 0 /\ Space \in Nat
    <2>1. table \in Tables
      BY DEF Owt!TypeOK
    <2> QED BY <2>1 DEF Owt!WaveformsAssumption
  <1>2. \A j \in 1 .. n :
          /\ Owt!Offsets(s)[j] \in Nat /\ s[j] \in Nat
          /\ Owt!Offsets(s)[j] + s[j] <= block
    BY <1>1, DataPlaced
  <1>3. /\ Owt!Offsets(s)[n] + s[n] = block /\ block \in Nat /\ 3 * n + 1 <= block
    BY <1>1, DataPlaced
  <1>4. granted \in Nat /\ granted <= Space - block
    <2>1. Space - block \in Int /\ Owt!Room = Space - block
      BY <1>1, <1>3 DEF Owt!Room
    <2> HIDE DEF block
    <2> QED BY <2>1, GrantedFits DEF Owt!FitsXm
  <1>5. size \in Int /\ 3 * size <= granted - 9
    <2> HIDE DEF granted
    <2> QED BY <1>4, SlotSizeFits DEF Owt!NumSlots, Owt!Entry
  <1>6. end = 3 * n + 10
    BY <1>1 DEF Owt!Entry, Owt!NumSlots
  <1>7. \A j \in 1 .. n : data[j] = (Owt!Offsets(s)[j] + 9) .. (Owt!Offsets(s)[j] + 9 + s[j] - 1)
    BY <1>1 DEF Owt!DataAt, Owt!Entry, Owt!NumSlots
  <1>8. \A j \in 1 .. n : Owt!Moved(Owt!Offsets(s))[j] = Owt!Offsets(s)[j] + 9
    BY <1>1 DEF Owt!Moved, Owt!Offsets, Owt!Entry, Owt!NumSlots
  <1>9. /\ slots[1] = (block + 9) .. (block + 9 + size - 1)
        /\ slots[2] = (block + 9 + size) .. (block + 9 + size + size - 1)
        /\ slots[3] = (block + 9 + 2 * size) .. (block + 9 + 2 * size + size - 1)
    <2>1. \A i \in 1 .. 3 : Owt!SlotOffset(s, size, i) = Owt!Offsets(s)[n] + s[n] + 9 + (i - 1) * size
      BY DEF Owt!SlotOffset, Owt!Entry, Owt!NumSlots
    <2>2. \A i \in 1 .. 3 : Owt!SlotOffset(s, size, i) = block + 9 + (i - 1) * size
      <3> HIDE DEF size, block
      <3> QED BY <1>3, <2>1
    <2>3. \A i \in 1 .. 3 : slots[i] = Owt!SlotOffset(s, size, i) .. (Owt!SlotOffset(s, size, i) + size - 1)
      BY DEF Owt!SlotAt, Owt!NumSlots
    <2> HIDE DEF size, block, slots
    <2>4. /\ Owt!SlotOffset(s, size, 1) = block + 9 /\ Owt!SlotOffset(s, size, 2) = block + 9 + size
          /\ Owt!SlotOffset(s, size, 3) = block + 9 + 2 * size
      BY <1>3, <1>5, <2>2
    <2> QED BY <2>3, <2>4
  <1> HIDE DEF granted, size, data, slots, end, block, n, s
  <1>10. ASSUME NEW j \in 1 .. n
         PROVE  data[j] = {Owt!Moved(Owt!Offsets(s))[j] + k : k \in 0 .. s[j] - 1}
    <2> DEFINE a == Owt!Offsets(s)[j] + 9
    <2>1. a \in Int /\ s[j] \in Nat
      BY <1>2
    <2>2. Owt!Moved(Owt!Offsets(s))[j] = a /\ data[j] = a .. a + s[j] - 1
      BY <1>7, <1>8
    <2> HIDE DEF a
    <2> QED BY <2>1, <2>2, Interval
  <1>11. /\ \A i \in 1 .. 3 : slots[i] \subseteq block + 9 .. Space - 1
         /\ \A i \in 1 .. 3 : slots[i] \subseteq end .. Space - 1
         /\ \A i \in 1 .. 3 : \A j \in (1 .. 3) \ {i} : slots[i] \cap slots[j] = {}
    <2>1. /\ block + 9 \in Int /\ end \in Int /\ end <= block + 9 /\ Space \in Int
          /\ (block + 9) + 3 * size <= Space /\ size \in Int
      BY <1>1, <1>3, <1>4, <1>5, <1>6
    <2> QED BY <1>9, <2>1, ThreeApart
  <1>12. ASSUME NEW i \in 1 .. 3, NEW j \in 1 .. n PROVE slots[i] \cap data[j] = {}
    <2> DEFINE a == Owt!Offsets(s)[j]
               m == s[j]
    <2>1. a \in Nat /\ m \in Nat /\ a + m <= block
      BY <1>2
    <2>2. data[j] = (a + 9) .. (a + 9 + m - 1)
      BY <1>7
    <2> HIDE DEF a, m
    <2>3. \A w \in data[j] : w \in Int /\ w < block + 9
      BY <1>3, <2>1, <2>2
    <2>4. \A w \in slots[i] : w \in Int /\ w >= block + 9
      BY <1>3, <1>11
    <2> QED BY <1>3, <2>3, <2>4
  <1>14. Owt!NumSlots = 3
    BY DEF Owt!NumSlots
  <1> QED BY <1>10, <1>11, <1>12, <1>14 DEF Owt!SlotsApart, data, slots, granted, end, n, s

LEMMA WaveformsSafe ==
    ASSUME Owt!WaveformsAssumption, WaveformsInv
    PROVE  Owt!TypeOK /\ Owt!PlaysSaved /\ Owt!SlotsApart
  <1>1. Owt!TypeOK
    BY DEF WaveformsInv
  <1>2. Owt!PlaysSaved
    BY DEF WaveformsInv, SlotsInv, Holds, Owt!PlaysSaved
  <1>3. Owt!SlotsApart
    BY <1>1, SlotsPlaced
  <1> QED BY <1>1, <1>2, <1>3

--------------------------------------------------------------------------------
(* The TAS256x: what its operations do to the state of the driver and of the chips *)

OldGroup(g) ==
    g \in {Old!LevelRange, Old!BoostRange, Old!LimiterRange, Old!BopRange, Old!SupplyRange,
           Old!ClasshRange, Old!RecieverRange, Old!IcnRange, Old!NoiseRange}

LEMMA OldGroupsAre ==
    /\ DOMAIN Old!Groups = 1..9
    /\ Old!Groups[1] = Old!LevelRange /\ Old!Groups[2] = Old!BoostRange
    /\ Old!Groups[7] = Old!RecieverRange
    /\ \A i \in 1..9 : OldGroup(Old!Groups[i])
  BY DEF Old!Groups, OldGroup

LEMMA OldGroupIs ==
    ASSUME NEW g, OldGroup(g)
    PROVE  /\ {"fmt", "rx_width", "sample_rate", "iv_enable"} \cap DOMAIN g = {}
           /\ \A k \in DOMAIN g : g[k] \subseteq Nat
  BY DEF OldGroup, Old!LevelRange, Old!BoostRange, Old!LimiterRange, Old!BopRange,
         Old!SupplyRange, Old!ClasshRange, Old!RecieverRange, Old!IcnRange, Old!NoiseRange

LEMMA OldControlsAre ==
    /\ {"reciever_enable", "ampoutput_lvl", "rx_mode"} \subseteq Old!Controls
    /\ {"fmt", "rx_width", "sample_rate", "iv_enable"} \cap Old!Controls = {}
  <1>1. \A k : k \in Old!Controls <=> \E i \in 1..9 : k \in DOMAIN Old!Groups[i]
    BY OldGroupsAre DEF Old!Controls
  <1>2. "ampoutput_lvl" \in DOMAIN Old!Groups[2]
    BY OldGroupsAre DEF Old!BoostRange
  <1>3. {"reciever_enable", "rx_mode"} \subseteq DOMAIN Old!Groups[7]
    BY OldGroupsAre DEF Old!RecieverRange
  <1>4. \A i \in 1..9 :
          {"fmt", "rx_width", "sample_rate", "iv_enable"} \cap DOMAIN Old!Groups[i] = {}
    BY OldGroupsAre, OldGroupIs
  <1> QED BY <1>1, <1>2, <1>3, <1>4

LEMMA OldRangesAre ==
    ASSUME NEW k \in Old!Controls, NEW v \in Old!Range[k]
    PROVE  v \in Nat
  <1> DEFINE i == CHOOSE j \in DOMAIN Old!Groups : k \in DOMAIN Old!Groups[j]
  <1>1. \E j \in DOMAIN Old!Groups : k \in DOMAIN Old!Groups[j]
    BY DEF Old!Controls
  <1>2. i \in DOMAIN Old!Groups /\ k \in DOMAIN Old!Groups[i]
    BY <1>1
  <1>3. Old!Range[k] = Old!Groups[i][k]
    BY DEF Old!Range
  <1> HIDE DEF i
  <1>4. OldGroup(Old!Groups[i])
    BY <1>2, OldGroupsAre
  <1> QED BY <1>2, <1>3, <1>4, OldGroupIs

OldKinds == {"error", "off"}
OldModes == {"active", "mute", "shutdown"}
OldChips == [power : {"off", "on", "muted"}, open : BOOLEAN, set : Int]

OldStates ==
    [mn_power_state : OldModes, mb_power_up : BOOLEAN, mb_mute : BOOLEAN, dac_mute : BOOLEAN,
     spk : SUBSET Old!Channels, held : Int, putting : Int, mn_fmt_mode : Int, mn_slots : Int,
     mn_rx_slot_width : Int, mn_tx_slot_width : Int, failsafe : BOOLEAN, mn_restart : Nat,
     chip : [Old!Channels -> OldChips], latched : [Old!Channels -> SUBSET OldKinds],
     irq_enable : BOOLEAN, irq_work : BOOLEAN, init_work : BOOLEAN, dc_work : BOOLEAN,
     pc : {"idle", "config", "power", "end"}, arg : OldModes,
     lost : BOOLEAN, stray : BOOLEAN, hushed : BOOLEAN, quiet : SUBSET Old!Channels,
     stale : SUBSET Old!Channels, missed : BOOLEAN]

(* What no operation on the chips touches *)
OldFixed(t) ==
    <<t.mb_mute, t.dac_mute, t.spk, t.held, t.putting, t.mn_fmt_mode, t.mn_slots,
      t.mn_rx_slot_width, t.mn_tx_slot_width, t.dc_work, t.missed>>
OldMode(t) == <<t.mn_power_state, t.mb_power_up>>
OldFlow(t) == <<t.failsafe, t.mn_restart, t.pc, t.arg>>
OldLine(t) == <<t.irq_enable, t.irq_work>>
OldMarks(t) == <<t.stray, t.hushed, t.quiet>>

LEMMA OldChipPart ==
    ASSUME NEW q \in [Old!Channels -> OldChips], NEW c \in Old!Channels
    PROVE  /\ q[c] = [power |-> q[c].power, open |-> q[c].open, set |-> q[c].set]
           /\ q[c].power \in {"off", "on", "muted"} /\ q[c].open \in BOOLEAN /\ q[c].set \in Int
  <1>1. q[c] \in OldChips
    OBVIOUS
  <1> QED BY <1>1 DEF OldChips

LEMMA OldWithChip ==
    ASSUME NEW t \in OldStates, NEW q \in [Old!Channels -> OldChips]
    PROVE  LET r == [t EXCEPT !.chip = q]
           IN  /\ r \in OldStates /\ r.chip = q
               /\ OldFixed(r) = OldFixed(t) /\ OldMode(r) = OldMode(t) /\ OldFlow(r) = OldFlow(t)
               /\ OldLine(r) = OldLine(t) /\ OldMarks(r) = OldMarks(t)
               /\ r.latched = t.latched /\ r.init_work = t.init_work
               /\ r.lost = t.lost /\ r.stale = t.stale
  BY DEF OldStates, OldFixed, OldMode, OldFlow, OldLine, OldMarks

LEMMA OldSetPower ==
    ASSUME NEW t \in OldStates, NEW s \in SUBSET Old!Channels, NEW p \in {"off", "on", "muted"}
    PROVE  LET r == Old!SetPower(t, s, p)
           IN  /\ r \in OldStates
               /\ \A c \in Old!Channels :
                    /\ r.chip[c].power = IF c \in s THEN p ELSE t.chip[c].power
                    /\ r.chip[c].open = t.chip[c].open /\ r.chip[c].set = t.chip[c].set
               /\ OldFixed(r) = OldFixed(t) /\ OldMode(r) = OldMode(t) /\ OldFlow(r) = OldFlow(t)
               /\ OldLine(r) = OldLine(t) /\ OldMarks(r) = OldMarks(t)
               /\ r.latched = t.latched /\ r.init_work = t.init_work
               /\ r.lost = t.lost /\ r.stale = t.stale
  <1> DEFINE q == [c \in Old!Channels |-> IF c \in s THEN [t.chip[c] EXCEPT !.power = p] ELSE t.chip[c]]
  <1>1. t.chip \in [Old!Channels -> OldChips]
    BY DEF OldStates
  <1>2. /\ q \in [Old!Channels -> OldChips]
        /\ \A c \in Old!Channels :
             /\ q[c].power = IF c \in s THEN p ELSE t.chip[c].power
             /\ q[c].open = t.chip[c].open /\ q[c].set = t.chip[c].set
    BY <1>1, OldChipPart DEF OldChips
  <1>3. Old!SetPower(t, s, p) = [t EXCEPT !.chip = q]
    BY DEF Old!SetPower, Old!Chips
  <1> HIDE DEF q
  <1> QED BY <1>2, <1>3, OldWithChip

LEMMA OldClear ==
    ASSUME NEW t \in OldStates, NEW s \in SUBSET Old!Channels
    PROVE  LET r == Old!InterruptClear(t, s)
           IN  /\ r \in OldStates
               /\ \A c \in Old!Channels : r.latched[c] = IF c \in s THEN {} ELSE t.latched[c]
               /\ OldFixed(r) = OldFixed(t) /\ OldMode(r) = OldMode(t) /\ OldFlow(r) = OldFlow(t)
               /\ OldLine(r) = OldLine(t) /\ OldMarks(r) = OldMarks(t)
               /\ r.chip = t.chip /\ r.init_work = t.init_work
               /\ r.lost = t.lost /\ r.stale = t.stale
  BY DEF Old!InterruptClear, OldStates, OldFixed, OldMode, OldFlow, OldLine, OldMarks

LEMMA OldReport ==
    ASSUME NEW t \in OldStates
    PROVE  LET r == Old!Report(t)
           IN  /\ r \in OldStates
               /\ r.irq_enable = t.irq_enable
               /\ r.irq_work = (t.irq_work \/ (t.irq_enable /\ Old!Pulled(t)))
               /\ OldFixed(r) = OldFixed(t) /\ OldMode(r) = OldMode(t) /\ OldFlow(r) = OldFlow(t)
               /\ OldMarks(r) = OldMarks(t)
               /\ r.chip = t.chip /\ r.latched = t.latched /\ r.init_work = t.init_work
               /\ r.lost = t.lost /\ r.stale = t.stale
  <1> DEFINE b == t.irq_work \/ (t.irq_enable /\ Old!Pulled(t))
  <1>1. b \in BOOLEAN
    BY Zenon
  <1>2. Old!Report(t) = [t EXCEPT !.irq_work = b]
    BY DEF Old!Report, OldStates
  <1> HIDE DEF b
  <1>3. LET r == [t EXCEPT !.irq_work = b]
        IN  /\ r \in OldStates /\ r.irq_enable = t.irq_enable /\ r.irq_work = b
            /\ OldFixed(r) = OldFixed(t) /\ OldMode(r) = OldMode(t) /\ OldFlow(r) = OldFlow(t)
            /\ OldMarks(r) = OldMarks(t)
            /\ r.chip = t.chip /\ r.latched = t.latched /\ r.init_work = t.init_work
            /\ r.lost = t.lost /\ r.stale = t.stale
    BY <1>1 DEF OldStates, OldFixed, OldMode, OldFlow, OldMarks
  <1> QED BY <1>2, <1>3, Zenon DEF b

LEMMA OldEnable ==
    ASSUME NEW t \in OldStates, NEW val \in BOOLEAN, NEW s \in SUBSET Old!Channels
    PROVE  LET r == Old!InterruptEnable(t, val, s)
           IN  /\ r \in OldStates
               /\ \A c \in Old!Channels :
                    /\ r.chip[c].power = t.chip[c].power /\ r.chip[c].set = t.chip[c].set
                    /\ r.chip[c].open = IF c \in s THEN val ELSE t.chip[c].open
               /\ r.irq_enable = t.irq_enable
               /\ r.irq_work = (t.irq_work \/ (t.irq_enable /\ Old!Pulled(r)))
               /\ OldFixed(r) = OldFixed(t) /\ OldMode(r) = OldMode(t) /\ OldFlow(r) = OldFlow(t)
               /\ OldMarks(r) = OldMarks(t)
               /\ r.latched = t.latched /\ r.init_work = t.init_work
               /\ r.lost = t.lost /\ r.stale = t.stale
  <1> DEFINE q == [c \in Old!Channels |-> IF c \in s THEN [t.chip[c] EXCEPT !.open = val] ELSE t.chip[c]]
             u == [t EXCEPT !.chip = q]
  <1>1. t.chip \in [Old!Channels -> OldChips]
    BY DEF OldStates
  <1>2. /\ q \in [Old!Channels -> OldChips]
        /\ \A c \in Old!Channels :
             /\ q[c].power = t.chip[c].power /\ q[c].set = t.chip[c].set
             /\ q[c].open = IF c \in s THEN val ELSE t.chip[c].open
    BY <1>1, OldChipPart DEF OldChips
  <1>3. Old!InterruptEnable(t, val, s) = Old!Report(u)
    BY DEF Old!InterruptEnable, Old!Chips
  <1> HIDE DEF q
  <1>4. /\ u \in OldStates /\ u.chip = q
        /\ OldFixed(u) = OldFixed(t) /\ OldMode(u) = OldMode(t) /\ OldFlow(u) = OldFlow(t)
        /\ OldLine(u) = OldLine(t) /\ OldMarks(u) = OldMarks(t)
        /\ u.latched = t.latched /\ u.init_work = t.init_work
        /\ u.lost = t.lost /\ u.stale = t.stale
    BY <1>2, OldWithChip
  <1>5. u.irq_enable = t.irq_enable /\ u.irq_work = t.irq_work
    BY <1>4 DEF OldLine
  <1> DEFINE r == Old!Report(u)
  <1> HIDE DEF u
  <1>6. /\ r \in OldStates /\ r.irq_enable = u.irq_enable
        /\ r.irq_work = (u.irq_work \/ (u.irq_enable /\ Old!Pulled(u)))
        /\ OldFixed(r) = OldFixed(u) /\ OldMode(r) = OldMode(u) /\ OldFlow(r) = OldFlow(u)
        /\ OldMarks(r) = OldMarks(u)
        /\ r.chip = u.chip /\ r.latched = u.latched /\ r.init_work = u.init_work
        /\ r.lost = u.lost /\ r.stale = u.stale
    BY <1>4, OldReport, Zenon
  <1>7. Old!Pulled(r) = Old!Pulled(u)
    BY <1>6, Zenon DEF Old!Pulled
  <1> HIDE DEF r
  <1>8. Old!InterruptEnable(t, val, s) = r
    BY <1>3, Zenon DEF r
  <1>9. /\ r.irq_work = (t.irq_work \/ (t.irq_enable /\ Old!Pulled(r)))
        /\ r.irq_enable = t.irq_enable
    BY <1>5, <1>6, <1>7, Zenon
  <1>10. \A c \in Old!Channels :
           /\ r.chip[c].power = t.chip[c].power /\ r.chip[c].set = t.chip[c].set
           /\ r.chip[c].open = IF c \in s THEN val ELSE t.chip[c].open
    BY <1>2, <1>4, <1>6, Zenon
  <1> QED BY <1>4, <1>6, <1>8, <1>9, <1>10, Zenon

LEMMA OldEnableIrq ==
    ASSUME NEW t \in OldStates, NEW b \in BOOLEAN
    PROVE  LET r == Old!EnableIrq(t, b)
           IN  /\ r \in OldStates
               /\ r.irq_enable = b
               /\ r.irq_work = (t.irq_work \/ (b /\ Old!Pulled(r)))
               /\ OldFixed(r) = OldFixed(t) /\ OldMode(r) = OldMode(t) /\ OldFlow(r) = OldFlow(t)
               /\ OldMarks(r) = OldMarks(t)
               /\ r.chip = t.chip /\ r.latched = t.latched /\ r.init_work = t.init_work
               /\ r.lost = t.lost /\ r.stale = t.stale
  <1> DEFINE u == [t EXCEPT !.irq_enable = b]
             r == Old!Report(u)
  <1>1. /\ u \in OldStates /\ u.irq_enable = b /\ u.irq_work = t.irq_work
        /\ OldFixed(u) = OldFixed(t) /\ OldMode(u) = OldMode(t) /\ OldFlow(u) = OldFlow(t)
        /\ OldMarks(u) = OldMarks(t)
        /\ u.chip = t.chip /\ u.latched = t.latched /\ u.init_work = t.init_work
        /\ u.lost = t.lost /\ u.stale = t.stale
    BY DEF OldStates, OldFixed, OldMode, OldFlow, OldMarks
  <1> HIDE DEF u
  <1>2. /\ r \in OldStates /\ r.irq_enable = u.irq_enable
        /\ r.irq_work = (u.irq_work \/ (u.irq_enable /\ Old!Pulled(u)))
        /\ OldFixed(r) = OldFixed(u) /\ OldMode(r) = OldMode(u) /\ OldFlow(r) = OldFlow(u)
        /\ OldMarks(r) = OldMarks(u)
        /\ r.chip = u.chip /\ r.latched = u.latched /\ r.init_work = u.init_work
        /\ r.lost = u.lost /\ r.stale = u.stale
    BY <1>1, OldReport, Zenon
  <1>3. Old!Pulled(r) = Old!Pulled(u)
    BY <1>2, Zenon DEF Old!Pulled
  <1>4. Old!EnableIrq(t, b) = r
    BY Zenon DEF Old!EnableIrq, u
  <1> HIDE DEF r
  <1> QED BY <1>1, <1>2, <1>3, <1>4, Zenon

LEMMA OldMasks ==
    ASSUME NEW t \in OldStates
    PROVE  /\ Old!Chn(t) \in SUBSET Old!Channels /\ Old!Reach(t) \in SUBSET Old!Channels
           /\ (t.spk = Old!Channels => Old!Chn(t) = Old!Channels /\ Old!Reach(t) = Old!Channels)
           /\ (t.spk # {} => Old!Chn(t) = t.spk /\ Old!Reach(t) = t.spk)
           /\ 1 \in Old!Channels /\ 2 \in Old!Channels
           /\ \A c \in Old!Channels : c = 1 \/ c = 2
  BY DEF Old!Chn, Old!Reach, Old!Channels, OldStates

LEMMA OldMasksSame ==
    ASSUME NEW t, NEW u, OldFixed(u) = OldFixed(t)
    PROVE  Old!Chn(u) = Old!Chn(t) /\ Old!Reach(u) = Old!Reach(t)
  BY DEF Old!Chn, Old!Reach, OldFixed

OldWrote(r, t, k, v) ==
    /\ r \in OldStates
    /\ \A c \in Old!Channels :
         /\ r.chip[c].power = t.chip[c].power /\ r.chip[c].open = t.chip[c].open
         /\ r.chip[c].set = IF setting_old = k /\ c \in Old!Reach(t) THEN v ELSE t.chip[c].set
    /\ r.stale = IF setting_old = k THEN Old!Channels \ Old!Reach(t) ELSE t.stale
    /\ OldFixed(r) = OldFixed(t) /\ OldMode(r) = OldMode(t) /\ OldFlow(r) = OldFlow(t)
    /\ OldLine(r) = OldLine(t) /\ OldMarks(r) = OldMarks(t)
    /\ r.latched = t.latched /\ r.init_work = t.init_work /\ r.lost = t.lost

LEMMA OldWriteBoth ==
    ASSUME NEW t \in OldStates, NEW k, NEW v \in Int
    PROVE  OldWrote(Old!WriteBoth(t, k, v), t, k, v)
  <1>1. CASE setting_old # k
    BY <1>1 DEF Old!WriteBoth, OldWrote
  <1>2. CASE setting_old = k
    <2> DEFINE q == [c \in Old!Channels |-> IF c \in Old!Reach(t) THEN [t.chip[c] EXCEPT !.set = v] ELSE t.chip[c]]
               u == [t EXCEPT !.chip = q]
               s == (u.stale \ Old!Reach(t)) \cup (Old!Channels \ Old!Reach(t))
    <2>1. t.chip \in [Old!Channels -> OldChips]
      BY DEF OldStates
    <2>2. /\ q \in [Old!Channels -> OldChips]
          /\ \A c \in Old!Channels :
               /\ q[c].power = t.chip[c].power /\ q[c].open = t.chip[c].open
               /\ q[c].set = IF c \in Old!Reach(t) THEN v ELSE t.chip[c].set
      BY <2>1, OldChipPart DEF OldChips
    <2>3. Old!WriteBoth(t, k, v) = [u EXCEPT !.stale = s]
      BY <1>2 DEF Old!WriteBoth, Old!Chips
    <2> HIDE DEF q
    <2>4. /\ u \in OldStates /\ u.chip = q
          /\ OldFixed(u) = OldFixed(t) /\ OldMode(u) = OldMode(t) /\ OldFlow(u) = OldFlow(t)
          /\ OldLine(u) = OldLine(t) /\ OldMarks(u) = OldMarks(t)
          /\ u.latched = t.latched /\ u.init_work = t.init_work
          /\ u.lost = t.lost /\ u.stale = t.stale
      BY <2>2, OldWithChip
    <2>5. s = Old!Channels \ Old!Reach(t)
      <3>1. u.stale \subseteq Old!Channels
        BY <2>4 DEF OldStates
      <3> QED BY <3>1
    <2> HIDE DEF u, s
    <2>6. LET r == [u EXCEPT !.stale = Old!Channels \ Old!Reach(t)]
          IN  /\ r \in OldStates /\ r.chip = u.chip /\ r.stale = Old!Channels \ Old!Reach(t)
              /\ OldFixed(r) = OldFixed(u) /\ OldMode(r) = OldMode(u) /\ OldFlow(r) = OldFlow(u)
              /\ OldLine(r) = OldLine(u) /\ OldMarks(r) = OldMarks(u)
              /\ r.latched = u.latched /\ r.init_work = u.init_work /\ r.lost = u.lost
      BY <2>4 DEF OldStates, OldFixed, OldMode, OldFlow, OldLine, OldMarks
    <2> QED BY <1>2, <2>2, <2>3, <2>4, <2>5, <2>6 DEF OldWrote
  <1> QED BY <1>1, <1>2

OldWroteLeft(r, t, k, v) ==
    /\ r \in OldStates
    /\ \A c \in Old!Channels :
         /\ r.chip[c].power = t.chip[c].power /\ r.chip[c].open = t.chip[c].open
    /\ r.chip[1].set = IF setting_old = k THEN v ELSE t.chip[1].set
    /\ r.chip[2].set = t.chip[2].set
    /\ OldFixed(r) = OldFixed(t) /\ OldMode(r) = OldMode(t) /\ OldFlow(r) = OldFlow(t)
    /\ OldLine(r) = OldLine(t) /\ OldMarks(r) = OldMarks(t)
    /\ r.latched = t.latched /\ r.init_work = t.init_work
    /\ r.lost = t.lost /\ r.stale = t.stale

LEMMA OldWriteLeft ==
    ASSUME NEW t \in OldStates, NEW k, NEW v \in Int
    PROVE  OldWroteLeft(Old!WriteLeft(t, k, v), t, k, v)
  <1>1. CASE setting_old # k
    BY <1>1 DEF Old!WriteLeft, OldWroteLeft
  <1>2. CASE setting_old = k
    <2> DEFINE q == [t.chip EXCEPT ![1].set = v]
    <2>0. 1 \in Old!Channels /\ 2 \in Old!Channels /\ \A c \in Old!Channels : c = 1 \/ c = 2
      BY DEF Old!Channels
    <2>1. t.chip \in [Old!Channels -> OldChips]
      BY DEF OldStates
    <2>2. /\ q \in [Old!Channels -> OldChips]
          /\ \A c \in Old!Channels :
               q[c].power = t.chip[c].power /\ q[c].open = t.chip[c].open
          /\ q[1].set = v /\ q[2].set = t.chip[2].set
      BY <2>0, <2>1, OldChipPart DEF OldChips
    <2>3. Old!WriteLeft(t, k, v) = [t EXCEPT !.chip = q]
      BY <1>2 DEF Old!WriteLeft
    <2> HIDE DEF q
    <2> QED BY <1>2, <2>2, <2>3, OldWithChip DEF OldWroteLeft
  <1> QED BY <1>1, <1>2

(* A line that was pulled stays so, and without a fault it is not. *)
OldLines(r, t) ==
    /\ t.irq_work => r.irq_work
    /\ (\A c \in Old!Channels : t.latched[c] = {}) => r.irq_work = t.irq_work

LEMMA OldNotPulled ==
    ASSUME NEW t, \A c \in Old!Channels : t.latched[c] = {}
    PROVE  Old!Pulled(t) = FALSE
  BY DEF Old!Pulled

LEMMA OldLineKept ==
    ASSUME NEW t \in OldStates, NEW r, NEW e, NEW P,
           r.irq_work = (t.irq_work \/ (e /\ P)),
           (\A c \in Old!Channels : t.latched[c] = {}) => P = FALSE
    PROVE  OldLines(r, t)
  <1>1. t.irq_work \in BOOLEAN
    BY DEF OldStates
  <1>2. ASSUME t.irq_work PROVE r.irq_work
    BY <1>2, Zenon
  <1>3. ASSUME P = FALSE PROVE r.irq_work = t.irq_work
    <2>1. (t.irq_work \/ (e /\ P)) <=> t.irq_work
      BY <1>3, Zenon
    <2>2. (t.irq_work \/ (e /\ P)) = t.irq_work
      BY <1>1, <2>1
    <2> QED BY <2>2
  <1> QED BY <1>2, <1>3, Zenon DEF OldLines

OldActivated(r, t) ==
    /\ r \in OldStates
    /\ \A c \in Old!Channels :
         /\ r.chip[c].power = IF c \in Old!Chn(t) THEN "on" ELSE t.chip[c].power
         /\ (setting_old # "iv_enable" => r.chip[c].set = t.chip[c].set)
         /\ r.latched[c] = IF c \in Old!Chn(t) THEN {} ELSE t.latched[c]
    /\ (setting_old # "iv_enable" => r.stale = t.stale)
    /\ r.lost = (t.lost \/ setting_old = "iv_enable")
    /\ r.mb_power_up = TRUE /\ r.mn_power_state = "active" /\ r.init_work = TRUE
    /\ r.quiet = {} /\ r.hushed = FALSE /\ r.stray = (t.stray \/ ~playing)
    /\ r.irq_enable = t.irq_enable /\ OldLines(r, t)
    /\ OldFixed(r) = OldFixed(t) /\ OldFlow(r) = OldFlow(t)

LEMMA OldActive ==
    ASSUME NEW t \in OldStates, playing \in BOOLEAN
    PROVE  OldActivated(Old!SetPowerActive(t), t)
  <1> DEFINE s == Old!Chn(t)
             a == Old!InterruptClear(t, s)
             u == Old!InterruptEnable(a, FALSE, Old!Reach(t))
             v == Old!WriteBoth(u, "iv_enable", 1)
             w == Old!SetPower(v, s, "on")
             n == w.lost \/ setting_old = "iv_enable"
             y == w.stray \/ ~playing
  <1>1. s \in SUBSET Old!Channels /\ Old!Reach(t) \in SUBSET Old!Channels
    BY OldMasks, Zenon
  <1>2. Old!SetPowerActive(t) =
          [w EXCEPT !.mb_power_up = TRUE, !.mn_power_state = "active", !.init_work = TRUE,
                    !.lost = n, !.quiet = {}, !.hushed = FALSE, !.stray = y]
    BY DEF Old!SetPowerActive
  <1> HIDE DEF s
  <1>3. /\ a \in OldStates
        /\ \A c \in Old!Channels : a.latched[c] = IF c \in s THEN {} ELSE t.latched[c]
        /\ OldFixed(a) = OldFixed(t) /\ OldMode(a) = OldMode(t) /\ OldFlow(a) = OldFlow(t)
        /\ OldLine(a) = OldLine(t) /\ OldMarks(a) = OldMarks(t)
        /\ a.chip = t.chip /\ a.init_work = t.init_work /\ a.lost = t.lost /\ a.stale = t.stale
    BY <1>1, OldClear
  <1> HIDE DEF a
  <1>4. /\ u \in OldStates
        /\ \A c \in Old!Channels :
             /\ u.chip[c].power = a.chip[c].power /\ u.chip[c].set = a.chip[c].set
             /\ u.chip[c].open = IF c \in Old!Reach(t) THEN FALSE ELSE a.chip[c].open
        /\ u.irq_enable = a.irq_enable
        /\ u.irq_work = (a.irq_work \/ (a.irq_enable /\ Old!Pulled(u)))
        /\ OldFixed(u) = OldFixed(a) /\ OldMode(u) = OldMode(a) /\ OldFlow(u) = OldFlow(a)
        /\ OldMarks(u) = OldMarks(a)
        /\ u.latched = a.latched /\ u.init_work = a.init_work
        /\ u.lost = a.lost /\ u.stale = a.stale
    BY <1>1, <1>3, OldEnable, Zenon
  <1> HIDE DEF u
  <1>5. /\ v \in OldStates
        /\ \A c \in Old!Channels :
             /\ v.chip[c].power = u.chip[c].power
             /\ (setting_old # "iv_enable" => v.chip[c].set = u.chip[c].set)
        /\ (setting_old # "iv_enable" => v.stale = u.stale)
        /\ OldFixed(v) = OldFixed(u) /\ OldMode(v) = OldMode(u) /\ OldFlow(v) = OldFlow(u)
        /\ OldLine(v) = OldLine(u) /\ OldMarks(v) = OldMarks(u)
        /\ v.latched = u.latched /\ v.init_work = u.init_work /\ v.lost = u.lost
    <2>1. 1 \in Int
      OBVIOUS
    <2>2. OldWrote(v, u, "iv_enable", 1)
      BY <1>4, <2>1, OldWriteBoth, Zenon
    <2> HIDE DEF v
    <2> QED BY <2>2 DEF OldWrote
  <1> HIDE DEF v
  <1>6. /\ w \in OldStates
        /\ \A c \in Old!Channels :
             /\ w.chip[c].power = IF c \in s THEN "on" ELSE v.chip[c].power
             /\ w.chip[c].set = v.chip[c].set
        /\ OldFixed(w) = OldFixed(v) /\ OldMode(w) = OldMode(v) /\ OldFlow(w) = OldFlow(v)
        /\ OldLine(w) = OldLine(v) /\ OldMarks(w) = OldMarks(v)
        /\ w.latched = v.latched /\ w.init_work = v.init_work
        /\ w.lost = v.lost /\ w.stale = v.stale
    BY <1>1, <1>5, OldSetPower
  <1> HIDE DEF w
  <1>7. n \in BOOLEAN /\ y \in BOOLEAN
    BY Zenon
  <1>8. LET r == [w EXCEPT !.mb_power_up = TRUE, !.mn_power_state = "active", !.init_work = TRUE,
                           !.lost = n, !.quiet = {}, !.hushed = FALSE, !.stray = y]
        IN  /\ r \in OldStates /\ r.chip = w.chip /\ r.latched = w.latched
            /\ r.stale = w.stale /\ r.lost = n /\ r.stray = y
            /\ r.mb_power_up = TRUE /\ r.mn_power_state = "active" /\ r.init_work = TRUE
            /\ r.quiet = {} /\ r.hushed = FALSE
            /\ OldFixed(r) = OldFixed(w) /\ OldFlow(r) = OldFlow(w) /\ OldLine(r) = OldLine(w)
    <2> HIDE DEF n, y
    <2> DEFINE x == [w EXCEPT !.mb_power_up = TRUE, !.mn_power_state = "active", !.init_work = TRUE]
    <2>1. /\ x \in OldStates /\ x.chip = w.chip /\ x.latched = w.latched /\ x.stale = w.stale
          /\ x.mb_power_up = TRUE /\ x.mn_power_state = "active" /\ x.init_work = TRUE
          /\ OldFixed(x) = OldFixed(w) /\ OldFlow(x) = OldFlow(w) /\ OldLine(x) = OldLine(w)
      BY <1>6 DEF OldStates, OldFixed, OldFlow, OldLine, OldModes
    <2> DEFINE z == [x EXCEPT !.lost = n, !.quiet = {}]
    <2>2. [w EXCEPT !.mb_power_up = TRUE, !.mn_power_state = "active", !.init_work = TRUE,
                    !.lost = n, !.quiet = {}, !.hushed = FALSE, !.stray = y]
            = [z EXCEPT !.hushed = FALSE, !.stray = y]
      BY Zenon
    <2> HIDE DEF x
    <2>3. /\ z \in OldStates /\ z.chip = x.chip /\ z.latched = x.latched
          /\ z.stale = x.stale /\ z.lost = n /\ z.quiet = {}
          /\ z.mb_power_up = x.mb_power_up /\ z.mn_power_state = x.mn_power_state
          /\ z.init_work = x.init_work
          /\ OldFixed(z) = OldFixed(x) /\ OldFlow(z) = OldFlow(x) /\ OldLine(z) = OldLine(x)
      BY <1>7, <2>1, ZenonT(60) DEF OldStates, OldFixed, OldFlow, OldLine
    <2> HIDE DEF z
    <2>4. LET r == [z EXCEPT !.hushed = FALSE, !.stray = y]
          IN  /\ r \in OldStates /\ r.chip = z.chip /\ r.latched = z.latched
              /\ r.stale = z.stale /\ r.lost = z.lost /\ r.stray = y
              /\ r.mb_power_up = z.mb_power_up /\ r.mn_power_state = z.mn_power_state
              /\ r.init_work = z.init_work /\ r.quiet = z.quiet /\ r.hushed = FALSE
              /\ OldFixed(r) = OldFixed(z) /\ OldFlow(r) = OldFlow(z) /\ OldLine(r) = OldLine(z)
      BY <1>7, <2>3, ZenonT(60) DEF OldStates, OldFixed, OldFlow, OldLine
    <2> DEFINE r == [w EXCEPT !.mb_power_up = TRUE, !.mn_power_state = "active", !.init_work = TRUE,
                              !.lost = n, !.quiet = {}, !.hushed = FALSE, !.stray = y]
    <2>5. /\ r \in OldStates /\ r.chip = z.chip /\ r.latched = z.latched
          /\ r.stale = z.stale /\ r.lost = z.lost /\ r.stray = y
          /\ r.mb_power_up = z.mb_power_up /\ r.mn_power_state = z.mn_power_state
          /\ r.init_work = z.init_work /\ r.quiet = z.quiet /\ r.hushed = FALSE
          /\ OldFixed(r) = OldFixed(z) /\ OldFlow(r) = OldFlow(z) /\ OldLine(r) = OldLine(z)
      BY <2>2, <2>4, Zenon
    <2> HIDE DEF r
    <2>6. /\ r \in OldStates /\ r.chip = w.chip /\ r.latched = w.latched
          /\ r.stale = w.stale /\ r.lost = n /\ r.stray = y
          /\ r.mb_power_up = TRUE /\ r.mn_power_state = "active" /\ r.init_work = TRUE
          /\ r.quiet = {} /\ r.hushed = FALSE
          /\ OldFixed(r) = OldFixed(w) /\ OldFlow(r) = OldFlow(w) /\ OldLine(r) = OldLine(w)
      BY <2>1, <2>3, <2>5, Zenon
    <2> QED BY <2>6, Zenon DEF r
  <1> DEFINE r == Old!SetPowerActive(t)
  <1> HIDE DEF n, y
  <1>9. /\ r \in OldStates /\ r.chip = w.chip /\ r.latched = w.latched
        /\ r.stale = w.stale /\ r.lost = n /\ r.stray = y
        /\ r.mb_power_up = TRUE /\ r.mn_power_state = "active" /\ r.init_work = TRUE
        /\ r.quiet = {} /\ r.hushed = FALSE
        /\ OldFixed(r) = OldFixed(w) /\ OldFlow(r) = OldFlow(w) /\ OldLine(r) = OldLine(w)
    BY <1>2, <1>8, Zenon
  <1> HIDE DEF r
  <1>10. n = (t.lost \/ setting_old = "iv_enable") /\ y = (t.stray \/ ~playing)
    <2>1. w.lost = t.lost
      BY <1>3, <1>4, <1>5, <1>6, Zenon
    <2>2. OldMarks(w) = OldMarks(t)
      BY <1>3, <1>4, <1>5, <1>6, Zenon
    <2>3. w.stray = t.stray
      BY <2>2 DEF OldMarks
    <2> QED BY <2>1, <2>3, Zenon DEF n, y
  <1>11. r.irq_enable = t.irq_enable /\ OldLines(r, t)
    <2>1. a.irq_enable = t.irq_enable /\ a.irq_work = t.irq_work
      BY <1>3 DEF OldLine
    <2>2. r.irq_enable = u.irq_enable /\ r.irq_work = u.irq_work
      BY <1>5, <1>6, <1>9 DEF OldLine
    <2>3. ASSUME \A c \in Old!Channels : t.latched[c] = {}
          PROVE  Old!Pulled(u) = FALSE
      <3>1. \A c \in Old!Channels : u.latched[c] = {}
        BY <1>3, <1>4, <2>3
      <3> QED BY <3>1, OldNotPulled
    <2>4. r.irq_work = (t.irq_work \/ (a.irq_enable /\ Old!Pulled(u)))
      BY <1>4, <2>1, <2>2, Zenon
    <2>5. OldLines(r, t)
      BY <2>3, <2>4, OldLineKept
    <2> QED BY <1>4, <2>1, <2>2, <2>5, Zenon
  <1>12. \A c \in Old!Channels :
           /\ r.chip[c].power = IF c \in s THEN "on" ELSE t.chip[c].power
           /\ (setting_old # "iv_enable" => r.chip[c].set = t.chip[c].set)
           /\ r.latched[c] = IF c \in s THEN {} ELSE t.latched[c]
    <2> TAKE c \in Old!Channels
    <2>1. r.chip[c] = w.chip[c] /\ r.latched = w.latched
      BY <1>9, Zenon
    <2>2. w.chip[c].power = (IF c \in s THEN "on" ELSE v.chip[c].power) /\ w.chip[c].set = v.chip[c].set
      BY <1>6
    <2>3. v.chip[c].power = u.chip[c].power /\ (setting_old # "iv_enable" => v.chip[c].set = u.chip[c].set)
      BY <1>5
    <2>4. u.chip[c].power = t.chip[c].power /\ u.chip[c].set = t.chip[c].set
      BY <1>3, <1>4
    <2>5. w.latched = a.latched /\ a.latched[c] = IF c \in s THEN {} ELSE t.latched[c]
      BY <1>3, <1>4, <1>5, <1>6
    <2> QED BY <2>1, <2>2, <2>3, <2>4, <2>5
  <1>13. setting_old # "iv_enable" => r.stale = t.stale
    BY <1>3, <1>4, <1>5, <1>6, <1>9, Zenon
  <1>14. OldFixed(r) = OldFixed(t) /\ OldFlow(r) = OldFlow(t)
    BY <1>3, <1>4, <1>5, <1>6, <1>9, Zenon
  <1> QED BY <1>9, <1>10, <1>11, <1>12, <1>13, <1>14, Zenon DEF r, s, OldActivated

OldMuted(r, t) ==
    /\ r \in OldStates
    /\ \A c \in Old!Channels :
         /\ r.chip[c].power = IF c \in Old!Chn(t) THEN "muted" ELSE t.chip[c].power
         /\ r.chip[c].set = t.chip[c].set
    /\ r.latched = t.latched /\ r.stale = t.stale /\ r.lost = t.lost
    /\ r.mb_power_up = TRUE /\ r.mn_power_state = "mute" /\ r.init_work = t.init_work
    /\ OldMarks(r) = OldMarks(t)
    /\ r.irq_enable = t.irq_enable /\ OldLines(r, t)
    /\ OldFixed(r) = OldFixed(t) /\ OldFlow(r) = OldFlow(t)

LEMMA OldMute ==
    ASSUME NEW t \in OldStates
    PROVE  OldMuted(Old!SetPowerMute(t), t)
  <1> DEFINE s == Old!Chn(t)
             a == Old!SetPower(t, s, "muted")
             u == Old!InterruptEnable(a, FALSE, s)
  <1>1. s \in SUBSET Old!Channels
    BY OldMasks, Zenon
  <1>2. Old!SetPowerMute(t) = [u EXCEPT !.mb_power_up = TRUE, !.mn_power_state = "mute"]
    BY DEF Old!SetPowerMute
  <1> HIDE DEF s
  <1>3. /\ a \in OldStates
        /\ \A c \in Old!Channels :
             /\ a.chip[c].power = IF c \in s THEN "muted" ELSE t.chip[c].power
             /\ a.chip[c].set = t.chip[c].set
        /\ OldFixed(a) = OldFixed(t) /\ OldMode(a) = OldMode(t) /\ OldFlow(a) = OldFlow(t)
        /\ OldLine(a) = OldLine(t) /\ OldMarks(a) = OldMarks(t)
        /\ a.latched = t.latched /\ a.init_work = t.init_work
        /\ a.lost = t.lost /\ a.stale = t.stale
    BY <1>1, OldSetPower
  <1> HIDE DEF a
  <1>4. /\ u \in OldStates
        /\ \A c \in Old!Channels :
             /\ u.chip[c].power = a.chip[c].power /\ u.chip[c].set = a.chip[c].set
             /\ u.chip[c].open = IF c \in s THEN FALSE ELSE a.chip[c].open
        /\ u.irq_enable = a.irq_enable
        /\ u.irq_work = (a.irq_work \/ (a.irq_enable /\ Old!Pulled(u)))
        /\ OldFixed(u) = OldFixed(a) /\ OldMode(u) = OldMode(a) /\ OldFlow(u) = OldFlow(a)
        /\ OldMarks(u) = OldMarks(a)
        /\ u.latched = a.latched /\ u.init_work = a.init_work
        /\ u.lost = a.lost /\ u.stale = a.stale
    BY <1>1, <1>3, OldEnable, ZenonT(60)
  <1> HIDE DEF u
  <1>5. LET r == [u EXCEPT !.mb_power_up = TRUE, !.mn_power_state = "mute"]
        IN  /\ r \in OldStates /\ r.chip = u.chip /\ r.latched = u.latched
            /\ r.stale = u.stale /\ r.lost = u.lost /\ r.init_work = u.init_work
            /\ r.mb_power_up = TRUE /\ r.mn_power_state = "mute"
            /\ OldFixed(r) = OldFixed(u) /\ OldFlow(r) = OldFlow(u) /\ OldLine(r) = OldLine(u)
            /\ OldMarks(r) = OldMarks(u)
    BY <1>4 DEF OldStates, OldFixed, OldFlow, OldLine, OldMarks, OldModes
  <1> DEFINE r == Old!SetPowerMute(t)
  <1>6. /\ r \in OldStates /\ r.chip = u.chip /\ r.latched = u.latched
        /\ r.stale = u.stale /\ r.lost = u.lost /\ r.init_work = u.init_work
        /\ r.mb_power_up = TRUE /\ r.mn_power_state = "mute"
        /\ OldFixed(r) = OldFixed(u) /\ OldFlow(r) = OldFlow(u) /\ OldLine(r) = OldLine(u)
        /\ OldMarks(r) = OldMarks(u)
    BY <1>2, <1>5, Zenon
  <1> HIDE DEF r
  <1>7. r.irq_enable = t.irq_enable /\ OldLines(r, t)
    <2>1. a.irq_enable = t.irq_enable /\ a.irq_work = t.irq_work
      BY <1>3 DEF OldLine
    <2>2. r.irq_enable = u.irq_enable /\ r.irq_work = u.irq_work
      BY <1>6 DEF OldLine
    <2>3. (\A c \in Old!Channels : t.latched[c] = {}) => Old!Pulled(u) = FALSE
      BY <1>3, <1>4, OldNotPulled, Zenon
    <2>4. r.irq_work = (t.irq_work \/ (a.irq_enable /\ Old!Pulled(u)))
      BY <1>4, <2>1, <2>2, Zenon
    <2>5. OldLines(r, t)
      BY <2>3, <2>4, OldLineKept
    <2> QED BY <1>4, <2>1, <2>2, <2>5, Zenon
  <1>8. \A c \in Old!Channels :
          /\ r.chip[c].power = IF c \in s THEN "muted" ELSE t.chip[c].power
          /\ r.chip[c].set = t.chip[c].set
    BY <1>3, <1>4, <1>6
  <1>9. /\ r.latched = t.latched /\ r.stale = t.stale /\ r.lost = t.lost
        /\ r.init_work = t.init_work /\ OldMarks(r) = OldMarks(t)
        /\ OldFixed(r) = OldFixed(t) /\ OldFlow(r) = OldFlow(t)
    BY <1>3, <1>4, <1>6, Zenon
  <1> QED BY <1>6, <1>7, <1>8, <1>9, Zenon DEF r, s, OldMuted

OldShut(r, t) ==
    /\ r \in OldStates
    /\ \A c \in Old!Channels :
         /\ (c \in Old!Chn(t) => r.chip[c].power # "on")
         /\ (c \notin Old!Chn(t) => r.chip[c].power = t.chip[c].power)
         /\ r.chip[c].set = t.chip[c].set
    /\ r.latched = t.latched /\ r.stale = t.stale
    /\ r.lost = (t.lost \/ setting_old = "iv_enable")
    /\ r.mb_power_up = FALSE /\ r.mn_power_state = "shutdown"
    /\ r.init_work = t.init_work
    /\ r.stray = FALSE /\ r.hushed = t.hushed /\ r.quiet = t.quiet
    /\ r.irq_enable = FALSE /\ OldLines(r, t)
    /\ OldFixed(r) = OldFixed(t) /\ OldFlow(r) = OldFlow(t)

LEMMA OldShutdown ==
    ASSUME NEW t \in OldStates
    PROVE  OldShut(Old!SetPowerShutdown(t), t)
  <1> DEFINE s == Old!Chn(t)
             b == Old!SetPower(t, s \ Tas2564, "off")
             a == Old!SetPower(b, s \cap Tas2564, "muted")
             u == Old!InterruptEnable(a, FALSE, s)
             w == Old!EnableIrq(u, FALSE)
             n == w.lost \/ setting_old = "iv_enable"
  <1>1. s \in SUBSET Old!Channels /\ s \ Tas2564 \in SUBSET Old!Channels
        /\ s \cap Tas2564 \in SUBSET Old!Channels
    BY OldMasks
  <1>2. Old!SetPowerShutdown(t) =
          [w EXCEPT !.mb_power_up = FALSE, !.mn_power_state = "shutdown", !.stray = FALSE,
                    !.lost = n]
    <2>1. Old!Chn(a) = s
      BY DEF a, b, Old!SetPower, Old!Chips, Old!Chn
    <2> QED BY <2>1 DEF Old!SetPowerShutdown
  <1> HIDE DEF s
  <1>3. /\ b \in OldStates
        /\ \A c \in Old!Channels :
             /\ b.chip[c].power = IF c \in s \ Tas2564 THEN "off" ELSE t.chip[c].power
             /\ b.chip[c].set = t.chip[c].set
        /\ OldFixed(b) = OldFixed(t) /\ OldFlow(b) = OldFlow(t)
        /\ OldLine(b) = OldLine(t) /\ OldMarks(b) = OldMarks(t)
        /\ b.latched = t.latched /\ b.init_work = t.init_work
        /\ b.lost = t.lost /\ b.stale = t.stale
    BY <1>1, OldSetPower
  <1> HIDE DEF b
  <1>4. /\ a \in OldStates
        /\ \A c \in Old!Channels :
             /\ a.chip[c].power = IF c \in s \cap Tas2564 THEN "muted" ELSE b.chip[c].power
             /\ a.chip[c].set = b.chip[c].set
        /\ OldFixed(a) = OldFixed(b) /\ OldFlow(a) = OldFlow(b)
        /\ OldLine(a) = OldLine(b) /\ OldMarks(a) = OldMarks(b)
        /\ a.latched = b.latched /\ a.init_work = b.init_work
        /\ a.lost = b.lost /\ a.stale = b.stale
    BY <1>1, <1>3, OldSetPower
  <1> HIDE DEF a
  <1>5. /\ u \in OldStates
        /\ \A c \in Old!Channels :
             /\ u.chip[c].power = a.chip[c].power /\ u.chip[c].set = a.chip[c].set
             /\ u.chip[c].open = IF c \in s THEN FALSE ELSE a.chip[c].open
        /\ u.irq_enable = a.irq_enable
        /\ u.irq_work = (a.irq_work \/ (a.irq_enable /\ Old!Pulled(u)))
        /\ OldFixed(u) = OldFixed(a) /\ OldMode(u) = OldMode(a) /\ OldFlow(u) = OldFlow(a)
        /\ OldMarks(u) = OldMarks(a)
        /\ u.latched = a.latched /\ u.init_work = a.init_work
        /\ u.lost = a.lost /\ u.stale = a.stale
    BY <1>1, <1>4, OldEnable, ZenonT(60)
  <1> HIDE DEF u
  <1>6. /\ w \in OldStates /\ w.irq_enable = FALSE
        /\ w.irq_work = (u.irq_work \/ (FALSE /\ Old!Pulled(w)))
        /\ OldFixed(w) = OldFixed(u) /\ OldFlow(w) = OldFlow(u) /\ OldMarks(w) = OldMarks(u)
        /\ w.chip = u.chip /\ w.latched = u.latched /\ w.init_work = u.init_work
        /\ w.lost = u.lost /\ w.stale = u.stale
    BY <1>5, OldEnableIrq, Zenon
  <1> HIDE DEF w
  <1>7. n \in BOOLEAN
    BY Zenon
  <1>8. LET r == [w EXCEPT !.mb_power_up = FALSE, !.mn_power_state = "shutdown",
                           !.stray = FALSE, !.lost = n]
        IN  /\ r \in OldStates /\ r.chip = w.chip /\ r.latched = w.latched
            /\ r.stale = w.stale /\ r.lost = n /\ r.init_work = w.init_work
            /\ r.mb_power_up = FALSE /\ r.mn_power_state = "shutdown"
            /\ r.stray = FALSE /\ r.hushed = w.hushed /\ r.quiet = w.quiet
            /\ OldFixed(r) = OldFixed(w) /\ OldFlow(r) = OldFlow(w) /\ OldLine(r) = OldLine(w)
    <2> HIDE DEF n
    <2> QED BY <1>6, <1>7, ZenonT(60) DEF OldStates, OldFixed, OldFlow, OldLine, OldModes
  <1> DEFINE r == Old!SetPowerShutdown(t)
  <1> HIDE DEF n
  <1>9. /\ r \in OldStates /\ r.chip = w.chip /\ r.latched = w.latched
        /\ r.stale = w.stale /\ r.lost = n /\ r.init_work = w.init_work
        /\ r.mb_power_up = FALSE /\ r.mn_power_state = "shutdown"
        /\ r.stray = FALSE /\ r.hushed = w.hushed /\ r.quiet = w.quiet
        /\ OldFixed(r) = OldFixed(w) /\ OldFlow(r) = OldFlow(w) /\ OldLine(r) = OldLine(w)
    BY <1>2, <1>8, Zenon
  <1> HIDE DEF r
  <1>10. n = (t.lost \/ setting_old = "iv_enable")
    BY <1>3, <1>4, <1>5, <1>6, Zenon DEF n
  <1>11. r.irq_enable = FALSE /\ OldLines(r, t)
    <2>1. a.irq_work = t.irq_work
      BY <1>3, <1>4 DEF OldLine
    <2>2. r.irq_enable = w.irq_enable /\ r.irq_work = w.irq_work
      BY <1>9 DEF OldLine
    <2>3. (\A c \in Old!Channels : t.latched[c] = {}) => Old!Pulled(u) = FALSE
      BY <1>3, <1>4, <1>5, OldNotPulled, Zenon
    <2>4. w.irq_work = u.irq_work
      <3>1. u.irq_work \in BOOLEAN
        BY <1>5 DEF OldStates
      <3> QED BY <1>6, <3>1
    <2>5. r.irq_work = (t.irq_work \/ (a.irq_enable /\ Old!Pulled(u)))
      BY <1>5, <2>1, <2>2, <2>4, Zenon
    <2>6. OldLines(r, t)
      BY <2>3, <2>5, OldLineKept
    <2> QED BY <1>6, <2>2, <2>6, Zenon
  <1>12. \A c \in Old!Channels :
           /\ (c \in s => r.chip[c].power # "on")
           /\ (c \notin s => r.chip[c].power = t.chip[c].power)
           /\ r.chip[c].set = t.chip[c].set
    <2> TAKE c \in Old!Channels
    <2>1. r.chip[c] = u.chip[c]
      BY <1>6, <1>9, Zenon
    <2>2. u.chip[c].power = a.chip[c].power /\ u.chip[c].set = a.chip[c].set
      BY <1>5
    <2>3. /\ a.chip[c].power = IF c \in s \cap Tas2564 THEN "muted" ELSE b.chip[c].power
          /\ a.chip[c].set = b.chip[c].set
      BY <1>4
    <2>4. /\ b.chip[c].power = IF c \in s \ Tas2564 THEN "off" ELSE t.chip[c].power
          /\ b.chip[c].set = t.chip[c].set
      BY <1>3
    <2> QED BY <2>1, <2>2, <2>3, <2>4
  <1>13. r.hushed = t.hushed /\ r.quiet = t.quiet
    BY <1>3, <1>4, <1>5, <1>6, <1>9 DEF OldMarks
  <1>14. /\ r.latched = t.latched /\ r.stale = t.stale /\ r.init_work = t.init_work
         /\ OldFixed(r) = OldFixed(t) /\ OldFlow(r) = OldFlow(t)
    BY <1>3, <1>4, <1>5, <1>6, <1>9, Zenon
  <1> QED BY <1>9, <1>10, <1>11, <1>12, <1>13, <1>14, Zenon DEF r, s, OldShut

(* A device with both channels switched on *)
OldStated(r, t, s) ==
    /\ r \in OldStates /\ OldFixed(r) = OldFixed(t) /\ OldFlow(r) = OldFlow(t)
    /\ r.mn_power_state = IF s = "active" /\ t.mb_mute THEN "mute" ELSE s
    /\ r.mb_power_up = (r.mn_power_state # "shutdown")
    /\ \A c \in Old!Channels :
         /\ r.chip[c].power = "on" <=> r.mn_power_state = "active"
         /\ (t.latched[c] = {} => r.latched[c] = {})
    /\ setting_old # "iv_enable" =>
         /\ \A c \in Old!Channels : r.chip[c].set = t.chip[c].set
         /\ r.stale = t.stale /\ r.lost = t.lost
    /\ setting_old = "iv_enable" => r.mn_power_state = "mute" \/ r.lost
    /\ t.lost => r.lost
    /\ r.mn_power_state = "active" =>
         /\ r.quiet = {} /\ r.hushed = FALSE /\ r.stray = (t.stray \/ ~playing)
         /\ r.init_work = TRUE /\ r.irq_enable = t.irq_enable
    /\ r.mn_power_state # "active" => r.hushed = t.hushed /\ r.init_work = t.init_work
    /\ r.mn_power_state = "mute" => r.irq_enable = t.irq_enable /\ r.stray = t.stray
    /\ OldLines(r, t)

LEMMA OldState ==
    ASSUME NEW t \in OldStates, NEW s \in OldModes, t.spk = Old!Channels, playing \in BOOLEAN
    PROVE  OldStated(Old!SetPowerState(t, s), t, s)
  <1>1. Old!Chn(t) = Old!Channels
    BY OldMasks
  <1>2. CASE s = "active" /\ ~t.mb_mute
    <2> DEFINE r == Old!SetPowerActive(t)
    <2>1. OldActivated(r, t)
      BY OldActive, Zenon
    <2>2. Old!SetPowerState(t, s) = r
      BY <1>2 DEF Old!SetPowerState
    <2> HIDE DEF r
    <2>3. /\ r \in OldStates /\ OldFixed(r) = OldFixed(t) /\ OldFlow(r) = OldFlow(t)
          /\ OldLines(r, t) /\ r.mb_power_up = TRUE /\ r.mn_power_state = "active"
          /\ r.init_work = TRUE /\ r.quiet = {} /\ r.hushed = FALSE
          /\ r.stray = (t.stray \/ ~playing) /\ r.irq_enable = t.irq_enable
          /\ r.lost = (t.lost \/ setting_old = "iv_enable")
          /\ (setting_old # "iv_enable" => r.stale = t.stale)
      BY <2>1, Zenon DEF OldActivated
    <2>4. \A c \in Old!Channels :
            /\ r.chip[c].power = "on" /\ r.latched[c] = {}
            /\ (setting_old # "iv_enable" => r.chip[c].set = t.chip[c].set)
      BY <1>1, <2>1 DEF OldActivated
    <2>5. setting_old # "iv_enable" => r.lost = t.lost
      BY <2>3 DEF OldStates
    <2> QED BY <1>2, <2>2, <2>3, <2>4, <2>5 DEF OldStated
  <1>3. CASE s = "mute" \/ (s = "active" /\ t.mb_mute)
    <2> DEFINE r == Old!SetPowerMute(t)
    <2>1. OldMuted(r, t)
      BY OldMute, Zenon
    <2>2. Old!SetPowerState(t, s) = r
      BY <1>3 DEF Old!SetPowerState
    <2> HIDE DEF r
    <2>3. r.hushed = t.hushed /\ r.stray = t.stray
      BY <2>1 DEF OldMuted, OldMarks
    <2> QED BY <1>1, <1>3, <2>1, <2>2, <2>3 DEF OldMuted, OldStated
  <1>4. CASE s = "shutdown"
    <2> DEFINE r == Old!SetPowerShutdown(t)
    <2>1. OldShut(r, t)
      BY OldShutdown, Zenon
    <2>2. Old!SetPowerState(t, s) = r
      BY <1>4 DEF Old!SetPowerState
    <2> HIDE DEF r
    <2>3. /\ r \in OldStates /\ OldFixed(r) = OldFixed(t) /\ OldFlow(r) = OldFlow(t)
          /\ OldLines(r, t) /\ r.mb_power_up = FALSE /\ r.mn_power_state = "shutdown"
          /\ r.init_work = t.init_work /\ r.hushed = t.hushed
          /\ r.lost = (t.lost \/ setting_old = "iv_enable") /\ r.stale = t.stale
          /\ r.latched = t.latched
      BY <2>1, Zenon DEF OldShut
    <2>4. \A c \in Old!Channels : r.chip[c].power # "on" /\ r.chip[c].set = t.chip[c].set
      BY <1>1, <2>1 DEF OldShut
    <2>5. setting_old # "iv_enable" => r.lost = t.lost
      BY <2>3 DEF OldStates
    <2> QED BY <1>4, <2>2, <2>3, <2>4, <2>5 DEF OldStated
  <1> QED BY <1>2, <1>3, <1>4 DEF OldModes

--------------------------------------------------------------------------------
(* What a reset forgets and what is written again, with both channels switched on *)

OldEmptied(r, t) ==
    /\ r \in OldStates /\ OldFixed(r) = OldFixed(t) /\ OldMode(r) = OldMode(t)
    /\ \A c \in Old!Channels :
         r.chip[c].power = "off" /\ r.chip[c].set = Old!Unset /\ r.latched[c] = {}
    /\ r.stale \subseteq t.stale
    /\ r.pc = t.pc /\ r.arg = t.arg /\ r.mn_restart = t.mn_restart
    /\ OldLine(r) = OldLine(t) /\ r.hushed = t.hushed /\ r.quiet = t.quiet
    /\ r.init_work = t.init_work /\ r.lost = t.lost

LEMMA OldResetTyped ==
    Old!Reset \in OldChips /\ Old!Reset.power = "off" /\ Old!Reset.set = Old!Unset
  BY DEF Old!Reset, OldChips, Old!Unset

LEMMA OldHard ==
    ASSUME NEW t \in OldStates
    PROVE  /\ OldEmptied(Old!HwReset(t), t)
           /\ Old!HwReset(t).stale = {} /\ Old!HwReset(t).stray = FALSE
  <1> DEFINE a == Old!InterruptClear(t, Old!Channels)
             q == [c \in Old!Channels |-> Old!Reset]
             r == [a EXCEPT !.chip = q, !.failsafe = FALSE, !.stray = FALSE, !.stale = {}]
  <1>1. /\ a \in OldStates
        /\ \A c \in Old!Channels : a.latched[c] = IF c \in Old!Channels THEN {} ELSE t.latched[c]
        /\ OldFixed(a) = OldFixed(t) /\ OldMode(a) = OldMode(t) /\ OldFlow(a) = OldFlow(t)
        /\ OldLine(a) = OldLine(t) /\ OldMarks(a) = OldMarks(t)
        /\ a.chip = t.chip /\ a.init_work = t.init_work /\ a.lost = t.lost /\ a.stale = t.stale
    <2>1. Old!Channels \in SUBSET Old!Channels
      OBVIOUS
    <2> QED BY <2>1, OldClear, Zenon
  <1>2. Old!HwReset(t) = r
    BY DEF Old!HwReset
  <1> HIDE DEF a
  <1>3. q \in [Old!Channels -> OldChips] /\ \A c \in Old!Channels : q[c] = Old!Reset
    BY OldResetTyped
  <1> HIDE DEF q
  <1>4. /\ r \in OldStates /\ r.chip = q /\ r.latched = a.latched
        /\ OldFixed(r) = OldFixed(a) /\ OldMode(r) = OldMode(a) /\ OldLine(r) = OldLine(a)
        /\ r.stale = {} /\ r.stray = FALSE /\ r.hushed = a.hushed /\ r.quiet = a.quiet
        /\ r.pc = a.pc /\ r.arg = a.arg /\ r.mn_restart = a.mn_restart
        /\ r.init_work = a.init_work /\ r.lost = a.lost
    BY <1>1, <1>3, ZenonT(60) DEF OldStates, OldFixed, OldMode, OldLine
  <1> HIDE DEF r
  <1>5. /\ a.pc = t.pc /\ a.arg = t.arg /\ a.mn_restart = t.mn_restart
        /\ a.hushed = t.hushed /\ a.quiet = t.quiet
    BY <1>1 DEF OldFlow, OldMarks
  <1>6. \A c \in Old!Channels :
          r.chip[c].power = "off" /\ r.chip[c].set = Old!Unset /\ r.latched[c] = {}
    BY <1>1, <1>3, <1>4, OldResetTyped
  <1>7. OldEmptied(r, t)
    BY <1>1, <1>4, <1>5, <1>6, Zenon DEF OldEmptied
  <1> QED BY <1>2, <1>4, <1>7, Zenon

LEMMA OldSoft ==
    ASSUME NEW t \in OldStates, t.spk = Old!Channels
    PROVE  /\ OldEmptied(Old!SoftwareReset(t), t)
           /\ Old!SoftwareReset(t).stale = t.stale /\ Old!SoftwareReset(t).stray = t.stray
  <1> DEFINE q == [c \in Old!Channels |-> Old!Reset]
             a == [t EXCEPT !.chip = q]
             r == Old!InterruptClear(a, Old!Channels)
  <1>1. Old!Reach(t) = Old!Channels
    BY OldMasks
  <1>2. Old!SoftwareReset(t) = r
    BY <1>1 DEF Old!SoftwareReset, Old!Chips
  <1>3. q \in [Old!Channels -> OldChips] /\ \A c \in Old!Channels : q[c] = Old!Reset
    BY OldResetTyped
  <1> HIDE DEF q
  <1>4. /\ a \in OldStates /\ a.chip = q
        /\ OldFixed(a) = OldFixed(t) /\ OldMode(a) = OldMode(t) /\ OldFlow(a) = OldFlow(t)
        /\ OldLine(a) = OldLine(t) /\ OldMarks(a) = OldMarks(t)
        /\ a.latched = t.latched /\ a.init_work = t.init_work
        /\ a.lost = t.lost /\ a.stale = t.stale
    BY <1>3, OldWithChip
  <1> HIDE DEF a
  <1>5. /\ r \in OldStates
        /\ \A c \in Old!Channels : r.latched[c] = IF c \in Old!Channels THEN {} ELSE a.latched[c]
        /\ OldFixed(r) = OldFixed(a) /\ OldMode(r) = OldMode(a) /\ OldFlow(r) = OldFlow(a)
        /\ OldLine(r) = OldLine(a) /\ OldMarks(r) = OldMarks(a)
        /\ r.chip = a.chip /\ r.init_work = a.init_work /\ r.lost = a.lost /\ r.stale = a.stale
    <2>1. Old!Channels \in SUBSET Old!Channels
      OBVIOUS
    <2>2. a \in OldStates
      BY <1>4
    <2> QED BY <2>1, <2>2, OldClear
  <1> HIDE DEF r
  <1>6. OldFlow(r) = OldFlow(t) /\ OldMarks(r) = OldMarks(t)
    BY <1>4, <1>5, Zenon
  <1>7. /\ r.pc = t.pc /\ r.arg = t.arg /\ r.mn_restart = t.mn_restart
        /\ r.hushed = t.hushed /\ r.quiet = t.quiet /\ r.stray = t.stray
    BY <1>6 DEF OldFlow, OldMarks
  <1>8. \A c \in Old!Channels :
          r.chip[c].power = "off" /\ r.chip[c].set = Old!Unset /\ r.latched[c] = {}
    BY <1>3, <1>4, <1>5, OldResetTyped
  <1>9. r.stale = t.stale /\ r.stale \subseteq t.stale
    BY <1>4, <1>5, Zenon
  <1>10. OldEmptied(r, t)
    BY <1>4, <1>5, <1>7, <1>8, <1>9, Zenon DEF OldEmptied
  <1> QED BY <1>2, <1>7, <1>9, <1>10, Zenon

(* Only settings are written. *)
OldRewritten(r, t) ==
    /\ r \in OldStates
    /\ \A c \in Old!Channels :
         r.chip[c].power = t.chip[c].power /\ r.chip[c].open = t.chip[c].open
    /\ OldFixed(r) = OldFixed(t) /\ OldMode(r) = OldMode(t) /\ OldFlow(r) = OldFlow(t)
    /\ OldLine(r) = OldLine(t) /\ OldMarks(r) = OldMarks(t)
    /\ r.latched = t.latched /\ r.init_work = t.init_work
    /\ t.lost => r.lost

LEMMA OldRewrittenOn ==
    ASSUME NEW r, NEW t, NEW u, OldRewritten(r, u), OldRewritten(u, t)
    PROVE  OldRewritten(r, t)
  BY Zenon DEF OldRewritten

LEMMA OldHeldTyped ==
    ASSUME NEW t \in OldStates
    PROVE  t.held \in Int /\ t.putting \in Int /\ t.lost \in BOOLEAN /\ t.spk \subseteq Old!Channels
  BY DEF OldStates

LEMMA OldWithLost ==
    ASSUME NEW t \in OldStates, NEW b \in BOOLEAN
    PROVE  LET r == [t EXCEPT !.lost = b]
           IN  /\ r \in OldStates /\ r.lost = b /\ r.chip = t.chip /\ r.stale = t.stale
               /\ ((t.lost => b) => OldRewritten(r, t))
  BY DEF OldStates, OldRewritten, OldFixed, OldMode, OldFlow, OldLine, OldMarks

LEMMA OldCtrlValues ==
    ASSUME NEW t \in OldStates
    PROVE  LET r == Old!LoadCtrlValues(t)
           IN  /\ OldRewritten(r, t) /\ r.stale = t.stale /\ r.chip[2].set = t.chip[2].set
               /\ (~r.lost => ~t.lost)
               /\ (setting_old \in Old!Controls \ {"rx_mode"} =>
                     /\ r.chip[1].set = t.held /\ (~r.lost => t.putting = Old!Unset))
               /\ (setting_old = "rx_mode" =>
                     /\ r.chip[1].set = t.chip[1].set
                     /\ (~r.lost => t.held = Old!Unset /\ t.putting = Old!Unset))
               /\ (setting_old \notin Old!Controls => r.chip[1].set = t.chip[1].set)
  <1>1. CASE setting_old \in Old!Controls \ {"rx_mode"}
    <2> DEFINE a == Old!WriteLeft(t, setting_old, t.held)
               b == a.lost \/ t.putting # Old!Unset
    <2>1. OldWroteLeft(a, t, setting_old, t.held)
      BY OldHeldTyped, OldWriteLeft, Zenon
    <2>2. Old!LoadCtrlValues(t) = [a EXCEPT !.lost = b]
      BY <1>1 DEF Old!LoadCtrlValues
    <2> HIDE DEF a
    <2>3. b \in BOOLEAN /\ (a.lost => b) /\ (~b => ~a.lost /\ t.putting = Old!Unset)
      BY Zenon
    <2> HIDE DEF b
    <2>4. LET r == [a EXCEPT !.lost = b]
          IN  /\ r \in OldStates /\ r.lost = b /\ r.chip = a.chip /\ r.stale = a.stale
              /\ OldRewritten(r, a)
      BY <2>1, <2>3, OldWithLost DEF OldWroteLeft
    <2>5. OldRewritten(a, t)
      BY <2>1 DEF OldWroteLeft, OldRewritten
    <2>6. OldRewritten(Old!LoadCtrlValues(t), t)
      BY <2>2, <2>4, <2>5, OldRewrittenOn, Zenon
    <2> QED BY <1>1, <2>1, <2>2, <2>3, <2>4, <2>6 DEF OldWroteLeft
  <1>2. CASE setting_old \notin Old!Controls \ {"rx_mode"}
    <2> DEFINE b == t.lost \/ (setting_old = "rx_mode" /\ {t.held, t.putting} # {Old!Unset})
    <2>1. Old!LoadCtrlValues(t) = [t EXCEPT !.lost = b]
      BY <1>2 DEF Old!LoadCtrlValues
    <2>2. /\ b \in BOOLEAN /\ (t.lost => b)
          /\ (~b => ~t.lost /\ (setting_old = "rx_mode" => t.held = Old!Unset /\ t.putting = Old!Unset))
      <3>1. ({t.held, t.putting} = {Old!Unset}) => t.held = Old!Unset /\ t.putting = Old!Unset
        BY Zenon
      <3> QED BY <3>1, Zenon
    <2> HIDE DEF b
    <2>3. LET r == [t EXCEPT !.lost = b]
          IN  /\ r \in OldStates /\ r.lost = b /\ r.chip = t.chip /\ r.stale = t.stale
              /\ OldRewritten(r, t)
      BY <2>2, OldWithLost
    <2> QED BY <1>2, <2>1, <2>2, <2>3, OldControlsAre
  <1> QED BY <1>1, <1>2

OldPut(r, t, k, v) ==
    /\ OldRewritten(r, t) /\ r.lost = t.lost
    /\ (setting_old = k => r.stale = {} /\ \A c \in Old!Channels : r.chip[c].set = v)
    /\ (setting_old # k =>
          r.stale = t.stale /\ \A c \in Old!Channels : r.chip[c].set = t.chip[c].set)

LEMMA OldPutBoth ==
    ASSUME NEW t \in OldStates, t.spk = Old!Channels, NEW k, NEW v \in Int
    PROVE  OldPut(Old!WriteBoth(t, k, v), t, k, v)
  <1> DEFINE r == Old!WriteBoth(t, k, v)
  <1>1. OldWrote(r, t, k, v)
    BY OldWriteBoth, Zenon
  <1>2. Old!Reach(t) = Old!Channels
    BY OldMasks
  <1> HIDE DEF r
  <1>3. OldRewritten(r, t) /\ r.lost = t.lost
    BY <1>1, Zenon DEF OldWrote, OldRewritten
  <1>4. (setting_old = k => r.stale = {}) /\ (setting_old # k => r.stale = t.stale)
    BY <1>1, <1>2 DEF OldWrote
  <1>5. \A c \in Old!Channels :
          r.chip[c].set = IF setting_old = k /\ c \in Old!Reach(t) THEN v ELSE t.chip[c].set
    BY <1>1, Zenon DEF OldWrote
  <1>6. setting_old = k => \A c \in Old!Channels : r.chip[c].set = v
    BY <1>2, <1>5
  <1>7. setting_old # k => \A c \in Old!Channels : r.chip[c].set = t.chip[c].set
    BY <1>5
  <1> QED BY <1>3, <1>4, <1>6, <1>7, Zenon DEF OldPut, r

(* What rewriting settings leaves as it is, field by field *)
LEMMA OldRewrittenFields ==
    ASSUME NEW r, NEW t, OldRewritten(r, t)
    PROVE  /\ r \in OldStates
           /\ r.spk = t.spk /\ r.held = t.held /\ r.putting = t.putting
           /\ r.mn_fmt_mode = t.mn_fmt_mode /\ r.mn_slots = t.mn_slots
           /\ r.mn_rx_slot_width = t.mn_rx_slot_width /\ r.mn_tx_slot_width = t.mn_tx_slot_width
           /\ r.mb_power_up = t.mb_power_up /\ r.mn_power_state = t.mn_power_state
           /\ r.pc = t.pc /\ r.arg = t.arg /\ r.mn_restart = t.mn_restart
           /\ r.irq_enable = t.irq_enable /\ r.irq_work = t.irq_work
           /\ r.stray = t.stray /\ r.hushed = t.hushed /\ r.quiet = t.quiet
           /\ r.init_work = t.init_work
           /\ \A c \in Old!Channels : r.chip[c].power = t.chip[c].power
  BY DEF OldRewritten, OldFixed, OldMode, OldFlow, OldLine, OldMarks

LEMMA OldRewrittenSame ==
    ASSUME NEW t \in OldStates
    PROVE  OldRewritten(t, t)
  BY DEF OldRewritten

OldOwn ==
    setting_old = "reciever_enable" \/ (setting_old = "ampoutput_lvl" /\ 1 \in Tas2564)

OldInited(r, t) ==
    /\ OldRewritten(r, t)
    /\ (setting_old = "fmt" => r.stale = {} /\ \A c \in Old!Channels : r.chip[c].set = t.held)
    /\ (setting_old # "fmt" => r.stale = t.stale)
    /\ (OldOwn => r.chip[1].set = Old!Unset /\ (~r.lost => t.held = Old!Unset))
    /\ (~OldOwn /\ setting_old # "fmt" =>
          \A c \in Old!Channels : r.chip[c].set = t.chip[c].set)

LEMMA OldInit ==
    ASSUME NEW t \in OldStates, t.spk = Old!Channels
    PROVE  OldInited(Old!LoadInit(t), t)
  <1> DEFINE a == IF OldOwn THEN Old!WriteLeft(t, setting_old, Old!Unset) ELSE t
             u == Old!WriteBoth(a, "fmt", t.held)
             b == u.lost \/ (OldOwn /\ t.held # Old!Unset)
             r == [u EXCEPT !.lost = b]
  <1>1. Old!LoadInit(t) = r
    BY DEF Old!LoadInit, OldOwn
  <1>2. /\ OldRewritten(a, t) /\ a.stale = t.stale
        /\ (OldOwn => a.chip[1].set = Old!Unset)
        /\ (~OldOwn => a.chip = t.chip)
    <2>1. CASE OldOwn
      <3>1. Old!Unset \in Int
        BY DEF Old!Unset
      <3>2. OldWroteLeft(a, t, setting_old, Old!Unset)
        BY <2>1, <3>1, OldWriteLeft
      <3> HIDE DEF a
      <3>3. OldRewritten(a, t)
        BY <3>2, Zenon DEF OldWroteLeft, OldRewritten
      <3> QED BY <2>1, <3>2, <3>3 DEF OldWroteLeft
    <2>2. CASE ~OldOwn
      BY <2>2, OldRewrittenSame
    <2> QED BY <2>1, <2>2
  <1> HIDE DEF a
  <1>3. a \in OldStates /\ a.spk = Old!Channels /\ t.held \in Int
    BY <1>2, OldRewrittenFields, OldHeldTyped
  <1>4. OldPut(u, a, "fmt", t.held)
    BY <1>3, OldPutBoth
  <1> HIDE DEF u
  <1>5. b \in BOOLEAN /\ (u.lost => b) /\ (OldOwn /\ ~b => t.held = Old!Unset)
    BY Zenon
  <1> HIDE DEF b
  <1>6. u \in OldStates
    BY <1>4 DEF OldPut, OldRewritten
  <1>7. r \in OldStates /\ r.lost = b /\ r.chip = u.chip /\ r.stale = u.stale /\ OldRewritten(r, u)
    BY <1>5, <1>6, OldWithLost
  <1> HIDE DEF r
  <1>8. OldRewritten(r, t)
    BY <1>2, <1>4, <1>7, OldRewrittenOn, Zenon DEF OldPut
  <1>9. 1 \in Old!Channels
    BY OldMasks
  <1>10. OldOwn => setting_old # "fmt"
    BY DEF OldOwn
  <1>11. OldOwn => r.chip[1].set = Old!Unset /\ (~r.lost => t.held = Old!Unset)
    BY <1>2, <1>4, <1>5, <1>7, <1>9, <1>10 DEF OldPut
  <1>12. /\ (setting_old = "fmt" => r.stale = {} /\ \A c \in Old!Channels : r.chip[c].set = t.held)
         /\ (setting_old # "fmt" => r.stale = t.stale)
    BY <1>2, <1>4, <1>7 DEF OldPut
  <1>13. ~OldOwn /\ setting_old # "fmt" =>
           \A c \in Old!Channels : r.chip[c].set = t.chip[c].set
    BY <1>2, <1>4, <1>7 DEF OldPut
  <1> QED BY <1>1, <1>8, <1>11, <1>12, <1>13, Zenon DEF OldInited

OldFormed(r, t) ==
    /\ OldRewritten(r, t)
    /\ (setting_old # "rx_width" =>
          r.stale = t.stale /\ \A c \in Old!Channels : r.chip[c].set = t.chip[c].set)
    /\ (setting_old = "rx_width" =>
          /\ r.stale = {}
          /\ (~r.lost => \A c \in Old!Channels : r.chip[c].set = t.held))

LEMMA OldFormat ==
    ASSUME NEW t \in OldStates, t.spk = Old!Channels
    PROVE  OldFormed(Old!LoadFormat(t), t)
  <1>1. CASE t.mn_fmt_mode = 2
    <2> DEFINE v == IF t.mn_rx_slot_width = 16 THEN 16 ELSE 24
               u == Old!WriteBoth(t, "rx_width", v)
               b == u.lost \/ (setting_old = "rx_width" /\ t.held # v)
               r == [u EXCEPT !.lost = b]
    <2>1. Old!LoadFormat(t) = r
      BY <1>1 DEF Old!LoadFormat, Old!SetTdmRxSlot
    <2>2. v \in Int
      OBVIOUS
    <2> HIDE DEF v
    <2>3. OldPut(u, t, "rx_width", v)
      BY <2>2, OldPutBoth
    <2> HIDE DEF u
    <2>4. b \in BOOLEAN /\ (u.lost => b) /\ (setting_old = "rx_width" /\ ~b => t.held = v)
      BY Zenon
    <2> HIDE DEF b
    <2>5. u \in OldStates
      BY <2>3 DEF OldPut, OldRewritten
    <2>6. r \in OldStates /\ r.lost = b /\ r.chip = u.chip /\ r.stale = u.stale /\ OldRewritten(r, u)
      BY <2>4, <2>5, OldWithLost
    <2> HIDE DEF r
    <2>7. OldRewritten(r, t)
      BY <2>3, <2>6, OldRewrittenOn, Zenon DEF OldPut
    <2> QED BY <2>1, <2>3, <2>4, <2>6, <2>7 DEF OldPut, OldFormed
  <1>2. CASE t.mn_fmt_mode # 2
    <2> DEFINE r == Old!WriteBoth(t, "rx_width", t.held)
    <2>1. OldPut(r, t, "rx_width", t.held)
      BY OldHeldTyped, OldPutBoth
    <2>2. Old!LoadFormat(t) = r
      BY <1>2 DEF Old!LoadFormat
    <2> HIDE DEF r
    <2> QED BY <2>1, <2>2 DEF OldPut, OldFormed
  <1> QED BY <1>1, <1>2

--------------------------------------------------------------------------------
(* The TAS256x: the inductive invariant *)

OldRelevant == IF setting_old \in Old!Controls THEN {1} ELSE Old!Channels

OldPowered(t) == t.mb_power_up = (t.mn_power_state # "shutdown")

(* Without power no chip is on, nor without a stream, but one that strayed. *)
OldSilent(t, p) ==
    /\ \A c \in Old!Channels : t.chip[c].power = "on" => t.mb_power_up \/ (t.stray /\ ~p)
    /\ ~p /\ ~t.stray => \A c \in Old!Channels : t.chip[c].power # "on"

(* Only where channels are switched are any off.  There, and where the device is muted, no
   fault is reported and no work of an interrupt runs. *)
OldCalm == setup_old \in {"switches", "mutes"}

OldCalmed(t) ==
    /\ t.pc = "idle" /\ ~t.irq_work /\ ~t.dc_work /\ t.putting = Old!Unset
    /\ \A c \in Old!Channels : t.latched[c] = {}

OldSwitched(t, p) ==
    /\ (t.mb_power_up => p /\ t.spk # {})
    /\ ~t.mb_mute /\ ~t.stray
    /\ \A c \in Old!Channels : t.chip[c].power = "on" => c \in t.spk

OldApart(t, p) ==
    /\ OldCalm => OldCalmed(t)
    /\ setup_old = "switches" => OldSwitched(t, p)
    /\ setup_old # "switches" => t.spk = Old!Channels
    /\ setup_old = "mutes" => (p => t.mb_power_up)

OldSounds(t, p) ==
    /\ t.pc \in {"idle", "end"} /\ t.mn_power_state = "active" =>
         \A c \in t.spk \ t.quiet : t.chip[c].power = "on" \/ t.latched[c] # {}
    /\ p /\ t.spk # {} /\ ~t.hushed => t.mn_power_state # "shutdown"

OldRemembers(t, w) ==
    IF t.putting = Old!Unset THEN t.held = w
    ELSE w = t.putting /\ setting_old \in Old!Controls /\ ~OldCalm

(* Activation writes one setting afresh, all others are in force through a reload. *)
OldKept(t, w) ==
    ~t.lost /\ (setting_old = "iv_enable" => t.mn_power_state = "active" /\ t.pc # "power") =>
      \A c \in OldRelevant \ t.stale : t.chip[c].set = w

OldListens(t) ==
    t.pc = "idle" /\ t.mn_power_state = "active" =>
      /\ t.irq_enable \/ t.init_work
      /\ ~t.missed /\ Old!Pulled(t) => t.irq_work \/ t.init_work

OldWhole(t, p, w) ==
    /\ t \in OldStates /\ t.mn_restart <= RESTART_MAX
    /\ OldPowered(t) /\ OldSilent(t, p) /\ OldApart(t, p) /\ OldSounds(t, p)
    /\ OldRemembers(t, w) /\ OldKept(t, w) /\ OldListens(t)

OldSetting ==
    /\ setup_old \in OldSetups /\ setting_old \in Old!SettingsOf(setup_old)

OldInv ==
    /\ OldSetting /\ playing \in BOOLEAN /\ suspended_old \in BOOLEAN
    /\ faults_old \in Nat /\ faults_old <= MaxFaults
    /\ OldWhole(old, playing, wanted_old)

LEMMA OldFixedFields ==
    ASSUME NEW r, NEW t, OldFixed(r) = OldFixed(t)
    PROVE  /\ r.mb_mute = t.mb_mute /\ r.dac_mute = t.dac_mute /\ r.spk = t.spk
           /\ r.held = t.held /\ r.putting = t.putting /\ r.mn_fmt_mode = t.mn_fmt_mode
           /\ r.mn_slots = t.mn_slots /\ r.mn_rx_slot_width = t.mn_rx_slot_width
           /\ r.mn_tx_slot_width = t.mn_tx_slot_width /\ r.dc_work = t.dc_work
           /\ r.missed = t.missed
  BY DEF OldFixed

LEMMA OldFlowFields ==
    ASSUME NEW r, NEW t, OldFlow(r) = OldFlow(t)
    PROVE  /\ r.failsafe = t.failsafe /\ r.mn_restart = t.mn_restart
           /\ r.pc = t.pc /\ r.arg = t.arg
  BY DEF OldFlow

LEMMA OldLineFields ==
    ASSUME NEW r, NEW t, OldLine(r) = OldLine(t)
    PROVE  r.irq_enable = t.irq_enable /\ r.irq_work = t.irq_work
  BY DEF OldLine

LEMMA OldMarksFields ==
    ASSUME NEW r, NEW t, OldMarks(r) = OldMarks(t)
    PROVE  r.stray = t.stray /\ r.hushed = t.hushed /\ r.quiet = t.quiet
  BY DEF OldMarks

LEMMA OldModeFields ==
    ASSUME NEW r, NEW t, OldMode(r) = OldMode(t)
    PROVE  r.mn_power_state = t.mn_power_state /\ r.mb_power_up = t.mb_power_up
  BY DEF OldMode

LEMMA OldSettingIs ==
    ASSUME OldSetting, Old!TasAssumption
    PROVE  /\ setting_old \in Old!Settings
           /\ setup_old \in Old!SetupsKnown
           /\ (setup_old \notin {"faults", "failing", "reload"} => setting_old = "fmt")
           /\ (Old!Resets <=> setup_old \in {"faults", "failing", "reload"})
           /\ (Old!Resets => ~OldCalm)
  <1>1. setup_old \in Old!SetupsKnown /\ Watched \subseteq Old!Settings
    BY DEF OldSetting, Old!TasAssumption
  <1>2. setting_old \in Old!SettingsOf(setup_old)
    BY DEF OldSetting
  <1>3. CASE setup_old \in {"faults", "reload"}
    BY <1>1, <1>2, <1>3 DEF Old!SettingsOf, Old!Resets, OldCalm
  <1>4. CASE setup_old = "failing"
    BY <1>1, <1>2, <1>4 DEF Old!SettingsOf, Old!Resets, OldCalm
  <1>5. CASE setup_old \in {"switches", "mutes", "suspend"}
    BY <1>1, <1>2, <1>5 DEF Old!SettingsOf, Old!Resets, Old!Settings
  <1> QED BY <1>1, <1>3, <1>4, <1>5 DEF Old!SetupsKnown

LEMMA OldSettingCases ==
    ASSUME setting_old \in Old!Settings
    PROVE  \/ setting_old \in Old!Controls
           \/ setting_old \in {"fmt", "rx_width", "sample_rate", "iv_enable"}
                /\ setting_old \notin Old!Controls
  BY OldControlsAre DEF Old!Settings

LEMMA OldNotPut ==
    ASSUME NEW t, NEW w, OldRemembers(t, w), setting_old \notin Old!Controls
    PROVE  t.putting = Old!Unset /\ t.held = w
  BY DEF OldRemembers

(* All but what activation writes is in force. *)
OldBack(r, w) ==
    ~r.lost /\ setting_old # "iv_enable" =>
      \A c \in OldRelevant \ r.stale : r.chip[c].set = w

LEMMA OldReload ==
    ASSUME NEW a \in OldStates, a.spk = Old!Channels, setting_old \in Old!Settings,
           \A c \in Old!Channels : a.chip[c].set = Old!Unset,
           NEW w, OldRemembers(a, w)
    PROVE  LET b == Old!LoadInit(Old!LoadCtrlValues(a))
               c == Old!LoadFormat(Old!WriteBoth(b, "iv_enable", 1))
               d == Old!SetSamplerate(c)
           IN  OldRewritten(c, a) /\ OldRewritten(d, a) /\ OldBack(d, w)
  <1> DEFINE x == Old!LoadCtrlValues(a)
             b == Old!LoadInit(x)
             e == Old!WriteBoth(b, "iv_enable", 1)
             c == Old!LoadFormat(e)
             d == Old!SetSamplerate(c)
  <1>1. /\ OldRewritten(x, a) /\ x.stale = a.stale
        /\ (~x.lost => ~a.lost)
        /\ (setting_old \in Old!Controls \ {"rx_mode"} =>
              /\ x.chip[1].set = a.held /\ (~x.lost => a.putting = Old!Unset))
        /\ (setting_old = "rx_mode" =>
              /\ x.chip[1].set = a.chip[1].set
              /\ (~x.lost => a.held = Old!Unset /\ a.putting = Old!Unset))
    BY OldCtrlValues
  <1> HIDE DEF x
  <1>2. x \in OldStates /\ x.spk = Old!Channels /\ x.held = a.held
    BY <1>1, OldRewrittenFields
  <1>3. OldInited(b, x)
    BY <1>2, OldInit
  <1> HIDE DEF b
  <1>4. b \in OldStates /\ b.spk = Old!Channels /\ b.held = a.held
    BY <1>2, <1>3, OldRewrittenFields DEF OldInited
  <1>5. OldPut(e, b, "iv_enable", 1)
    BY <1>4, OldPutBoth
  <1> HIDE DEF e
  <1>6. e \in OldStates /\ e.spk = Old!Channels /\ e.held = a.held
    BY <1>4, <1>5, OldRewrittenFields DEF OldPut
  <1>7. OldFormed(c, e)
    BY <1>6, OldFormat
  <1> HIDE DEF c
  <1>8. c \in OldStates /\ c.spk = Old!Channels /\ c.held = a.held
    BY <1>6, <1>7, OldRewrittenFields DEF OldFormed
  <1>9. OldPut(d, c, "sample_rate", a.held)
    BY <1>8, OldHeldTyped, OldPutBoth DEF Old!SetSamplerate
  <1> HIDE DEF d
  <1>10. OldRewritten(b, a) /\ OldRewritten(e, a) /\ OldRewritten(c, a) /\ OldRewritten(d, a)
    <2>1. OldRewritten(b, x) /\ OldRewritten(e, b) /\ OldRewritten(c, e) /\ OldRewritten(d, c)
      BY <1>3, <1>5, <1>7, <1>9, Zenon DEF OldInited, OldPut, OldFormed
    <2> QED BY <1>1, <2>1, OldRewrittenOn, Zenon
  <1>11. /\ (~d.lost => ~c.lost) /\ (~c.lost => ~e.lost) /\ (~e.lost => ~b.lost)
         /\ (~b.lost => ~x.lost)
    <2>1. OldRewritten(b, x) /\ OldRewritten(e, b) /\ OldRewritten(c, e) /\ OldRewritten(d, c)
      BY <1>3, <1>5, <1>7, <1>9, Zenon DEF OldInited, OldPut, OldFormed
    <2> QED BY <2>1, Zenon DEF OldRewritten
  <1>12. 1 \in Old!Channels
    BY OldMasks
  <1>13. OldBack(d, w)
    <2> SUFFICES ASSUME ~d.lost, setting_old # "iv_enable"
                 PROVE  \A j \in OldRelevant \ d.stale : d.chip[j].set = w
      BY DEF OldBack
    <2>1. CASE setting_old \in Old!Controls
      <3>1. setting_old \notin {"fmt", "rx_width", "sample_rate", "iv_enable"}
        BY <2>1, OldControlsAre
      <3>2. d.chip[1].set = b.chip[1].set
        BY <1>5, <1>7, <1>9, <1>12, <3>1 DEF OldPut, OldFormed
      <3>3. a.putting = Old!Unset
        BY <1>1, <1>11, <2>1
      <3>4. a.held = w
        BY <3>3 DEF OldRemembers
      <3>5. b.chip[1].set = w
        <4>1. CASE OldOwn
          BY <1>2, <1>3, <1>11, <3>4, <4>1 DEF OldInited
        <4>2. CASE ~OldOwn
          <5>1. b.chip[1].set = x.chip[1].set
            BY <1>3, <1>12, <3>1, <4>2 DEF OldInited
          <5>2. CASE setting_old = "rx_mode"
            BY <1>1, <1>11, <1>12, <3>4, <5>1, <5>2
          <5>3. CASE setting_old # "rx_mode"
            BY <1>1, <2>1, <3>4, <5>1, <5>3
          <5> QED BY <5>2, <5>3
        <4> QED BY <4>1, <4>2
      <3> QED BY <2>1, <3>2, <3>5 DEF OldRelevant
    <2>2. ASSUME setting_old \notin Old!Controls PROVE a.held = w
      BY <2>2, OldNotPut
    <2>3. CASE setting_old = "fmt"
      <3>1. \A j \in Old!Channels : b.chip[j].set = a.held
        BY <1>2, <1>3, <2>3 DEF OldInited
      <3>2. \A j \in Old!Channels : d.chip[j].set = b.chip[j].set
        BY <1>5, <1>7, <1>9, <2>3 DEF OldPut, OldFormed
      <3>3. a.held = w
        BY <2>2, <2>3, OldControlsAre
      <3> QED BY <2>3, <3>1, <3>2, <3>3, OldControlsAre DEF OldRelevant
    <2>4. CASE setting_old = "rx_width"
      <3>1. \A j \in Old!Channels : c.chip[j].set = a.held
        BY <1>6, <1>7, <1>11, <2>4 DEF OldFormed
      <3>2. \A j \in Old!Channels : d.chip[j].set = c.chip[j].set
        BY <1>9, <2>4 DEF OldPut
      <3>3. a.held = w
        BY <2>2, <2>4, OldControlsAre
      <3> QED BY <2>4, <3>1, <3>2, <3>3, OldControlsAre DEF OldRelevant
    <2>5. CASE setting_old = "sample_rate"
      <3>1. \A j \in Old!Channels : d.chip[j].set = a.held
        BY <1>9, <2>5 DEF OldPut
      <3>3. a.held = w
        BY <2>2, <2>5, OldControlsAre
      <3> QED BY <2>5, <3>1, <3>3, OldControlsAre DEF OldRelevant
    <2> QED BY <2>1, <2>3, <2>4, <2>5, OldSettingCases
  <1> QED BY <1>10, <1>13, Zenon DEF x, b, e, c, d

LEMMA OldLostSet ==
    ASSUME NEW b, NEW a, OldRewritten(b, a), NEW n \in BOOLEAN, a.lost => n
    PROVE  LET r == [b EXCEPT !.lost = n]
           IN  OldRewritten(r, a) /\ r.lost = n /\ r.chip = b.chip /\ r.stale = b.stale
  <1>1. b \in OldStates
    BY DEF OldRewritten
  <1> DEFINE r == [b EXCEPT !.lost = n]
  <1>2. /\ r \in OldStates /\ r.lost = n /\ r.chip = b.chip /\ r.stale = b.stale
        /\ OldFixed(r) = OldFixed(b) /\ OldMode(r) = OldMode(b) /\ OldFlow(r) = OldFlow(b)
        /\ OldLine(r) = OldLine(b) /\ OldMarks(r) = OldMarks(b)
        /\ r.latched = b.latched /\ r.init_work = b.init_work
    BY <1>1 DEF OldStates, OldFixed, OldMode, OldFlow, OldLine, OldMarks
  <1> HIDE DEF r
  <1>3. OldRewritten(r, a)
    BY <1>2, Zenon DEF OldRewritten
  <1> QED BY <1>2, <1>3, Zenon DEF r

(* The other order, after a reset that the algorithm asked for *)
LEMMA OldReloadAsked ==
    ASSUME NEW a \in OldStates, a.spk = Old!Channels, setting_old \in Old!Settings,
           \A c \in Old!Channels : a.chip[c].set = Old!Unset,
           NEW w, OldRemembers(a, w),
           NEW n \in BOOLEAN, a.lost => n,
           ~n => a.putting = Old!Unset /\ (setting_old = "rx_mode" => a.held = Old!Unset)
    PROVE  LET b == Old!LoadCtrlValues(Old!LoadInit(a))
               k == [b EXCEPT !.lost = n]
               c == Old!WriteBoth(Old!WriteBoth(k, "iv_enable", 1), "rx_width", a.held)
               d == Old!SetSamplerate(c)
           IN  OldRewritten(d, a) /\ OldBack(d, w)
  <1> DEFINE x == Old!LoadInit(a)
             b == Old!LoadCtrlValues(x)
             k == [b EXCEPT !.lost = n]
             e == Old!WriteBoth(k, "iv_enable", 1)
             c == Old!WriteBoth(e, "rx_width", a.held)
             d == Old!SetSamplerate(c)
  <1>1. OldInited(x, a)
    BY OldInit
  <1> HIDE DEF x
  <1>2. x \in OldStates /\ x.spk = Old!Channels /\ x.held = a.held
    BY <1>1, OldRewrittenFields DEF OldInited
  <1>3. /\ OldRewritten(b, x) /\ b.stale = x.stale /\ b.chip[2].set = x.chip[2].set
        /\ (setting_old \in Old!Controls \ {"rx_mode"} => b.chip[1].set = x.held)
        /\ (setting_old = "rx_mode" => b.chip[1].set = x.chip[1].set)
        /\ (setting_old \notin Old!Controls => b.chip[1].set = x.chip[1].set)
    BY <1>2, OldCtrlValues
  <1> HIDE DEF b
  <1>4. OldRewritten(b, a)
    BY <1>1, <1>3, OldRewrittenOn DEF OldInited
  <1>5. OldRewritten(k, a) /\ k.lost = n /\ k.chip = b.chip /\ k.stale = b.stale
    BY <1>4, OldLostSet
  <1> HIDE DEF k
  <1>6. k \in OldStates /\ k.spk = Old!Channels /\ k.held = a.held
    BY <1>5, OldRewrittenFields
  <1>7. OldPut(e, k, "iv_enable", 1)
    BY <1>6, OldPutBoth
  <1> HIDE DEF e
  <1>8. e \in OldStates /\ e.spk = Old!Channels /\ e.held = a.held
    BY <1>6, <1>7, OldRewrittenFields DEF OldPut
  <1>9. OldPut(c, e, "rx_width", a.held)
    BY <1>8, OldHeldTyped, OldPutBoth
  <1> HIDE DEF c
  <1>10. c \in OldStates /\ c.spk = Old!Channels /\ c.held = a.held
    BY <1>8, <1>9, OldRewrittenFields DEF OldPut
  <1>11. OldPut(d, c, "sample_rate", a.held)
    BY <1>10, OldHeldTyped, OldPutBoth DEF Old!SetSamplerate
  <1> HIDE DEF d
  <1>12. OldRewritten(d, a)
    <2>1. OldRewritten(e, k) /\ OldRewritten(c, e) /\ OldRewritten(d, c)
      BY <1>7, <1>9, <1>11, Zenon DEF OldPut
    <2> QED BY <1>5, <2>1, OldRewrittenOn, Zenon
  <1>13. d.lost = n
    BY <1>5, <1>7, <1>9, <1>11 DEF OldPut
  <1>14. 1 \in Old!Channels /\ 2 \in Old!Channels /\ \A j \in Old!Channels : j = 1 \/ j = 2
    BY OldMasks
  <1>15. OldBack(d, w)
    <2> SUFFICES ASSUME ~d.lost, setting_old # "iv_enable"
                 PROVE  \A j \in OldRelevant \ d.stale : d.chip[j].set = w
      BY DEF OldBack
    <2>1. a.putting = Old!Unset /\ a.held = w
      BY <1>13 DEF OldRemembers
    <2>2. CASE setting_old \in Old!Controls
      <3>1. setting_old \notin {"fmt", "rx_width", "sample_rate", "iv_enable"}
        BY <2>2, OldControlsAre
      <3>2. d.chip[1].set = b.chip[1].set
        BY <1>5, <1>7, <1>9, <1>11, <1>14, <3>1 DEF OldPut
      <3>3. b.chip[1].set = w
        <4>1. CASE setting_old = "rx_mode"
          <5>1. ~OldOwn
            BY <4>1 DEF OldOwn
          <5>2. x.chip[1].set = a.chip[1].set
            BY <1>1, <1>14, <3>1, <5>1 DEF OldInited
          <5> QED BY <1>3, <1>13, <1>14, <2>1, <4>1, <5>2
        <4>2. CASE setting_old # "rx_mode"
          BY <1>2, <1>3, <2>1, <2>2, <4>2
        <4> QED BY <4>1, <4>2
      <3> QED BY <2>2, <3>2, <3>3 DEF OldRelevant
    <2>3. CASE setting_old = "fmt"
      <3>1. \A j \in Old!Channels : x.chip[j].set = a.held
        BY <1>1, <2>3 DEF OldInited
      <3>2. b.chip[1].set = a.held /\ b.chip[2].set = a.held
        BY <1>3, <1>14, <2>3, <3>1, OldControlsAre
      <3>3. \A j \in Old!Channels : d.chip[j].set = b.chip[j].set
        BY <1>5, <1>7, <1>9, <1>11, <2>3 DEF OldPut
      <3>4. \A j \in Old!Channels : d.chip[j].set = w
        BY <1>14, <2>1, <3>2, <3>3
      <3> QED BY <2>3, <3>4, OldControlsAre DEF OldRelevant
    <2>4. CASE setting_old = "rx_width"
      <3>1. \A j \in Old!Channels : c.chip[j].set = a.held
        BY <1>9, <2>4 DEF OldPut
      <3>2. \A j \in Old!Channels : d.chip[j].set = c.chip[j].set
        BY <1>11, <2>4 DEF OldPut
      <3> QED BY <2>1, <2>4, <3>1, <3>2, OldControlsAre DEF OldRelevant
    <2>5. CASE setting_old = "sample_rate"
      <3>1. \A j \in Old!Channels : d.chip[j].set = a.held
        BY <1>11, <2>5 DEF OldPut
      <3> QED BY <2>1, <2>5, <3>1, OldControlsAre DEF OldRelevant
    <2> QED BY <2>2, <2>3, <2>4, <2>5, OldSettingCases
  <1> QED BY <1>12, <1>15, Zenon DEF x, b, k, e, c, d

--------------------------------------------------------------------------------
(* The TAS256x: what the interrupt work and the reset that was asked for leave behind *)

OldReady(r, t) ==
    /\ r \in OldStates /\ r.spk = t.spk /\ r.held = t.held /\ r.putting = t.putting
    /\ r.mn_power_state = t.mn_power_state /\ r.mb_power_up = t.mb_power_up
    /\ r.mn_restart = t.mn_restart /\ r.hushed = t.hushed
    /\ \A c \in Old!Channels : r.chip[c].power # "on"

LEMMA OldReloads ==
    ASSUME NEW t, NEW p \in BOOLEAN, NEW w, OldWhole(t, p, w), ~OldCalm,
           NEW r, OldReady(r, t),
           (r.pc = "power" /\ OldBack(r, w)) \/ (r.pc = "end" /\ r.lost /\ r.quiet = Old!Channels)
    PROVE  OldWhole(r, p, w)
  <1>1. r \in OldStates /\ r.mn_restart <= RESTART_MAX /\ OldPowered(r)
    BY DEF OldWhole, OldReady, OldPowered
  <1>2. OldSilent(r, p)
    BY DEF OldReady, OldSilent
  <1>3. OldApart(r, p)
    BY DEF OldWhole, OldReady, OldApart, OldCalm
  <1>4. OldSounds(r, p)
    <2>1. r.pc \in {"idle", "end"} => r.quiet = Old!Channels
      OBVIOUS
    <2>2. r.spk \subseteq Old!Channels
      BY <1>1, OldHeldTyped
    <2>3. p /\ r.spk # {} /\ ~r.hushed => r.mn_power_state # "shutdown"
      BY DEF OldWhole, OldReady, OldSounds
    <2> QED BY <2>1, <2>2, <2>3 DEF OldSounds
  <1>5. OldRemembers(r, w)
    BY DEF OldWhole, OldReady, OldRemembers
  <1>6. OldKept(r, w)
    BY DEF OldKept, OldBack
  <1>7. OldListens(r)
    BY DEF OldListens
  <1> QED BY <1>1, <1>2, <1>3, <1>4, <1>5, <1>6, <1>7, Zenon DEF OldWhole

(* A power state that was set, after which flags may have changed *)
LEMMA OldPowers ==
    ASSUME NEW u \in OldStates, u.spk = Old!Channels, NEW s \in OldModes,
           NEW v, OldStated(v, u, s), NEW r \in OldStates,
           OldFixed(r) = OldFixed(v), OldMode(r) = OldMode(v), r.chip = v.chip,
           r.latched = v.latched, r.stale = v.stale, r.lost = v.lost, r.quiet = v.quiet,
           r.init_work = v.init_work, r.irq_enable = v.irq_enable, r.irq_work = v.irq_work,
           r.mn_restart = v.mn_restart, u.mn_restart <= RESTART_MAX,
           NEW p \in BOOLEAN, p = playing \/ p = TRUE \/ s = "shutdown", p \/ r.stray = v.stray,
           p /\ ~r.hushed => r.mn_power_state # "shutdown",
           NEW w, OldRemembers(u, w), ~u.lost /\ setting_old # "iv_enable" =>
             \A c \in OldRelevant \ u.stale : u.chip[c].set = w,
           setup_old # "switches",
           OldCalm => r.pc = "idle" /\ OldCalmed(u),
           setup_old = "mutes" => (p => r.mb_power_up)
    PROVE  OldWhole(r, p, w)
  <1>1. /\ v.spk = u.spk /\ v.held = u.held /\ v.putting = u.putting /\ v.dc_work = u.dc_work
        /\ v.missed = u.missed /\ v.mn_restart = u.mn_restart
    BY OldFixedFields, OldFlowFields DEF OldStated
  <1>2. /\ r.spk = u.spk /\ r.held = u.held /\ r.putting = u.putting /\ r.dc_work = u.dc_work
        /\ r.missed = u.missed
        /\ r.mn_power_state = v.mn_power_state /\ r.mb_power_up = v.mb_power_up
    BY <1>1, OldFixedFields, OldModeFields
  <1>3. r.mn_restart <= RESTART_MAX /\ OldPowered(r)
    BY <1>1, <1>2 DEF OldPowered, OldStated
  <1>4. OldSilent(r, p)
    <2>1. \A c \in Old!Channels : r.chip[c].power = "on" <=> r.mn_power_state = "active"
      BY <1>2 DEF OldStated
    <2>2. r.mn_power_state = "active" => r.mb_power_up
      BY <1>2 DEF OldStated
    <2>3. ASSUME r.mn_power_state = "active", ~p PROVE r.stray
      <3>0. s # "shutdown"
        BY <1>2, <2>3 DEF OldStated
      <3>1. v.stray = (u.stray \/ ~playing) /\ r.stray = v.stray /\ ~playing
        BY <1>2, <2>3, <3>0 DEF OldStated
      <3> QED BY <3>1, Zenon
    <2> QED BY <2>1, <2>2, <2>3 DEF OldSilent
  <1>5. OldApart(r, p)
    <2>1. ASSUME OldCalm PROVE OldCalmed(r)
      <3>1. OldCalmed(u) /\ r.pc = "idle"
        BY <2>1
      <3>2. \A c \in Old!Channels : u.latched[c] = {}
        BY <3>1 DEF OldCalmed
      <3>3. v.irq_work = u.irq_work
        BY <3>2 DEF OldStated, OldLines
      <3>4. \A c \in Old!Channels : r.latched[c] = {}
        BY <3>2 DEF OldStated
      <3> QED BY <1>2, <3>1, <3>3, <3>4 DEF OldCalmed
    <2> QED BY <1>2, <2>1 DEF OldApart
  <1>6. OldSounds(r, p)
    <2>1. \A c \in Old!Channels : r.chip[c].power = "on" <=> r.mn_power_state = "active"
      BY <1>2 DEF OldStated
    <2>2. r.spk \subseteq Old!Channels
      BY OldHeldTyped
    <2> QED BY <2>1, <2>2 DEF OldSounds
  <1>7. OldRemembers(r, w)
    BY <1>2 DEF OldRemembers
  <1>8. OldKept(r, w)
    <2>1. CASE setting_old = "iv_enable"
      BY <1>2, <2>1 DEF OldKept, OldStated
    <2>2. CASE setting_old # "iv_enable"
      <3>1. /\ \A c \in Old!Channels : r.chip[c].set = u.chip[c].set
            /\ r.stale = u.stale /\ r.lost = u.lost
        BY <2>2 DEF OldStated
      <3>2. OldRelevant \subseteq Old!Channels
        BY OldMasks DEF OldRelevant
      <3> QED BY <2>2, <3>1, <3>2 DEF OldKept
    <2> QED BY <2>1, <2>2
  <1>9. OldListens(r)
    BY <1>2 DEF OldListens, OldStated
  <1> QED BY <1>3, <1>4, <1>5, <1>6, <1>7, <1>8, <1>9, Zenon DEF OldWhole

LEMMA OldEmptiedReady ==
    ASSUME NEW t, NEW r, OldEmptied(r, t)
    PROVE  /\ OldReady(r, t) /\ r.pc = t.pc /\ r.lost = t.lost
           /\ \A c \in Old!Channels : r.chip[c].set = Old!Unset
           /\ r.mn_fmt_mode = t.mn_fmt_mode /\ r.dc_work = t.dc_work
  BY DEF OldEmptied, OldReady, OldFixed, OldMode

LEMMA OldReadyOn ==
    ASSUME NEW r, NEW u, NEW t, OldReady(r, u), OldReady(u, t)
    PROVE  OldReady(r, t)
  BY Zenon DEF OldReady

LEMMA OldFailsafe ==
    ASSUME NEW t, playing \in BOOLEAN, NEW w, OldWhole(t, playing, w), ~OldCalm,
           RESTART_MAX \in Nat, NEW a, OldReady(a, t)
    PROVE  OldWhole(Old!Failsafe(a), playing, w)
  <1>1. /\ a \in OldStates /\ a.mn_restart \in Nat /\ a.mn_power_state \in OldModes
        /\ a.mn_restart <= RESTART_MAX /\ a.spk = Old!Channels
    BY DEF OldReady, OldWhole, OldStates, OldApart, OldCalm
  <1>2. OldRemembers(a, w)
    BY DEF OldReady, OldWhole, OldRemembers
  <1>3. CASE a.mn_restart < RESTART_MAX
    <2> DEFINE u == [a EXCEPT !.mn_restart = a.mn_restart + 1, !.failsafe = TRUE, !.lost = TRUE,
                              !.pc = "end"]
               v == Old!SetPowerState(u, a.mn_power_state)
    <2>1. Old!Failsafe(a) = v
      BY <1>3 DEF Old!Failsafe
    <2>2. /\ u \in OldStates /\ u.mn_restart = a.mn_restart + 1 /\ u.lost = TRUE /\ u.pc = "end"
          /\ u.spk = a.spk /\ u.held = a.held /\ u.putting = a.putting /\ u.hushed = a.hushed
      <3> DEFINE n == a.mn_restart + 1
                 e == [a EXCEPT !.mn_restart = n, !.failsafe = TRUE]
      <3>1. n \in Nat /\ u = [e EXCEPT !.lost = TRUE, !.pc = "end"]
        BY <1>1
      <3> HIDE DEF n
      <3>2. /\ e \in OldStates /\ e.mn_restart = n
            /\ e.spk = a.spk /\ e.held = a.held /\ e.putting = a.putting /\ e.hushed = a.hushed
        BY <1>1, <3>1, ZenonT(60) DEF OldStates
      <3> HIDE DEF e, u
      <3>3. /\ u \in OldStates /\ u.mn_restart = n /\ u.lost = TRUE /\ u.pc = "end"
            /\ u.spk = a.spk /\ u.held = a.held /\ u.putting = a.putting /\ u.hushed = a.hushed
        BY <3>1, <3>2 DEF OldStates
      <3> QED BY <3>3 DEF n
    <2> HIDE DEF u
    <2>3. OldStated(v, u, a.mn_power_state)
      BY <1>1, <2>2, OldState
    <2> HIDE DEF v
    <2>4. v \in OldStates /\ v.pc = "end"
      BY <2>2, <2>3, OldFlowFields DEF OldStated
    <2>5. ASSUME playing, ~v.hushed PROVE v.mn_power_state # "shutdown"
      <3>1. SUFFICES ASSUME v.mn_power_state = "shutdown" PROVE FALSE
        OBVIOUS
      <3>2. a.mn_power_state = "shutdown" /\ v.hushed = u.hushed
        BY <2>3, <3>1 DEF OldStated
      <3>3. t.mn_power_state = "shutdown" /\ ~t.hushed
        BY <2>2, <2>5, <3>2 DEF OldReady
      <3>4. t.spk # {}
        BY <1>1 DEF OldReady, Old!Channels
      <3> QED BY <2>5, <3>3, <3>4 DEF OldWhole, OldSounds
    <2>6. u.mn_restart <= RESTART_MAX
      BY <1>1, <1>3, <2>2
    <2>7. OldRemembers(u, w)
      BY <1>2, <2>2 DEF OldRemembers
    <2>8. setup_old # "switches" /\ setup_old # "mutes"
      BY DEF OldCalm
    <2>9. OldWhole(v, playing, w)
      BY <1>1, <2>2, <2>3, <2>4, <2>5, <2>6, <2>7, <2>8, OldPowers
    <2> QED BY <2>1, <2>9
  <1>4. CASE ~(a.mn_restart < RESTART_MAX)
    <2> DEFINE s == Old!Reach(a)
               b == Old!SetPower(a, s, "off")
               off == [b EXCEPT !.mb_power_up = FALSE, !.mn_power_state = "shutdown"]
               y == Old!InterruptEnable(off, FALSE, s)
               z == Old!EnableIrq(y, FALSE)
               h == Old!HwReset(z)
               g == Old!SoftwareReset(h)
               r == [g EXCEPT !.lost = TRUE, !.hushed = TRUE, !.pc = "end"]
    <2>1. Old!Failsafe(a) = r
      BY <1>4 DEF Old!Failsafe
    <2>2. s \in SUBSET Old!Channels
      BY <1>1, OldMasks
    <2> HIDE DEF s
    <2>3. b \in OldStates /\ OldFixed(b) = OldFixed(a) /\ OldFlow(b) = OldFlow(a)
      BY <1>1, <2>2, OldSetPower
    <2> HIDE DEF b
    <2>4. /\ off \in OldStates /\ OldFixed(off) = OldFixed(b) /\ OldFlow(off) = OldFlow(b)
          /\ off.mb_power_up = FALSE /\ off.mn_power_state = "shutdown"
      BY <2>3 DEF OldStates, OldFixed, OldFlow, OldModes
    <2> HIDE DEF off
    <2>5. /\ y \in OldStates /\ OldFixed(y) = OldFixed(off) /\ OldFlow(y) = OldFlow(off)
          /\ OldMode(y) = OldMode(off)
      BY ZenonT(60), <2>2, <2>4, OldEnable
    <2> HIDE DEF y
    <2>6. /\ z \in OldStates /\ OldFixed(z) = OldFixed(y) /\ OldFlow(z) = OldFlow(y)
          /\ OldMode(z) = OldMode(y)
      BY <2>5, OldEnableIrq
    <2> HIDE DEF z
    <2>7. OldEmptied(h, z)
      BY <2>6, OldHard, Zenon
    <2> HIDE DEF h
    <2>8. OldFixed(z) = OldFixed(a) /\ OldMode(z) = OldMode(off) /\ OldFlow(z) = OldFlow(a)
      BY <2>3, <2>4, <2>5, <2>6, Zenon
    <2>9. h \in OldStates /\ h.spk = Old!Channels
      BY <1>1, <2>7, <2>8, OldFixedFields DEF OldEmptied
    <2>10. OldEmptied(g, h)
      BY <2>9, OldSoft
    <2> HIDE DEF g
    <2>11. OldFixed(g) = OldFixed(a) /\ OldMode(g) = OldMode(off) /\ g.mn_restart = a.mn_restart
      BY <2>7, <2>8, <2>10, OldFlowFields DEF OldEmptied
    <2>12. /\ g \in OldStates /\ g.mb_power_up = FALSE /\ g.mn_power_state = "shutdown"
           /\ g.spk = a.spk /\ g.held = a.held /\ g.putting = a.putting
           /\ \A c \in Old!Channels : g.chip[c].power # "on"
      BY <2>4, <2>10, <2>11, OldFixedFields, OldModeFields DEF OldEmptied
    <2>13. /\ r \in OldStates /\ r.mb_power_up = FALSE /\ r.mn_power_state = "shutdown"
           /\ r.lost = TRUE /\ r.hushed = TRUE /\ r.pc = "end" /\ r.mn_restart = a.mn_restart
           /\ r.spk = a.spk /\ r.held = a.held /\ r.putting = a.putting
           /\ \A c \in Old!Channels : r.chip[c].power # "on"
      BY <2>11, <2>12 DEF OldStates
    <2> HIDE DEF r
    <2>14. OldRemembers(r, w) /\ OldKept(r, w) /\ OldListens(r) /\ OldSounds(r, playing)
      BY <1>2, <2>13 DEF OldRemembers, OldKept, OldListens, OldSounds
    <2>15. OldPowered(r) /\ OldSilent(r, playing) /\ OldApart(r, playing)
      BY <1>1, <2>13 DEF OldPowered, OldSilent, OldApart, OldCalm
    <2>16. OldWhole(r, playing, w)
      BY <1>1, <2>13, <2>14, <2>15 DEF OldWhole
    <2> QED BY <2>1, <2>16
  <1> QED BY <1>3, <1>4

LEMMA OldEnds ==
    ASSUME NEW a \in OldStates
    PROVE  LET r == Old!Ended(a)
           IN  /\ r \in OldStates /\ r.pc = "end" /\ r.lost = TRUE /\ r.quiet = Old!Channels
               /\ OldReady(r, a) <=> \A c \in Old!Channels : a.chip[c].power # "on"
  BY DEF Old!Ended, OldStates, OldReady

LEMMA OldToPower ==
    ASSUME NEW a \in OldStates
    PROVE  LET r == Old!Powering(a)
           IN  /\ r \in OldStates /\ r.pc = "power" /\ r.chip = a.chip /\ r.stale = a.stale
               /\ r.lost = a.lost
               /\ OldReady(r, a) <=> \A c \in Old!Channels : a.chip[c].power # "on"
               /\ OldFixed(r) = OldFixed(a) /\ OldMode(r) = OldMode(a) /\ OldMarks(r) = OldMarks(a)
               /\ r.mn_restart = a.mn_restart /\ r.latched = a.latched
  BY DEF Old!Powering, OldStates, OldReady, OldFixed, OldMode, OldMarks

LEMMA OldRewrittenReady ==
    ASSUME NEW r, NEW a, OldRewritten(r, a), \A c \in Old!Channels : a.chip[c].power # "on"
    PROVE  OldReady(r, a) /\ \A c \in Old!Channels : r.chip[c].power # "on"
  BY OldRewrittenFields DEF OldReady

LEMMA OldConfigGo ==
    ASSUME NEW t, NEW w, NEW fails \in BOOLEAN, OldWhole(t, playing, w), ~OldCalm,
           RESTART_MAX \in Nat, setting_old \in Old!Settings, playing \in BOOLEAN
    PROVE  OldWhole(Old!LoadConfig(t, fails), playing, w)
  <1> DEFINE h == Old!HwReset(t)
             a == Old!SoftwareReset(h)
             b == Old!LoadInit(Old!LoadCtrlValues(a))
             c == Old!LoadFormat(Old!WriteBoth(b, "iv_enable", 1))
             d == Old!SetSamplerate(c)
  <1>1. t \in OldStates /\ t.spk = Old!Channels /\ OldRemembers(t, w)
    BY DEF OldWhole, OldApart, OldCalm
  <1>2. OldEmptied(h, t)
    BY <1>1, OldHard, Zenon
  <1> HIDE DEF h
  <1>3. h \in OldStates /\ h.spk = Old!Channels
    BY <1>1, <1>2, OldFixedFields DEF OldEmptied
  <1>4. OldEmptied(a, h)
    BY <1>3, OldSoft
  <1> HIDE DEF a
  <1>5. /\ OldReady(a, t) /\ a \in OldStates /\ a.spk = Old!Channels
        /\ \A j \in Old!Channels : a.chip[j].set = Old!Unset
        /\ \A j \in Old!Channels : a.chip[j].power # "on"
    <2>1. OldReady(a, h) /\ OldReady(h, t) /\ \A j \in Old!Channels : a.chip[j].set = Old!Unset
      BY <1>2, <1>4, OldEmptiedReady
    <2>2. OldReady(a, t)
      BY <2>1, OldReadyOn
    <2> QED BY <1>1, <2>1, <2>2 DEF OldReady
  <1>6. OldRemembers(a, w)
    BY <1>1, <1>5 DEF OldReady, OldRemembers
  <1>7. OldRewritten(c, a) /\ OldRewritten(d, a) /\ OldBack(d, w)
    BY <1>5, <1>6, OldReload
  <1>8. \/ Old!LoadConfig(t, fails) = Old!Failsafe(a)
        \/ Old!LoadConfig(t, fails) = Old!Ended(a)
        \/ Old!LoadConfig(t, fails) = Old!Ended(c)
        \/ Old!LoadConfig(t, fails) = Old!Powering(d)
    BY DEF Old!LoadConfig, a, h
  <1> HIDE DEF c, d
  <1>9. OldWhole(Old!Failsafe(a), playing, w)
    BY <1>5, OldFailsafe
  <1>10. OldWhole(Old!Ended(a), playing, w)
    <2> DEFINE r == Old!Ended(a)
    <2>1. OldReady(r, a) /\ r.pc = "end" /\ r.lost = TRUE /\ r.quiet = Old!Channels
      BY <1>5, OldEnds
    <2> HIDE DEF r
    <2>2. OldReady(r, t)
      BY <1>5, <2>1, OldReadyOn
    <2>3. OldWhole(r, playing, w)
      BY <2>1, <2>2, OldReloads
    <2> QED BY <2>3 DEF r
  <1>11. OldWhole(Old!Ended(c), playing, w)
    <2> DEFINE r == Old!Ended(c)
    <2>1. OldReady(c, a) /\ \A j \in Old!Channels : c.chip[j].power # "on"
      BY <1>5, <1>7, OldRewrittenReady
    <2>2. c \in OldStates
      BY <2>1 DEF OldReady
    <2>3. OldReady(r, c) /\ r.pc = "end" /\ r.lost = TRUE /\ r.quiet = Old!Channels
      BY <2>1, <2>2, OldEnds
    <2> HIDE DEF r
    <2>4. OldReady(r, t)
      BY <1>5, <2>1, <2>3, OldReadyOn, Zenon
    <2>5. OldWhole(r, playing, w)
      BY <2>3, <2>4, OldReloads
    <2> QED BY <2>5 DEF r
  <1>12. OldWhole(Old!Powering(d), playing, w)
    <2> DEFINE r == Old!Powering(d)
    <2>1. OldReady(d, a) /\ \A j \in Old!Channels : d.chip[j].power # "on"
      BY <1>5, <1>7, OldRewrittenReady
    <2>2. d \in OldStates
      BY <2>1 DEF OldReady
    <2>3. /\ OldReady(r, d) /\ r.pc = "power" /\ r.chip = d.chip /\ r.stale = d.stale
          /\ r.lost = d.lost
      BY <2>1, <2>2, OldToPower
    <2> HIDE DEF r
    <2>4. OldReady(r, t)
      BY <1>5, <2>1, <2>3, OldReadyOn, Zenon
    <2>5. OldBack(r, w)
      BY <1>7, <2>3 DEF OldBack
    <2>6. OldWhole(r, playing, w)
      BY <2>3, <2>4, <2>5, OldReloads
    <2> QED BY <2>6 DEF r
  <1> QED BY <1>8, <1>9, <1>10, <1>11, <1>12

LEMMA OldPowerGo ==
    ASSUME NEW t, NEW w, OldWhole(t, playing, w), t.pc = "power", playing \in BOOLEAN
    PROVE  LET v == Old!SetPowerState(t, t.arg)
           IN  OldWhole([v EXCEPT !.pc = "end",
                                  !.hushed = t.arg = "shutdown" /\ (playing \/ v.hushed)],
                        playing, w)
  <1> DEFINE v == Old!SetPowerState(t, t.arg)
             b == t.arg = "shutdown" /\ (playing \/ v.hushed)
             r == [v EXCEPT !.pc = "end", !.hushed = b]
  <1>1. ~OldCalm
    BY DEF OldWhole, OldApart, OldCalmed
  <1>2. /\ t \in OldStates /\ t.spk = Old!Channels /\ OldRemembers(t, w)
        /\ t.mn_restart <= RESTART_MAX
    BY <1>1 DEF OldWhole, OldApart, OldCalm
  <1>3. t.arg \in OldModes
    BY <1>2 DEF OldStates
  <1>4. OldStated(v, t, t.arg)
    BY <1>2, <1>3, OldState
  <1> HIDE DEF v
  <1>5. b \in BOOLEAN /\ (t.arg = "shutdown" /\ playing => b)
    BY Zenon
  <1>6. /\ r \in OldStates /\ r.hushed = b /\ r.pc = "end"
        /\ OldFixed(r) = OldFixed(v) /\ OldMode(r) = OldMode(v) /\ r.chip = v.chip
        /\ r.latched = v.latched /\ r.stale = v.stale /\ r.lost = v.lost /\ r.quiet = v.quiet
        /\ r.init_work = v.init_work /\ r.irq_enable = v.irq_enable /\ r.irq_work = v.irq_work
        /\ r.mn_restart = v.mn_restart /\ r.stray = v.stray
    <2> HIDE DEF b
    <2>1. v \in OldStates
      BY <1>4 DEF OldStated
    <2> QED BY <1>5, <2>1 DEF OldStates, OldFixed, OldMode
  <1> HIDE DEF b
  <1> HIDE DEF r
  <1>7. ASSUME playing, ~r.hushed PROVE r.mn_power_state # "shutdown"
    <2>1. t.arg # "shutdown"
      BY <1>5, <1>6, <1>7
    <2>2. v.mn_power_state # "shutdown"
      BY <1>4, <2>1 DEF OldStated
    <2> QED BY <1>6, <2>2, OldModeFields
  <1>8. ~t.lost /\ setting_old # "iv_enable" =>
          \A c \in OldRelevant \ t.stale : t.chip[c].set = w
    BY DEF OldWhole, OldKept
  <1>9. setup_old # "switches" /\ setup_old # "mutes"
    BY <1>1 DEF OldCalm
  <1>10. OldWhole(r, playing, w)
    BY <1>1, <1>2, <1>3, <1>4, <1>6, <1>7, <1>8, <1>9, OldPowers
  <1> QED BY <1>10 DEF r, b, v

LEMMA OldDcTaken ==
    ASSUME NEW q \in OldStates
    PROVE  LET t == [q EXCEPT !.dc_work = FALSE, !.irq_enable = FALSE]
           IN  /\ t \in OldStates /\ t.spk = q.spk /\ t.held = q.held /\ t.putting = q.putting
               /\ t.mn_power_state = q.mn_power_state /\ t.mb_power_up = q.mb_power_up
               /\ t.mn_restart = q.mn_restart /\ t.hushed = q.hushed /\ t.lost = q.lost
  BY DEF OldStates

LEMMA OldAskedGo ==
    ASSUME NEW q, NEW w, OldWhole(q, playing, w), ~OldCalm,
           setting_old \in Old!Settings, playing \in BOOLEAN
    PROVE  LET t == [q EXCEPT !.dc_work = FALSE, !.irq_enable = FALSE]
               b == Old!LoadCtrlValues(Old!LoadInit(Old!SoftwareReset(t)))
               kept == [b EXCEPT !.lost = t.lost \/ t.putting # Old!Unset
                                            \/ (setting_old = "rx_mode" /\ t.held # Old!Unset)]
               c == Old!WriteBoth(Old!WriteBoth(kept, "iv_enable", 1), "rx_width", t.held)
           IN  /\ OldWhole(Old!Powering(Old!SetSamplerate(c)), playing, w)
               /\ OldWhole(Old!Ended(Old!SoftwareReset(t)), playing, w)
  <1> DEFINE t == [q EXCEPT !.dc_work = FALSE, !.irq_enable = FALSE]
             a == Old!SoftwareReset(t)
             b == Old!LoadCtrlValues(Old!LoadInit(a))
             n == t.lost \/ t.putting # Old!Unset
                    \/ (setting_old = "rx_mode" /\ t.held # Old!Unset)
             kept == [b EXCEPT !.lost = n]
             e == Old!WriteBoth(kept, "iv_enable", 1)
             c == Old!WriteBoth(e, "rx_width", a.held)
             d == Old!SetSamplerate(c)
  <1>1. q \in OldStates /\ q.spk = Old!Channels /\ OldRemembers(q, w)
    BY DEF OldWhole, OldApart, OldCalm
  <1>2. /\ t \in OldStates /\ t.spk = q.spk /\ t.held = q.held /\ t.putting = q.putting
        /\ t.mn_power_state = q.mn_power_state /\ t.mb_power_up = q.mb_power_up
        /\ t.mn_restart = q.mn_restart /\ t.hushed = q.hushed /\ t.lost = q.lost
    BY <1>1, OldDcTaken, Zenon
  <1> HIDE DEF t
  <1>3. OldEmptied(a, t)
    BY <1>1, <1>2, OldSoft
  <1> HIDE DEF a
  <1>4. /\ OldReady(a, t) /\ a.lost = t.lost
        /\ \A j \in Old!Channels : a.chip[j].set = Old!Unset
    BY <1>3, OldEmptiedReady
  <1>5. OldReady(a, q)
    BY <1>2, <1>4 DEF OldReady
  <1>6. /\ a \in OldStates /\ a.spk = Old!Channels /\ a.held = t.held /\ a.putting = t.putting
        /\ \A j \in Old!Channels : a.chip[j].power # "on"
    BY <1>1, <1>2, <1>4 DEF OldReady
  <1>7. OldRemembers(a, w)
    BY <1>1, <1>2, <1>6 DEF OldRemembers
  <1>8. /\ n \in BOOLEAN /\ (a.lost => n)
        /\ (~n => a.putting = Old!Unset /\ (setting_old = "rx_mode" => a.held = Old!Unset))
    BY <1>4, <1>6, Zenon
  <1> HIDE DEF n
  <1>9. a.held = t.held
    BY <1>6
  <1>10. OldRewritten(d, a) /\ OldBack(d, w)
    BY <1>4, <1>6, <1>7, <1>8, OldReloadAsked
  <1> HIDE DEF d
  <1>11. OldWhole(Old!Ended(a), playing, w)
    <2> DEFINE r == Old!Ended(a)
    <2>1. OldReady(r, a) /\ r.pc = "end" /\ r.lost = TRUE /\ r.quiet = Old!Channels
      BY <1>6, OldEnds
    <2> HIDE DEF r
    <2>2. OldReady(r, q)
      BY <1>5, <2>1, OldReadyOn
    <2>3. OldWhole(r, playing, w)
      BY <2>1, <2>2, OldReloads
    <2> QED BY <2>3 DEF r
  <1>12. OldWhole(Old!Powering(d), playing, w)
    <2> DEFINE r == Old!Powering(d)
    <2>1. OldReady(d, a) /\ \A j \in Old!Channels : d.chip[j].power # "on"
      BY <1>6, <1>10, OldRewrittenReady
    <2>2. d \in OldStates
      BY <2>1 DEF OldReady
    <2>3. /\ OldReady(r, d) /\ r.pc = "power" /\ r.chip = d.chip /\ r.stale = d.stale
          /\ r.lost = d.lost
      BY <2>1, <2>2, OldToPower
    <2> HIDE DEF r
    <2>4. OldReady(r, q)
      BY <1>5, <2>1, <2>3, OldReadyOn, Zenon
    <2>5. OldBack(r, w)
      BY <1>10, <2>3 DEF OldBack
    <2>6. OldWhole(r, playing, w)
      BY <2>3, <2>4, <2>5, OldReloads
    <2> QED BY <2>6 DEF r
  <1>13. d = Old!SetSamplerate(Old!WriteBoth(e, "rx_width", t.held))
    BY <1>9, Zenon DEF d
  <1> QED BY <1>11, <1>12, <1>13, Zenon DEF c, e, kept, b, n, a, t

(* Where neither the chips' power, what they latched and are set to nor the marks change *)
OldSame(r, t) ==
    /\ r \in OldStates /\ r.spk = t.spk /\ r.held = t.held /\ r.putting = t.putting
    /\ r.mn_power_state = t.mn_power_state /\ r.mb_power_up = t.mb_power_up
    /\ r.mb_mute = t.mb_mute /\ r.mn_restart = t.mn_restart
    /\ \A c \in Old!Channels :
         /\ r.chip[c].power = t.chip[c].power /\ r.chip[c].set = t.chip[c].set
         /\ r.latched[c] = t.latched[c]
    /\ r.stray = t.stray /\ r.hushed = t.hushed /\ r.quiet = t.quiet
    /\ r.stale = t.stale /\ r.lost = t.lost

LEMMA OldSameHolds ==
    ASSUME NEW t, NEW p \in BOOLEAN, NEW w, OldWhole(t, p, w),
           NEW r, OldSame(r, t),
           OldCalm => r.pc = "idle" /\ ~r.irq_work /\ ~r.dc_work,
           t.pc \in {"idle", "end"} \/ r.pc \in {"config", "power"},
           t.pc = "power" => r.pc = "power",
           OldListens(r)
    PROVE  OldWhole(r, p, w)
  <1>1. r \in OldStates /\ r.mn_restart <= RESTART_MAX /\ OldPowered(r)
    BY DEF OldWhole, OldSame, OldPowered
  <1>2. OldSilent(r, p)
    BY DEF OldWhole, OldSame, OldSilent
  <1>3. OldApart(r, p)
    BY DEF OldWhole, OldSame, OldApart, OldCalm, OldCalmed, OldSwitched
  <1>4. OldSounds(r, p)
    <2>1. r.spk \subseteq Old!Channels
      BY <1>1, OldHeldTyped
    <2> QED BY <2>1 DEF OldWhole, OldSame, OldSounds
  <1>5. OldRemembers(r, w)
    BY DEF OldWhole, OldSame, OldRemembers
  <1>6. OldKept(r, w)
    <2>1. OldRelevant \subseteq Old!Channels
      BY OldMasks, <1>1 DEF OldRelevant
    <2> QED BY <2>1 DEF OldWhole, OldSame, OldKept
  <1> QED BY <1>1, <1>2, <1>3, <1>4, <1>5, <1>6, Zenon DEF OldWhole

LEMMA OldSameOn ==
    ASSUME NEW r, NEW u, NEW t, OldSame(r, u), OldSame(u, t)
    PROVE  OldSame(r, t)
  BY Zenon DEF OldSame

LEMMA OldEnableSame ==
    ASSUME NEW t \in OldStates, NEW val \in BOOLEAN, NEW s \in SUBSET Old!Channels
    PROVE  LET r == Old!InterruptEnable(t, val, s)
           IN  /\ r \in OldStates /\ OldSame(r, t) /\ r.pc = t.pc
               /\ r.irq_enable = t.irq_enable /\ r.init_work = t.init_work
               /\ r.dc_work = t.dc_work
               /\ r.irq_work = (t.irq_work \/ (t.irq_enable /\ Old!Pulled(r)))
               /\ (\A c \in Old!Channels : t.latched[c] = {}) => r.irq_work = t.irq_work
  <1> DEFINE r == Old!InterruptEnable(t, val, s)
  <1>1. /\ r \in OldStates
        /\ \A c \in Old!Channels :
             r.chip[c].power = t.chip[c].power /\ r.chip[c].set = t.chip[c].set
        /\ r.irq_enable = t.irq_enable
        /\ r.irq_work = (t.irq_work \/ (t.irq_enable /\ Old!Pulled(r)))
        /\ OldFixed(r) = OldFixed(t) /\ OldMode(r) = OldMode(t) /\ OldFlow(r) = OldFlow(t)
        /\ OldMarks(r) = OldMarks(t)
        /\ r.latched = t.latched /\ r.init_work = t.init_work
        /\ r.lost = t.lost /\ r.stale = t.stale
    BY OldEnable
  <1> HIDE DEF r
  <1>2. OldSame(r, t) /\ r.dc_work = t.dc_work /\ r.pc = t.pc
    BY <1>1, OldFixedFields, OldModeFields, OldFlowFields, OldMarksFields DEF OldSame
  <1>3. (\A c \in Old!Channels : t.latched[c] = {}) => r.irq_work = t.irq_work
    <2>1. (\A c \in Old!Channels : t.latched[c] = {}) => Old!Pulled(r) = FALSE
      BY <1>1, OldNotPulled, Zenon
    <2>2. OldLines(r, t)
      BY <1>1, <2>1, OldLineKept
    <2> QED BY <2>2, Zenon DEF OldLines
  <1> QED BY <1>1, <1>2, <1>3, Zenon DEF r

LEMMA OldEnableIrqSame ==
    ASSUME NEW t \in OldStates, NEW b \in BOOLEAN
    PROVE  LET r == Old!EnableIrq(t, b)
           IN  /\ r \in OldStates /\ OldSame(r, t) /\ r.pc = t.pc
               /\ r.irq_enable = b /\ r.init_work = t.init_work /\ r.dc_work = t.dc_work
               /\ r.irq_work = (t.irq_work \/ (b /\ Old!Pulled(r)))
               /\ (\A c \in Old!Channels : t.latched[c] = {}) => r.irq_work = t.irq_work
  <1> DEFINE r == Old!EnableIrq(t, b)
  <1>1. /\ r \in OldStates /\ r.irq_enable = b
        /\ r.irq_work = (t.irq_work \/ (b /\ Old!Pulled(r)))
        /\ OldFixed(r) = OldFixed(t) /\ OldMode(r) = OldMode(t) /\ OldFlow(r) = OldFlow(t)
        /\ OldMarks(r) = OldMarks(t)
        /\ r.chip = t.chip /\ r.latched = t.latched /\ r.init_work = t.init_work
        /\ r.lost = t.lost /\ r.stale = t.stale
    BY OldEnableIrq
  <1> HIDE DEF r
  <1>2. OldSame(r, t) /\ r.dc_work = t.dc_work /\ r.pc = t.pc
    BY <1>1, OldFixedFields, OldModeFields, OldFlowFields, OldMarksFields DEF OldSame
  <1>3. (\A c \in Old!Channels : t.latched[c] = {}) => r.irq_work = t.irq_work
    <2>1. (\A c \in Old!Channels : t.latched[c] = {}) => Old!Pulled(r) = FALSE
      BY <1>1, OldNotPulled, Zenon
    <2>2. OldLines(r, t)
      BY <1>1, <2>1, OldLineKept
    <2> QED BY <2>2, Zenon DEF OldLines
  <1> QED BY <1>1, <1>2, <1>3, Zenon DEF r

LEMMA OldWorkGo ==
    ASSUME NEW q, NEW w, OldWhole(q, playing, w), q.irq_work, q.pc = "idle",
           playing \in BOOLEAN
    PROVE  LET t == [q EXCEPT !.irq_work = FALSE]
               u == [t EXCEPT !.irq_enable = FALSE]
               m == [Old!InterruptEnable(u, FALSE, Old!Reach(u)) EXCEPT !.failsafe = FALSE]
           IN  /\ OldWhole([t EXCEPT !.missed = Old!Pulled(t)], playing, w)
               /\ OldWhole([u EXCEPT !.pc = "config"], playing, w)
               /\ q.mn_power_state = "shutdown" => OldWhole(Old!EnableIrq(u, TRUE), playing, w)
               /\ OldWhole(Old!Powering(m), playing, w)
               /\ OldWhole(Old!EnableIrq(Old!InterruptEnable(m, TRUE, Old!Reach(m)), TRUE),
                           playing, w)
               /\ OldWhole([m EXCEPT !.pc = "config"], playing, w)
  <1> DEFINE t == [q EXCEPT !.irq_work = FALSE]
             u == [t EXCEPT !.irq_enable = FALSE]
             x == Old!InterruptEnable(u, FALSE, Old!Reach(u))
             m == [x EXCEPT !.failsafe = FALSE]
  <1>1. q \in OldStates /\ ~OldCalm /\ OldListens(q)
    BY DEF OldWhole, OldApart, OldCalmed
  <1>2. /\ t \in OldStates /\ OldSame(t, q) /\ t.pc = "idle" /\ t.init_work = q.init_work
        /\ t.irq_enable = q.irq_enable /\ t.chip = q.chip /\ t.latched = q.latched
    BY <1>1 DEF OldStates, OldSame
  <1> HIDE DEF t
  <1>3. u \in OldStates /\ OldSame(u, t) /\ u.pc = "idle"
    BY <1>2 DEF OldStates, OldSame
  <1> HIDE DEF u
  <1>4. OldSame(u, q)
    BY <1>2, <1>3, OldSameOn
  <1>5. x \in OldStates /\ OldSame(x, u) /\ x.pc = "idle"
    <2>1. Old!Reach(u) \in SUBSET Old!Channels
      BY <1>3, OldMasks
    <2> QED BY <1>3, <2>1, OldEnableSame
  <1> HIDE DEF x
  <1>6. m \in OldStates /\ OldSame(m, x) /\ m.pc = "idle"
    BY <1>5 DEF OldStates, OldSame
  <1> HIDE DEF m
  <1>7. OldSame(m, q)
    BY <1>4, <1>5, <1>6, OldSameOn
  <1>8. OldWhole([t EXCEPT !.missed = Old!Pulled(t)], playing, w)
    <2> DEFINE b == Old!Pulled(t)
               r == [t EXCEPT !.missed = b]
    <2>1. b \in BOOLEAN
      BY Zenon DEF Old!Pulled
    <2> HIDE DEF b
    <2>2. /\ r \in OldStates /\ OldSame(r, t) /\ r.pc = "idle" /\ r.missed = b
          /\ r.init_work = t.init_work /\ r.irq_enable = t.irq_enable
          /\ r.chip = t.chip /\ r.latched = t.latched
      BY <1>2, <2>1 DEF OldStates, OldSame
    <2> HIDE DEF r
    <2>3. OldSame(r, q)
      BY <1>2, <2>2, OldSameOn
    <2>4. Old!Pulled(r) = Old!Pulled(t)
      BY <2>2, Zenon DEF Old!Pulled
    <2>5. OldListens(r)
      <3>1. Old!Pulled(r) = r.missed
        BY <2>2, <2>4 DEF b
      <3>2. r.mn_power_state = q.mn_power_state
        BY <2>3 DEF OldSame
      <3> QED BY <1>1, <1>2, <2>2, <3>1, <3>2 DEF OldListens
    <2>6. OldWhole(r, playing, w)
      BY <1>1, <2>2, <2>3, <2>5, OldSameHolds
    <2> QED BY <2>6 DEF r, b
  <1>9. OldWhole([u EXCEPT !.pc = "config"], playing, w)
    <2> DEFINE r == [u EXCEPT !.pc = "config"]
    <2>1. OldSame(r, u) /\ r.pc = "config"
      BY <1>3 DEF OldStates, OldSame
    <2> HIDE DEF r
    <2>2. OldSame(r, q) /\ OldListens(r)
      BY <1>4, <2>1, OldSameOn DEF OldListens
    <2>3. OldWhole(r, playing, w)
      BY <1>1, <2>1, <2>2, OldSameHolds
    <2> QED BY <2>3 DEF r
  <1>10. ASSUME q.mn_power_state = "shutdown"
         PROVE  OldWhole(Old!EnableIrq(u, TRUE), playing, w)
    <2> DEFINE r == Old!EnableIrq(u, TRUE)
    <2>1. OldSame(r, u) /\ r.pc = "idle"
      BY <1>3, OldEnableIrqSame
    <2> HIDE DEF r
    <2>2. OldSame(r, q)
      BY <1>4, <2>1, OldSameOn
    <2>3. OldListens(r)
      BY <1>10, <2>2 DEF OldListens, OldSame
    <2>4. OldWhole(r, playing, w)
      BY <1>1, <2>1, <2>2, <2>3, OldSameHolds
    <2> QED BY <2>4 DEF r
  <1>11. OldWhole(Old!Powering(m), playing, w)
    <2> DEFINE r == Old!Powering(m)
    <2>1. OldSame(r, m) /\ r.pc = "power"
      BY <1>6 DEF OldStates, OldSame, Old!Powering
    <2> HIDE DEF r
    <2>2. OldSame(r, q) /\ OldListens(r)
      BY <1>7, <2>1, OldSameOn DEF OldListens
    <2>3. OldWhole(r, playing, w)
      BY <1>1, <2>1, <2>2, OldSameHolds
    <2> QED BY <2>3 DEF r
  <1>12. OldWhole(Old!EnableIrq(Old!InterruptEnable(m, TRUE, Old!Reach(m)), TRUE), playing, w)
    <2> DEFINE y == Old!InterruptEnable(m, TRUE, Old!Reach(m))
               r == Old!EnableIrq(y, TRUE)
    <2>1. Old!Reach(m) \in SUBSET Old!Channels
      BY <1>6, OldMasks
    <2>2. y \in OldStates /\ OldSame(y, m) /\ y.pc = "idle"
      BY <1>6, <2>1, OldEnableSame
    <2> HIDE DEF y
    <2>3. /\ OldSame(r, y) /\ r.pc = "idle" /\ r.irq_enable = TRUE
          /\ r.irq_work = (y.irq_work \/ (TRUE /\ Old!Pulled(r)))
      BY <2>2, OldEnableIrqSame
    <2> HIDE DEF r
    <2>4. OldSame(r, q)
      BY <1>7, <2>2, <2>3, OldSameOn
    <2>5. OldListens(r)
      <3>1. Old!Pulled(r) => r.irq_work
        BY <2>3, Zenon
      <3> QED BY <2>3, <3>1 DEF OldListens
    <2>6. OldWhole(r, playing, w)
      BY <1>1, <2>3, <2>4, <2>5, OldSameHolds
    <2> QED BY <2>6 DEF r, y
  <1>13. OldWhole([m EXCEPT !.pc = "config"], playing, w)
    <2> DEFINE r == [m EXCEPT !.pc = "config"]
    <2>1. OldSame(r, m) /\ r.pc = "config"
      BY <1>6 DEF OldStates, OldSame
    <2> HIDE DEF r
    <2>2. OldSame(r, q) /\ OldListens(r)
      BY <1>7, <2>1, OldSameOn DEF OldListens
    <2>3. OldWhole(r, playing, w)
      BY <1>1, <2>1, <2>2, OldSameHolds
    <2> QED BY <2>3 DEF r
  <1> QED BY <1>8, <1>9, <1>10, <1>11, <1>12, <1>13, Zenon DEF m, x, u, t

LEMMA OldEndsGo ==
    ASSUME NEW t, NEW w, OldWhole(t, playing, w), t.pc = "end", playing \in BOOLEAN
    PROVE  OldWhole([Old!EnableIrq(t, TRUE) EXCEPT !.pc = "idle", !.arg = "shutdown"],
                    playing, w)
  <1> DEFINE y == Old!EnableIrq(t, TRUE)
             r == [y EXCEPT !.pc = "idle", !.arg = "shutdown"]
  <1>1. t \in OldStates /\ ~OldCalm
    BY DEF OldWhole, OldApart, OldCalmed
  <1>2. /\ y \in OldStates /\ OldSame(y, t) /\ y.irq_enable = TRUE
        /\ y.irq_work = ((TRUE /\ Old!Pulled(y)) \/ t.irq_work)
    <2>1. /\ y \in OldStates /\ OldSame(y, t) /\ y.irq_enable = TRUE
          /\ y.irq_work = (t.irq_work \/ (TRUE /\ Old!Pulled(y)))
      BY <1>1, OldEnableIrqSame
    <2> HIDE DEF y
    <2> QED BY <2>1, Zenon
  <1> HIDE DEF y
  <1>3. /\ r \in OldStates /\ OldSame(r, y) /\ r.pc = "idle" /\ r.irq_enable = TRUE
        /\ r.irq_work = y.irq_work /\ r.chip = y.chip /\ r.latched = y.latched
    BY <1>2 DEF OldStates, OldSame, OldModes
  <1> HIDE DEF r
  <1>4. OldSame(r, t)
    BY <1>2, <1>3, OldSameOn
  <1>5. Old!Pulled(r) = Old!Pulled(y)
    BY <1>3, Zenon DEF Old!Pulled
  <1>6. OldListens(r)
    <2>1. Old!Pulled(r) => r.irq_work
      BY <1>2, <1>3, <1>5, Zenon
    <2> QED BY <1>3, <2>1 DEF OldListens
  <1>7. OldWhole(r, playing, w)
    BY <1>1, <1>3, <1>4, <1>6, OldSameHolds
  <1> QED BY <1>7 DEF r, y

LEMMA OldInitWorkGo ==
    ASSUME NEW q, NEW p \in BOOLEAN, NEW w, OldWhole(q, p, w), q.pc = "idle"
    PROVE  LET t == [q EXCEPT !.init_work = FALSE,
                              !.quiet = q.quiet \cup {c \in Old!Channels : q.latched[c] # {}}]
               s == Old!Reach(t)
           IN  OldWhole(Old!EnableIrq(Old!InterruptEnable(Old!InterruptClear(t, s), TRUE, s),
                                      TRUE), p, w)
  <1> DEFINE n == q.quiet \cup {c \in Old!Channels : q.latched[c] # {}}
             t == [q EXCEPT !.init_work = FALSE, !.quiet = n]
             s == Old!Reach(t)
             z == Old!InterruptClear(t, s)
             y == Old!InterruptEnable(z, TRUE, s)
             r == Old!EnableIrq(y, TRUE)
  <1>1. q \in OldStates
    BY DEF OldWhole
  <1>2. n \in SUBSET Old!Channels /\ q.quiet \subseteq n
        /\ \A c \in Old!Channels \ n : q.latched[c] = {}
    BY <1>1 DEF OldStates
  <1> HIDE DEF n
  <1>3. /\ t \in OldStates /\ t.spk = q.spk /\ t.held = q.held /\ t.putting = q.putting
        /\ t.mn_power_state = q.mn_power_state /\ t.mb_power_up = q.mb_power_up
        /\ t.mb_mute = q.mb_mute /\ t.mn_restart = q.mn_restart /\ t.dc_work = q.dc_work
        /\ t.chip = q.chip /\ t.latched = q.latched /\ t.irq_work = q.irq_work
        /\ t.stray = q.stray /\ t.hushed = q.hushed /\ t.quiet = n
        /\ t.stale = q.stale /\ t.lost = q.lost /\ t.pc = q.pc
    BY <1>1, <1>2 DEF OldStates
  <1> HIDE DEF t
  <1>4. s \in SUBSET Old!Channels
    BY <1>3, OldMasks
  <1> HIDE DEF s
  <1>5. /\ z \in OldStates
        /\ \A c \in Old!Channels : z.latched[c] = IF c \in s THEN {} ELSE t.latched[c]
        /\ OldFixed(z) = OldFixed(t) /\ OldMode(z) = OldMode(t) /\ OldFlow(z) = OldFlow(t)
        /\ OldLine(z) = OldLine(t) /\ OldMarks(z) = OldMarks(t)
        /\ z.chip = t.chip /\ z.lost = t.lost /\ z.stale = t.stale
    BY <1>3, <1>4, OldClear
  <1> HIDE DEF z
  <1>6. /\ z.spk = q.spk /\ z.held = q.held /\ z.putting = q.putting
        /\ z.mn_power_state = q.mn_power_state /\ z.mb_power_up = q.mb_power_up
        /\ z.mb_mute = q.mb_mute /\ z.mn_restart = q.mn_restart /\ z.dc_work = q.dc_work
        /\ z.chip = q.chip /\ z.irq_work = q.irq_work
        /\ z.stray = q.stray /\ z.hushed = q.hushed /\ z.quiet = n
        /\ z.stale = q.stale /\ z.lost = q.lost /\ z.pc = "idle"
        /\ \A c \in Old!Channels : q.latched[c] = {} => z.latched[c] = {}
    <2>1. /\ z.spk = t.spk /\ z.held = t.held /\ z.putting = t.putting
          /\ z.mb_mute = t.mb_mute /\ z.dc_work = t.dc_work
      BY <1>5, OldFixedFields, Zenon
    <2>2. /\ z.mn_restart = t.mn_restart /\ z.pc = t.pc /\ z.irq_work = t.irq_work
          /\ z.mn_power_state = t.mn_power_state /\ z.mb_power_up = t.mb_power_up
          /\ z.stray = t.stray /\ z.hushed = t.hushed /\ z.quiet = t.quiet
      BY <1>5, OldFlowFields, OldLineFields, OldModeFields, OldMarksFields, Zenon
    <2> QED BY <1>3, <1>5, <2>1, <2>2
  <1>7. /\ y \in OldStates /\ OldSame(y, z) /\ y.pc = z.pc /\ y.dc_work = z.dc_work
        /\ (\A c \in Old!Channels : z.latched[c] = {}) => y.irq_work = z.irq_work
    BY <1>4, <1>5, OldEnableSame
  <1> HIDE DEF y
  <1>8. /\ r \in OldStates /\ OldSame(r, y) /\ r.pc = y.pc /\ r.dc_work = y.dc_work
        /\ r.irq_enable = TRUE /\ r.irq_work = (y.irq_work \/ (TRUE /\ Old!Pulled(r)))
        /\ (\A c \in Old!Channels : y.latched[c] = {}) => r.irq_work = y.irq_work
    BY <1>7, OldEnableIrqSame
  <1> HIDE DEF r
  <1>9. OldSame(r, z)
    BY <1>7, <1>8, OldSameOn
  <1>10. /\ r.spk = q.spk /\ r.held = q.held /\ r.putting = q.putting
         /\ r.mn_power_state = q.mn_power_state /\ r.mb_power_up = q.mb_power_up
         /\ r.mb_mute = q.mb_mute /\ r.mn_restart = q.mn_restart /\ r.dc_work = q.dc_work
         /\ r.stray = q.stray /\ r.hushed = q.hushed /\ r.quiet = n
         /\ r.stale = q.stale /\ r.lost = q.lost /\ r.pc = "idle"
         /\ \A c \in Old!Channels :
              /\ r.chip[c].power = q.chip[c].power /\ r.chip[c].set = q.chip[c].set
              /\ (q.latched[c] = {} => r.latched[c] = {})
    BY <1>6, <1>7, <1>8, <1>9 DEF OldSame
  <1>11. r.mn_restart <= RESTART_MAX /\ OldPowered(r) /\ OldSilent(r, p)
    BY <1>10 DEF OldWhole, OldPowered, OldSilent
  <1>12. OldApart(r, p)
    <2>1. ASSUME OldCalm PROVE OldCalmed(r)
      <3>1. OldCalmed(q)
        BY <2>1 DEF OldWhole, OldApart
      <3>2. \A c \in Old!Channels : z.latched[c] = {} /\ y.latched[c] = {}
        BY <1>6, <1>7, <3>1 DEF OldCalmed, OldSame
      <3>3. r.irq_work = q.irq_work
        BY <1>6, <1>7, <1>8, <3>2
      <3> QED BY <1>10, <3>1, <3>3 DEF OldCalmed
    <2> QED BY <1>10, <2>1 DEF OldWhole, OldApart, OldSwitched
  <1>13. OldSounds(r, p)
    <2>1. r.spk \subseteq Old!Channels
      BY <1>8, OldHeldTyped
    <2> QED BY <1>2, <1>10, <2>1 DEF OldWhole, OldSounds
  <1>14. OldRemembers(r, w)
    BY <1>10 DEF OldWhole, OldRemembers
  <1>15. OldKept(r, w)
    <2>1. OldRelevant \subseteq Old!Channels
      BY OldMasks, <1>1 DEF OldRelevant
    <2> QED BY <1>10, <2>1 DEF OldWhole, OldKept
  <1>16. OldListens(r)
    <2>1. Old!Pulled(r) => r.irq_work
      BY <1>8, Zenon
    <2> QED BY <1>8, <2>1 DEF OldListens
  <1>17. OldWhole(r, p, w)
    BY <1>8, <1>11, <1>12, <1>13, <1>14, <1>15, <1>16 DEF OldWhole
  <1> QED BY <1>17 DEF r, y, z, s, t, n

--------------------------------------------------------------------------------
(* The TAS256x: the stream and the switches of its channels *)

(* The device powered up for channels of which some are switched on *)
LEMMA OldSwitchedOn ==
    ASSUME NEW t \in OldStates, setup_old = "switches", setting_old = "fmt",
           playing \in BOOLEAN, NEW w, OldCalmed(t), ~t.mb_mute, t.spk # {},
           t.mn_restart <= RESTART_MAX, OldRemembers(t, w), OldKept(t, w),
           \A c \in Old!Channels : t.chip[c].power = "on" => c \in t.spk
    PROVE  LET v == Old!SetPowerState(t, "active")
           IN  /\ v \in OldStates /\ v.quiet = {}
               /\ \A r \in OldStates :
                    /\ OldFixed(r) = OldFixed(v) /\ OldMode(r) = OldMode(v)
                    /\ OldFlow(r) = OldFlow(v) /\ OldLine(r) = OldLine(v)
                    /\ r.chip = v.chip /\ r.latched = v.latched /\ r.stale = v.stale
                    /\ r.lost = v.lost /\ r.init_work = v.init_work /\ r.stray = FALSE
                    => OldWhole(r, TRUE, w)
  <1> DEFINE v == Old!SetPowerActive(t)
  <1>1. Old!SetPowerState(t, "active") = v
    BY DEF Old!SetPowerState
  <1>2. OldActivated(v, t)
    BY OldActive
  <1> HIDE DEF v
  <1>3. Old!Chn(t) = t.spk
    BY OldMasks
  <1>4. ASSUME NEW r \in OldStates,
               OldFixed(r) = OldFixed(v), OldMode(r) = OldMode(v),
               OldFlow(r) = OldFlow(v), OldLine(r) = OldLine(v),
               r.chip = v.chip, r.latched = v.latched, r.stale = v.stale,
               r.lost = v.lost, r.init_work = v.init_work, r.stray = FALSE
        PROVE  OldWhole(r, TRUE, w)
    <2>1. /\ r.spk = t.spk /\ r.held = t.held /\ r.putting = t.putting
          /\ r.mb_mute = t.mb_mute /\ r.dc_work = t.dc_work
      BY <1>2, <1>4, OldFixedFields DEF OldActivated
    <2>2. /\ r.mn_restart = t.mn_restart /\ r.pc = t.pc
          /\ r.mn_power_state = "active" /\ r.mb_power_up = TRUE
      BY <1>2, <1>4, OldFlowFields, OldModeFields DEF OldActivated
    <2>3. \A c \in Old!Channels : t.latched[c] = {}
      BY DEF OldCalmed
    <2>4. r.irq_work = t.irq_work
      BY <1>2, <1>4, <2>3, OldLineFields DEF OldActivated, OldLines
    <2>5. \A c \in Old!Channels :
            /\ r.chip[c].power = IF c \in t.spk THEN "on" ELSE t.chip[c].power
            /\ r.chip[c].set = t.chip[c].set /\ r.latched[c] = {}
      BY <1>2, <1>3, <1>4, <2>3 DEF OldActivated
    <2>6. t.lost \in BOOLEAN /\ t.spk \subseteq Old!Channels
      BY OldHeldTyped
    <2>7. r.stale = t.stale /\ r.lost = t.lost /\ r.init_work = TRUE
      BY <1>2, <1>4, <2>6 DEF OldActivated
    <2>8. r.mn_restart <= RESTART_MAX /\ OldPowered(r) /\ OldSilent(r, TRUE)
      BY <2>2, <2>5 DEF OldPowered, OldSilent
    <2>9. OldApart(r, TRUE)
      BY <1>4, <2>1, <2>2, <2>4, <2>5 DEF OldApart, OldCalmed, OldSwitched
    <2>10. OldSounds(r, TRUE)
      BY <2>1, <2>2, <2>5, <2>6 DEF OldSounds
    <2>11. OldRemembers(r, w)
      BY <2>1 DEF OldRemembers
    <2>12. OldKept(r, w)
      <3>1. OldRelevant \subseteq Old!Channels
        BY OldMasks DEF OldRelevant
      <3> QED BY <2>5, <2>7, <3>1 DEF OldKept
    <2>13. OldListens(r)
      BY <2>7 DEF OldListens
    <2> QED BY <1>4, <2>8, <2>9, <2>10, <2>11, <2>12, <2>13 DEF OldWhole
  <1>5. v \in OldStates /\ v.quiet = {}
    BY <1>2 DEF OldActivated
  <1> QED BY <1>1, <1>4, <1>5, Zenon

(* All that is off, with the rest as it was *)
OldOff(v, t) ==
    /\ v \in OldStates /\ v.mb_power_up = FALSE /\ v.mn_power_state = "shutdown"
    /\ v.stray = FALSE /\ v.mn_restart = t.mn_restart /\ v.pc = t.pc
    /\ v.held = t.held /\ v.putting = t.putting /\ v.mb_mute = t.mb_mute
    /\ v.dc_work = t.dc_work /\ v.irq_work = t.irq_work
    /\ v.stale = t.stale /\ v.lost = t.lost
    /\ \A c \in Old!Channels :
         /\ v.chip[c].power # "on" /\ v.chip[c].set = t.chip[c].set
         /\ v.latched[c] = {}

LEMMA OldSwitchedOff ==
    ASSUME NEW t, NEW w, OldWhole(t, TRUE, w), setup_old = "switches", setting_old = "fmt",
           t.spk # {}
    PROVE  OldOff(Old!DacPrePmd(t), t) /\ Old!DacPrePmd(t).spk = t.spk
  <1>1. t \in OldStates /\ OldCalmed(t) /\ OldSwitched(t, TRUE) /\ OldPowered(t) /\ OldSilent(t, TRUE)
    BY DEF OldWhole, OldApart, OldCalm
  <1>2. \A c \in Old!Channels : t.latched[c] = {}
    BY <1>1 DEF OldCalmed
  <1>3. CASE t.mb_power_up
    <2> DEFINE v == Old!SetPowerShutdown(t)
    <2>1. Old!DacPrePmd(t) = v
      BY <1>3 DEF Old!DacPrePmd, Old!SetPowerState
    <2>2. OldShut(v, t)
      BY <1>1, OldShutdown
    <2> HIDE DEF v
    <2>3. Old!Chn(t) = t.spk
      BY <1>1, OldMasks
    <2>4. /\ v.spk = t.spk /\ v.held = t.held /\ v.putting = t.putting
          /\ v.mb_mute = t.mb_mute /\ v.dc_work = t.dc_work
          /\ v.mn_restart = t.mn_restart /\ v.pc = t.pc
      BY <2>2, OldFixedFields, OldFlowFields DEF OldShut
    <2>5. v.irq_work = t.irq_work
      BY <1>2, <2>2 DEF OldShut, OldLines
    <2>6. \A c \in Old!Channels :
            v.chip[c].power # "on" /\ v.chip[c].set = t.chip[c].set /\ v.latched[c] = {}
      BY <1>1, <1>2, <2>2, <2>3 DEF OldShut, OldSwitched
    <2>7. t.lost \in BOOLEAN
      BY <1>1, OldHeldTyped
    <2>8. v.lost = t.lost
      BY <2>2, <2>7 DEF OldShut
    <2> QED BY <2>1, <2>2, <2>4, <2>5, <2>6, <2>8 DEF OldOff, OldShut
  <1>4. CASE ~t.mb_power_up
    <2>1. Old!DacPrePmd(t) = t
      BY <1>4 DEF Old!DacPrePmd
    <2>2. t.mb_power_up = FALSE /\ t.stray = FALSE
      BY <1>1, <1>4 DEF OldStates, OldSwitched
    <2>3. t.mn_power_state = "shutdown"
      BY <1>1, <2>2 DEF OldPowered
    <2>4. \A c \in Old!Channels : t.chip[c].power # "on"
      BY <1>1, <2>2 DEF OldSilent
    <2> QED BY <1>1, <1>2, <2>1, <2>2, <2>3, <2>4 DEF OldOff
  <1> QED BY <1>3, <1>4

LEMMA OldOffHolds ==
    ASSUME NEW t, NEW b, NEW w, OldWhole(t, b, w), setup_old = "switches",
           NEW v, OldOff(v, t), NEW p, ~p \/ v.hushed
    PROVE  OldWhole(v, p, w)
  <1>1. v \in OldStates /\ v.mn_restart <= RESTART_MAX /\ OldPowered(v) /\ OldSilent(v, p)
    BY DEF OldWhole, OldOff, OldPowered, OldSilent
  <1>2. OldApart(v, p)
    BY DEF OldWhole, OldOff, OldApart, OldCalm, OldCalmed, OldSwitched
  <1>3. OldSounds(v, p) /\ OldListens(v)
    BY DEF OldOff, OldSounds, OldListens
  <1>4. OldRemembers(v, w)
    BY DEF OldWhole, OldOff, OldRemembers
  <1>5. OldKept(v, w)
    <2>1. OldRelevant \subseteq Old!Channels
      BY OldMasks, <1>1 DEF OldRelevant
    <2> QED BY <2>1 DEF OldWhole, OldOff, OldKept
  <1> QED BY <1>1, <1>2, <1>3, <1>4, <1>5 DEF OldWhole

LEMMA OldIdle ==
    ASSUME NEW t, NEW w, OldWhole(t, FALSE, w), setup_old = "switches"
    PROVE  OldOff(t, t)
  <1>1. t \in OldStates /\ OldCalmed(t) /\ OldSwitched(t, FALSE) /\ OldPowered(t) /\ OldSilent(t, FALSE)
    BY DEF OldWhole, OldApart, OldCalm
  <1>2. t.mb_power_up = FALSE /\ t.stray = FALSE
    BY <1>1 DEF OldStates, OldSwitched
  <1>3. t.mn_power_state = "shutdown"
    BY <1>1, <1>2 DEF OldPowered
  <1> QED BY <1>1, <1>2, <1>3 DEF OldOff, OldSilent, OldCalmed

(* The switches of a device that is off *)
LEMMA OldOffSwitched ==
    ASSUME NEW t, NEW v, OldOff(v, t), NEW s \in SUBSET Old!Channels
    PROVE  /\ OldOff([v EXCEPT !.spk = s], t) /\ [v EXCEPT !.spk = s].hushed = v.hushed
           /\ OldOff([v EXCEPT !.spk = s, !.hushed = TRUE], t)
           /\ [v EXCEPT !.spk = s, !.hushed = TRUE].hushed = TRUE
  BY DEF OldOff, OldStates

LEMMA OldFmtSwitched ==
    ASSUME OldSetting, Old!TasAssumption, OldCalm
    PROVE  setting_old = "fmt"
  BY OldSettingIs DEF OldCalm

(* The rest as it was, but for what is marked *)
OldUp(r, v) ==
    /\ r \in OldStates /\ OldFixed(r) = OldFixed(v) /\ OldMode(r) = OldMode(v)
    /\ OldFlow(r) = OldFlow(v) /\ OldLine(r) = OldLine(v)
    /\ r.chip = v.chip /\ r.latched = v.latched /\ r.stale = v.stale
    /\ r.lost = v.lost /\ r.init_work = v.init_work /\ r.stray = FALSE
    /\ r.quiet = v.quiet

(* The device is powered, or is powered up, for a stream. *)
LEMMA OldStreamUp ==
    ASSUME NEW t, NEW w, OldWhole(t, playing, w), t.spk # {},
           NEW r, OldUp(r, Old!DacPostPmu(t)),
           OldSetting, Old!TasAssumption, playing \in BOOLEAN
    PROVE  OldWhole(r, TRUE, w)
  <1> DEFINE v == Old!DacPostPmu(t)
  <1>0. v = Old!DacPostPmu(t)
    OBVIOUS
  <1> HIDE DEF v
  <1>1. t \in OldStates
    BY DEF OldWhole
  <1>u. /\ r \in OldStates /\ OldFixed(r) = OldFixed(v) /\ OldMode(r) = OldMode(v)
        /\ OldFlow(r) = OldFlow(v) /\ OldLine(r) = OldLine(v)
        /\ r.chip = v.chip /\ r.latched = v.latched /\ r.stale = v.stale
        /\ r.lost = v.lost /\ r.init_work = v.init_work /\ r.stray = FALSE
        /\ r.quiet = v.quiet
    BY <1>0 DEF OldUp
  <1>2. CASE t.mb_power_up
    <2>1. v = t
      BY <1>0, <1>2 DEF Old!DacPostPmu
    <2>2. /\ r.spk = t.spk /\ r.held = t.held /\ r.putting = t.putting
          /\ r.mb_mute = t.mb_mute /\ r.dc_work = t.dc_work /\ r.missed = t.missed
      BY <1>u, <2>1, OldFixedFields
    <2>3. /\ r.mn_restart = t.mn_restart /\ r.pc = t.pc /\ r.irq_enable = t.irq_enable
          /\ r.mn_power_state = t.mn_power_state /\ r.mb_power_up = t.mb_power_up
          /\ r.irq_work = t.irq_work
      BY <1>u, <2>1, OldFlowFields, OldModeFields, OldLineFields
    <2>4. r.mb_power_up /\ r.mn_power_state # "shutdown"
      BY <1>2, <2>3 DEF OldWhole, OldPowered
    <2>5. r.mn_restart <= RESTART_MAX /\ OldPowered(r) /\ OldSilent(r, TRUE)
      BY <1>u, <2>3, <2>4 DEF OldWhole, OldPowered, OldSilent
    <2>6. OldApart(r, TRUE)
      <3>1. OldCalm => OldCalmed(r)
        BY <1>u, <2>1, <2>2, <2>3 DEF OldWhole, OldApart, OldCalmed
      <3>2. setup_old = "switches" => OldSwitched(r, TRUE)
        BY <1>u, <2>1, <2>2 DEF OldWhole, OldApart, OldSwitched
      <3> QED BY <1>u, <2>2, <2>4, <3>1, <3>2 DEF OldWhole, OldApart
    <2>7. OldSounds(r, TRUE)
      BY <1>u, <2>1, <2>2, <2>3, <2>4 DEF OldWhole, OldSounds
    <2>8. OldRemembers(r, w)
      BY <1>u, <2>2 DEF OldWhole, OldRemembers
    <2>9. OldKept(r, w)
      BY <1>u, <2>1, <2>3 DEF OldWhole, OldKept
    <2>10. OldListens(r)
      <3>1. Old!Pulled(r) = Old!Pulled(t)
        BY <1>u, <2>1, Zenon DEF Old!Pulled
      <3> QED BY <1>u, <2>1, <2>2, <2>3, <3>1 DEF OldWhole, OldListens
    <2> QED BY <1>u, <2>5, <2>6, <2>7, <2>8, <2>9, <2>10 DEF OldWhole
  <1>3. CASE ~t.mb_power_up
    <2>1. v = Old!SetPowerState(t, "active")
      BY <1>0, <1>3 DEF Old!DacPostPmu
    <2>2. CASE setup_old = "switches"
      <3>1. OldCalmed(t) /\ ~t.mb_mute /\ \A c \in Old!Channels : t.chip[c].power = "on" => c \in t.spk
        BY <2>2 DEF OldWhole, OldApart, OldCalm, OldSwitched
      <3>2. t.mn_restart <= RESTART_MAX /\ OldRemembers(t, w) /\ OldKept(t, w)
        BY DEF OldWhole
      <3>3. setting_old = "fmt"
        BY <1>u, <2>2, OldFmtSwitched DEF OldCalm
      <3>4. \A y \in OldStates :
              /\ OldFixed(y) = OldFixed(v) /\ OldMode(y) = OldMode(v)
              /\ OldFlow(y) = OldFlow(v) /\ OldLine(y) = OldLine(v)
              /\ y.chip = v.chip /\ y.latched = v.latched /\ y.stale = v.stale
              /\ y.lost = v.lost /\ y.init_work = v.init_work /\ y.stray = FALSE
              => OldWhole(y, TRUE, w)
        BY <1>1, <2>1, <2>2, <3>1, <3>2, <3>3, OldSwitchedOn
      <3> QED BY <1>u, <3>4
    <2>3. CASE setup_old # "switches"
      <3>1. /\ t.spk = Old!Channels /\ OldRemembers(t, w) /\ t.mn_restart <= RESTART_MAX
            /\ (OldCalm => OldCalmed(t))
        BY <1>u, <2>3 DEF OldWhole, OldApart
      <3>2. "active" \in OldModes
        BY DEF OldModes
      <3>3. OldStated(v, t, "active")
        BY <1>1, <2>1, <3>1, <3>2, OldState
      <3>4. r.mn_restart = v.mn_restart /\ r.pc = t.pc
        BY <1>u, <3>3, OldFlowFields DEF OldStated
      <3>5. r.mn_power_state # "shutdown" /\ r.mb_power_up
        <4>1. v.mn_power_state # "shutdown" /\ v.mb_power_up
          BY <1>u, <3>3 DEF OldStated
        <4> QED BY <1>u, <4>1, OldModeFields
      <3>6. r.irq_enable = v.irq_enable /\ r.irq_work = v.irq_work
        BY <1>u, OldLineFields
      <3>7. ~t.lost /\ setting_old # "iv_enable" =>
              \A c \in OldRelevant \ t.stale : t.chip[c].set = w
        BY DEF OldWhole, OldKept
      <3>9. OldCalm => r.pc = "idle" /\ OldCalmed(t)
        BY <1>u, <3>1, <3>4 DEF OldCalmed
      <3> QED BY <1>1, <1>u, <2>3, <3>1, <3>2, <3>3, <3>4, <3>5, <3>6, <3>7, <3>9, OldPowers
    <2> QED BY <1>u, <2>2, <2>3
  <1> QED BY <1>2, <1>3

LEMMA OldPostTyped ==
    ASSUME NEW t \in OldStates, playing \in BOOLEAN
    PROVE  Old!DacPostPmu(t) \in OldStates
  <1>1. OldActivated(Old!SetPowerActive(t), t) /\ OldMuted(Old!SetPowerMute(t), t)
    BY OldActive, OldMute
  <1> QED BY <1>1 DEF OldActivated, OldMuted, Old!DacPostPmu, Old!SetPowerState

LEMMA OldStartsGo ==
    ASSUME NEW t, NEW w, OldWhole(t, playing, w), playing \in BOOLEAN, playing = FALSE,
           OldSetting, Old!TasAssumption
    PROVE  OldWhole(IF t.spk = {} THEN [t EXCEPT !.hushed = TRUE]
                    ELSE [Old!DacPostPmu(t) EXCEPT !.stray = FALSE, !.hushed = FALSE], TRUE, w)
  <1>1. t \in OldStates
    BY DEF OldWhole
  <1>2. CASE t.spk = {}
    <2> DEFINE r == [t EXCEPT !.hushed = TRUE]
    <2>1. setup_old = "switches"
      BY <1>2, OldMasks DEF OldWhole, OldApart
    <2>2. OldWhole(t, FALSE, w)
      BY DEF OldWhole
    <2>3. OldOff(t, t)
      BY <2>1, <2>2, OldIdle
    <2>4. OldOff(r, t) /\ r.hushed
      BY <1>1, <2>3 DEF OldOff, OldStates
    <2> HIDE DEF r
    <2>5. OldWhole(r, TRUE, w)
      BY <2>1, <2>2, <2>4, OldOffHolds
    <2> QED BY <1>2, <2>5 DEF r
  <1>3. CASE t.spk # {}
    <2> DEFINE v == Old!DacPostPmu(t)
               r == [v EXCEPT !.stray = FALSE, !.hushed = FALSE]
    <2>1. v \in OldStates
      BY <1>1, OldPostTyped
    <2> HIDE DEF v
    <2>3. OldUp(r, v)
      BY <2>1 DEF OldUp, OldStates, OldFixed, OldMode, OldFlow, OldLine
    <2> HIDE DEF r
    <2>4. OldUp(r, Old!DacPostPmu(t))
      BY <2>3 DEF v
    <2>5. OldWhole(r, TRUE, w)
      BY <1>3, <2>4, OldStreamUp
    <2> QED BY <1>3, <2>5 DEF r, v
  <1> QED BY <1>2, <1>3

LEMMA OldStopsGo ==
    ASSUME NEW t, NEW w, OldWhole(t, playing, w), playing = TRUE,
           OldSetting, Old!TasAssumption
    PROVE  OldWhole(IF t.spk = {} THEN t ELSE Old!DacPrePmd(t), FALSE, w)
  <1>1. t \in OldStates
    BY DEF OldWhole
  <1>2. CASE setup_old = "switches"
    <2>1. OldWhole(t, TRUE, w) /\ OldCalm
      BY <1>2 DEF OldCalm
    <2>2. setting_old = "fmt"
      BY <2>1, OldFmtSwitched
    <2>3. CASE t.spk = {}
      <3>1. OldCalmed(t) /\ OldSwitched(t, TRUE) /\ OldPowered(t)
        BY <1>2, <2>1 DEF OldWhole, OldApart
      <3>2. t.mb_power_up = FALSE /\ t.stray = FALSE
        BY <1>1, <2>3, <3>1 DEF OldStates, OldSwitched
      <3>3. t.mn_power_state = "shutdown"
        BY <3>1, <3>2 DEF OldPowered
      <3>4. OldOff(t, t)
        BY <1>1, <2>3, <3>1, <3>2, <3>3 DEF OldOff, OldSwitched, OldCalmed
      <3> QED BY <1>2, <2>1, <2>3, <3>4, OldOffHolds
    <2>4. CASE t.spk # {}
      <3>1. OldOff(Old!DacPrePmd(t), t)
        BY <1>2, <2>1, <2>2, <2>4, OldSwitchedOff
      <3> QED BY <1>2, <2>1, <2>4, <3>1, OldOffHolds
    <2> QED BY <2>3, <2>4
  <1>3. CASE setup_old # "switches"
    <2>1. /\ t.spk = Old!Channels /\ OldRemembers(t, w) /\ t.mn_restart <= RESTART_MAX
          /\ (OldCalm => OldCalmed(t))
      BY <1>3 DEF OldWhole, OldApart
    <2>2. t.spk # {}
      BY <1>1, <2>1, OldMasks
    <2>3. CASE t.mb_power_up
      <3> DEFINE v == Old!SetPowerState(t, "shutdown")
      <3>1. Old!DacPrePmd(t) = v
        BY <2>3 DEF Old!DacPrePmd
      <3>2. "shutdown" \in OldModes /\ playing \in BOOLEAN
        BY DEF OldModes
      <3>3. OldStated(v, t, "shutdown")
        BY <1>1, <2>1, <3>2, OldState
      <3> HIDE DEF v
      <3>4. v \in OldStates /\ v.pc = t.pc
        BY <3>3, OldFlowFields DEF OldStated
      <3>5. ~t.lost /\ setting_old # "iv_enable" =>
              \A c \in OldRelevant \ t.stale : t.chip[c].set = w
        BY DEF OldWhole, OldKept
      <3>6. OldCalm => v.pc = "idle" /\ OldCalmed(t)
        BY <2>1, <3>4 DEF OldCalmed
      <3>7. OldWhole(v, FALSE, w)
        BY <1>1, <1>3, <2>1, <3>2, <3>3, <3>4, <3>5, <3>6, OldPowers
      <3> QED BY <2>2, <3>1, <3>7
    <2>4. CASE ~t.mb_power_up
      <3>1. Old!DacPrePmd(t) = t
        BY <2>4 DEF Old!DacPrePmd
      <3>2. OldSilent(t, FALSE)
        BY <2>4 DEF OldWhole, OldSilent
      <3>3. OldApart(t, FALSE) /\ OldSounds(t, FALSE)
        BY <1>3 DEF OldWhole, OldApart, OldSounds
      <3>4. OldWhole(t, FALSE, w)
        BY <3>2, <3>3 DEF OldWhole
      <3> QED BY <3>1, <3>4
    <2> QED BY <2>3, <2>4
  <1> QED BY <1>2, <1>3

LEMMA OldCodecOff ==
    ASSUME NEW t, NEW w, OldWhole(t, playing, w), setup_old = "switches", NEW c \in t.spk,
           OldSetting, Old!TasAssumption, playing \in BOOLEAN
    PROVE  LET v == IF playing THEN Old!DacPrePmd(t) ELSE t
           IN  OldWhole([v EXCEPT !.spk = v.spk \ {c}, !.hushed = TRUE], playing, w)
  <1> DEFINE v == IF playing THEN Old!DacPrePmd(t) ELSE t
             s == v.spk \ {c}
             r == [v EXCEPT !.spk = s, !.hushed = TRUE]
  <1>1. t \in OldStates /\ OldCalm
    BY DEF OldWhole, OldCalm
  <1>2. setting_old = "fmt" /\ t.spk # {}
    BY <1>1, OldFmtSwitched
  <1>3. OldOff(v, t) /\ v.spk = t.spk
    <2>1. CASE playing
      <3>1. OldWhole(t, TRUE, w)
        BY <2>1
      <3>2. v = Old!DacPrePmd(t)
        BY <2>1
      <3>3. OldOff(Old!DacPrePmd(t), t) /\ Old!DacPrePmd(t).spk = t.spk
        BY <1>2, <3>1, OldSwitchedOff
      <3> QED BY <3>2, <3>3
    <2>2. CASE ~playing
      <3>1. OldWhole(t, FALSE, w)
        BY <2>2
      <3> QED BY <2>2, <3>1, OldIdle
    <2> QED BY <2>1, <2>2
  <1> HIDE DEF v
  <1>4. s \in SUBSET Old!Channels
    BY <1>1, <1>3, OldHeldTyped
  <1> HIDE DEF s
  <1>5. OldOff(r, t) /\ r.hushed
    BY <1>3, <1>4, OldOffSwitched
  <1> HIDE DEF r
  <1>6. OldWhole(r, playing, w)
    BY <1>5, OldOffHolds
  <1> QED BY <1>6 DEF r, s, v

LEMMA OldCodecOn ==
    ASSUME NEW t, NEW w, OldWhole(t, playing, w), setup_old = "switches",
           NEW c \in Old!Channels, c \notin t.spk,
           OldSetting, Old!TasAssumption, playing \in BOOLEAN
    PROVE  LET on == [t EXCEPT !.spk = t.spk \cup {c}]
               v == Old!DacPostPmu(on)
           IN  OldWhole(IF playing
                        THEN [v EXCEPT !.quiet = IF on.mb_power_up THEN v.quiet \cup {c} ELSE v.quiet,
                                       !.stray = FALSE]
                        ELSE on, playing, w)
  <1> DEFINE s == t.spk \cup {c}
             on == [t EXCEPT !.spk = s]
             v == Old!DacPostPmu(on)
             n == IF on.mb_power_up THEN v.quiet \cup {c} ELSE v.quiet
             r == [v EXCEPT !.quiet = n, !.stray = FALSE]
  <1>1. t \in OldStates /\ OldCalm
    BY DEF OldWhole, OldCalm
  <1>2. setting_old = "fmt"
    BY <1>1, OldFmtSwitched
  <1>3. s \in SUBSET Old!Channels /\ s # {} /\ c \in s /\ t.spk \subseteq s /\ s \ {c} \subseteq t.spk
    BY <1>1, OldHeldTyped
  <1> HIDE DEF s
  <1>4. CASE ~playing
    <2>1. OldWhole(t, FALSE, w)
      BY <1>4
    <2>2. OldOff(t, t)
      BY <2>1, OldIdle
    <2>3. OldOff(on, t)
      BY <1>3, <2>2, OldOffSwitched
    <2> HIDE DEF on
    <2>4. OldWhole(on, playing, w)
      BY <1>4, <2>3, OldOffHolds
    <2> QED BY <1>4, <2>4 DEF on, s
  <1>5. CASE playing
    <2>1. /\ on \in OldStates /\ on.spk = s /\ on.held = t.held /\ on.putting = t.putting
          /\ on.mb_mute = t.mb_mute /\ on.dc_work = t.dc_work /\ on.missed = t.missed
          /\ on.mn_restart = t.mn_restart /\ on.pc = t.pc /\ on.irq_enable = t.irq_enable
          /\ on.mn_power_state = t.mn_power_state /\ on.mb_power_up = t.mb_power_up
          /\ on.irq_work = t.irq_work /\ on.init_work = t.init_work /\ on.chip = t.chip
          /\ on.latched = t.latched /\ on.stale = t.stale /\ on.lost = t.lost
          /\ on.quiet = t.quiet /\ on.stray = t.stray /\ on.hushed = t.hushed
      BY <1>1, <1>3 DEF OldStates
    <2> HIDE DEF on
    <2>2. OldCalmed(t) /\ OldSwitched(t, playing)
      BY <1>1 DEF OldWhole, OldApart
    <2>3. CASE on.mb_power_up
      <3>1. v = on /\ n = v.quiet \cup {c}
        BY <2>3 DEF Old!DacPostPmu
      <3>2. n \in SUBSET Old!Channels
        BY <2>1, <3>1 DEF OldStates
      <3> HIDE DEF v, n
      <3>3. /\ r \in OldStates /\ r.spk = s /\ r.held = t.held /\ r.putting = t.putting
            /\ r.mb_mute = t.mb_mute /\ r.dc_work = t.dc_work /\ r.missed = t.missed
            /\ r.mn_restart = t.mn_restart /\ r.pc = t.pc /\ r.irq_enable = t.irq_enable
            /\ r.mn_power_state = t.mn_power_state /\ r.mb_power_up = t.mb_power_up
            /\ r.irq_work = t.irq_work /\ r.init_work = t.init_work /\ r.chip = t.chip
            /\ r.latched = t.latched /\ r.stale = t.stale /\ r.lost = t.lost
            /\ r.quiet = n /\ r.stray = FALSE /\ r.hushed = t.hushed
        <4>1. on.stray \in BOOLEAN
          BY <2>1 DEF OldStates
        <4>2. /\ r \in OldStates /\ r.spk = on.spk /\ r.held = on.held /\ r.putting = on.putting
              /\ r.mb_mute = on.mb_mute /\ r.dc_work = on.dc_work /\ r.missed = on.missed
              /\ r.mn_restart = on.mn_restart /\ r.pc = on.pc /\ r.irq_enable = on.irq_enable
              /\ r.mn_power_state = on.mn_power_state /\ r.mb_power_up = on.mb_power_up
              /\ r.irq_work = on.irq_work /\ r.init_work = on.init_work /\ r.chip = on.chip
              /\ r.latched = on.latched /\ r.stale = on.stale /\ r.lost = on.lost
              /\ r.quiet = n /\ r.stray = FALSE /\ r.hushed = on.hushed
          BY <2>1, <3>1, <3>2, ZenonT(60) DEF OldStates
        <4> HIDE DEF r
        <4> QED BY <2>1, <4>2, Zenon
      <3> HIDE DEF r
      <3>4. r.mb_power_up /\ r.mn_power_state # "shutdown"
        BY <2>1, <2>3, <3>3 DEF OldWhole, OldPowered
      <3>5. r.mn_restart <= RESTART_MAX /\ OldPowered(r) /\ OldSilent(r, TRUE)
        BY <3>3, <3>4 DEF OldWhole, OldPowered, OldSilent
      <3>6. OldApart(r, TRUE)
        <4>1. OldCalmed(r)
          BY <2>2, <3>3 DEF OldCalmed
        <4>2. OldSwitched(r, TRUE)
          BY <1>3, <2>2, <3>3 DEF OldSwitched
        <4> QED BY <4>1, <4>2 DEF OldApart
      <3>7. OldSounds(r, TRUE)
        <4>1. r.spk \ r.quiet \subseteq t.spk \ t.quiet
          BY <1>3, <2>1, <3>1, <3>3
        <4> QED BY <3>3, <3>4, <4>1 DEF OldWhole, OldSounds
      <3>8. OldRemembers(r, w)
        BY <3>3 DEF OldWhole, OldRemembers
      <3>9. OldKept(r, w)
        BY <3>3 DEF OldWhole, OldKept
      <3>10. OldListens(r)
        <4>1. Old!Pulled(r) = Old!Pulled(t)
          BY <3>3, Zenon DEF Old!Pulled
        <4> QED BY <3>3, <4>1 DEF OldWhole, OldListens
      <3>11. OldWhole(r, TRUE, w)
        BY <3>3, <3>5, <3>6, <3>7, <3>8, <3>9, <3>10 DEF OldWhole
      <3>12. OldWhole(r, playing, w)
        BY <1>5, <3>11
      <3> QED BY <1>5, <3>12 DEF r, n, v, on, s
    <2>4. CASE ~on.mb_power_up
      <3>1. v = Old!SetPowerState(on, "active") /\ n = v.quiet
        BY <2>4 DEF Old!DacPostPmu
      <3>2. /\ OldCalmed(on) /\ ~on.mb_mute /\ on.spk # {} /\ on.mn_restart <= RESTART_MAX
            /\ OldRemembers(on, w) /\ OldKept(on, w)
            /\ \A j \in Old!Channels : on.chip[j].power = "on" => j \in on.spk
        <4>1. OldCalmed(on) /\ ~on.mb_mute /\ on.spk # {} /\ on.mn_restart <= RESTART_MAX
          BY <1>3, <2>1, <2>2 DEF OldWhole, OldCalmed, OldSwitched
        <4>2. OldRemembers(on, w) /\ OldKept(on, w)
          BY <2>1 DEF OldWhole, OldRemembers, OldKept
        <4>3. \A j \in Old!Channels : on.chip[j].power = "on" => j \in on.spk
          BY <1>3, <2>1, <2>2 DEF OldSwitched
        <4> QED BY <4>1, <4>2, <4>3
      <3> HIDE DEF v, n
      <3>3. v \in OldStates
        BY <1>2, <2>1, <3>1, <3>2, OldSwitchedOn
      <3>4. /\ r \in OldStates /\ OldFixed(r) = OldFixed(v) /\ OldMode(r) = OldMode(v)
            /\ OldFlow(r) = OldFlow(v) /\ OldLine(r) = OldLine(v)
            /\ r.chip = v.chip /\ r.latched = v.latched /\ r.stale = v.stale
            /\ r.lost = v.lost /\ r.init_work = v.init_work /\ r.stray = FALSE
        BY <3>1, <3>3, ZenonT(60) DEF OldStates, OldFixed, OldMode, OldFlow, OldLine
      <3> HIDE DEF r
      <3>5. OldWhole(r, TRUE, w)
        <4>1. \A y \in OldStates :
                /\ OldFixed(y) = OldFixed(v) /\ OldMode(y) = OldMode(v)
                /\ OldFlow(y) = OldFlow(v) /\ OldLine(y) = OldLine(v)
                /\ y.chip = v.chip /\ y.latched = v.latched /\ y.stale = v.stale
                /\ y.lost = v.lost /\ y.init_work = v.init_work /\ y.stray = FALSE
                => OldWhole(y, TRUE, w)
          BY <1>2, <2>1, <3>1, <3>2, OldSwitchedOn
        <4> QED BY <3>4, <4>1
      <3>6. OldWhole(r, playing, w)
        BY <1>5, <3>5
      <3> QED BY <1>5, <3>6 DEF r, n, v, on, s
    <2> QED BY <2>3, <2>4
  <1> QED BY <1>4, <1>5

--------------------------------------------------------------------------------
(* The TAS256x: the mute controls *)

LEMMA OldMuteGo ==
    ASSUME NEW t, NEW w, OldWhole(t, playing, w), setup_old = "mutes",
           NEW s \in {"mute", "active"}, playing \in BOOLEAN
    PROVE  OldWhole(Old!SetPowerState(t, s), playing, w)
  <1> DEFINE v == Old!SetPowerState(t, s)
  <1>1. /\ t \in OldStates /\ t.spk = Old!Channels /\ OldRemembers(t, w)
        /\ t.mn_restart <= RESTART_MAX /\ OldCalmed(t)
    BY DEF OldWhole, OldApart, OldCalm
  <1>2. s \in OldModes
    BY DEF OldModes
  <1>3. OldStated(v, t, s)
    BY <1>1, <1>2, OldState
  <1> HIDE DEF v
  <1>4. v \in OldStates /\ v.pc = t.pc
    BY <1>3, OldFlowFields DEF OldStated
  <1>5. v.mn_power_state # "shutdown" /\ v.mb_power_up
    BY <1>3 DEF OldStated
  <1>6. ~t.lost /\ setting_old # "iv_enable" =>
          \A c \in OldRelevant \ t.stale : t.chip[c].set = w
    BY DEF OldWhole, OldKept
  <1>7. v.pc = "idle"
    BY <1>1, <1>4 DEF OldCalmed
  <1>8. OldWhole(v, playing, w)
    BY <1>1, <1>2, <1>3, <1>4, <1>5, <1>6, <1>7, OldPowers
  <1> QED BY <1>8 DEF v

LEMMA OldDacMuteGo ==
    ASSUME NEW q, NEW w, OldWhole(q, playing, w), setup_old = "mutes",
           NEW mute \in BOOLEAN, playing \in BOOLEAN
    PROVE  LET t == Old!SetPower(q, Old!Chn(q), IF mute THEN "muted" ELSE "on")
           IN  OldWhole([t EXCEPT !.dac_mute = mute, !.stray = t.stray \/ (~playing /\ ~mute),
                                  !.quiet = IF mute THEN t.quiet \cup Old!Chn(q)
                                            ELSE t.quiet \ Old!Chn(q)], playing, w)
  <1> DEFINE s == Old!Chn(q)
             x == IF mute THEN "muted" ELSE "on"
             t == Old!SetPower(q, s, x)
             n == IF mute THEN t.quiet \cup s ELSE t.quiet \ s
             y == t.stray \/ (~playing /\ ~mute)
             r == [t EXCEPT !.dac_mute = mute, !.stray = y, !.quiet = n]
  <1>1. /\ q \in OldStates /\ q.spk = Old!Channels /\ OldCalmed(q) /\ (playing => q.mb_power_up)
        /\ OldPowered(q)
    BY DEF OldWhole, OldApart, OldCalm
  <1>2. s = Old!Channels /\ x \in {"off", "on", "muted"}
    BY <1>1, OldMasks
  <1>3. s \in SUBSET Old!Channels
    BY <1>2
  <1> HIDE DEF s, x
  <1>4. /\ t \in OldStates
        /\ \A c \in Old!Channels :
             /\ t.chip[c].power = IF c \in s THEN x ELSE q.chip[c].power
             /\ t.chip[c].open = q.chip[c].open /\ t.chip[c].set = q.chip[c].set
        /\ OldFixed(t) = OldFixed(q) /\ OldMode(t) = OldMode(q) /\ OldFlow(t) = OldFlow(q)
        /\ OldLine(t) = OldLine(q) /\ OldMarks(t) = OldMarks(q)
        /\ t.latched = q.latched /\ t.init_work = q.init_work
        /\ t.lost = q.lost /\ t.stale = q.stale
    BY <1>1, <1>2, <1>3, OldSetPower
  <1> HIDE DEF t
  <1>5. n \in SUBSET Old!Channels /\ (mute => n = Old!Channels)
    BY <1>2, <1>4 DEF OldStates
  <1>6. y \in BOOLEAN /\ (~playing /\ ~mute => y)
    BY Zenon
  <1> HIDE DEF n, y
  <1>7. /\ r \in OldStates /\ r.quiet = n /\ r.stray = y /\ r.spk = t.spk
        /\ r.held = t.held /\ r.putting = t.putting /\ r.hushed = t.hushed
        /\ r.mb_mute = t.mb_mute /\ r.dc_work = t.dc_work /\ r.missed = t.missed
        /\ r.mn_restart = t.mn_restart /\ r.pc = t.pc /\ r.irq_enable = t.irq_enable
        /\ r.mn_power_state = t.mn_power_state /\ r.mb_power_up = t.mb_power_up
        /\ r.irq_work = t.irq_work /\ r.init_work = t.init_work /\ r.chip = t.chip
        /\ r.latched = t.latched /\ r.stale = t.stale /\ r.lost = t.lost
    BY <1>4, <1>5, <1>6, ZenonT(60) DEF OldStates
  <1> HIDE DEF r
  <1>8. /\ r.spk = q.spk /\ r.held = q.held /\ r.putting = q.putting /\ r.hushed = q.hushed
        /\ r.mb_mute = q.mb_mute /\ r.dc_work = q.dc_work /\ r.missed = q.missed
        /\ r.mn_restart = q.mn_restart /\ r.pc = q.pc /\ r.irq_enable = q.irq_enable
        /\ r.mn_power_state = q.mn_power_state /\ r.mb_power_up = q.mb_power_up
        /\ r.irq_work = q.irq_work /\ r.init_work = q.init_work
        /\ r.latched = q.latched /\ r.stale = q.stale /\ r.lost = q.lost
    <2>1. /\ t.spk = q.spk /\ t.held = q.held /\ t.putting = q.putting
          /\ t.mb_mute = q.mb_mute /\ t.dc_work = q.dc_work /\ t.missed = q.missed
      BY <1>4, OldFixedFields, Zenon
    <2>2. /\ t.mn_restart = q.mn_restart /\ t.pc = q.pc
          /\ t.irq_work = q.irq_work /\ t.irq_enable = q.irq_enable
          /\ t.mn_power_state = q.mn_power_state /\ t.mb_power_up = q.mb_power_up
          /\ t.hushed = q.hushed
      BY <1>4, OldFlowFields, OldLineFields, OldModeFields, OldMarksFields, Zenon
    <2> QED BY <1>4, <1>7, <2>1, <2>2, Zenon
  <1>9. \A c \in Old!Channels :
          /\ r.chip[c].power = x /\ r.chip[c].open = q.chip[c].open
          /\ r.chip[c].set = q.chip[c].set
    BY <1>2, <1>4, <1>7
  <1>10. r.mn_restart <= RESTART_MAX /\ OldPowered(r)
    BY <1>8 DEF OldWhole, OldPowered
  <1>11. OldSilent(r, playing)
    BY <1>1, <1>6, <1>7, <1>8, <1>9 DEF x, OldSilent
  <1>12. OldApart(r, playing)
    <2>1. OldCalmed(r)
      BY <1>1, <1>8 DEF OldCalmed
    <2> QED BY <1>1, <1>8, <2>1 DEF OldApart
  <1>13. OldSounds(r, playing)
    <2>1. r.spk \ r.quiet # {} => x = "on"
      BY <1>1, <1>5, <1>7, <1>8 DEF x
    <2>2. r.spk \subseteq Old!Channels
      BY <1>7, OldHeldTyped
    <2> QED BY <1>1, <1>8, <1>9, <2>1, <2>2 DEF OldSounds, OldPowered
  <1>14. OldRemembers(r, w)
    BY <1>8 DEF OldWhole, OldRemembers
  <1>15. OldKept(r, w)
    <2>1. OldRelevant \subseteq Old!Channels
      BY OldMasks, <1>1 DEF OldRelevant
    <2> QED BY <1>8, <1>9, <2>1 DEF OldWhole, OldKept
  <1>16. OldListens(r)
    <2>1. Old!Pulled(r) = FALSE
      BY <1>1, <1>8, OldNotPulled DEF OldCalmed
    <2> QED BY <1>8, <2>1 DEF OldWhole, OldListens
  <1>17. OldWhole(r, playing, w)
    BY <1>7, <1>10, <1>11, <1>12, <1>13, <1>14, <1>15, <1>16 DEF OldWhole
  <1> QED BY <1>17 DEF r, y, n, t, x, s

LEMMA OldSystemMuteGo ==
    ASSUME NEW t, NEW p \in BOOLEAN, NEW w, OldWhole(t, p, w), setup_old = "mutes"
    PROVE  OldWhole([t EXCEPT !.mb_mute = ~t.mb_mute], p, w)
  <1> DEFINE b == ~t.mb_mute
             r == [t EXCEPT !.mb_mute = b]
  <1>1. t \in OldStates
    BY DEF OldWhole
  <1>2. b \in BOOLEAN
    BY Zenon
  <1> HIDE DEF b
  <1>3. /\ r \in OldStates /\ r.spk = t.spk /\ r.held = t.held /\ r.putting = t.putting
        /\ r.hushed = t.hushed /\ r.dc_work = t.dc_work /\ r.missed = t.missed
        /\ r.mn_restart = t.mn_restart /\ r.pc = t.pc /\ r.irq_enable = t.irq_enable
        /\ r.mn_power_state = t.mn_power_state /\ r.mb_power_up = t.mb_power_up
        /\ r.irq_work = t.irq_work /\ r.init_work = t.init_work /\ r.chip = t.chip
        /\ r.latched = t.latched /\ r.stale = t.stale /\ r.lost = t.lost
        /\ r.stray = t.stray /\ r.quiet = t.quiet
    BY <1>1, <1>2 DEF OldStates
  <1> HIDE DEF r
  <1>4. r.mn_restart <= RESTART_MAX /\ OldPowered(r) /\ OldSilent(r, p)
    BY <1>3 DEF OldWhole, OldPowered, OldSilent
  <1>5. OldApart(r, p)
    BY <1>3 DEF OldWhole, OldApart, OldCalmed
  <1>6. OldSounds(r, p) /\ OldRemembers(r, w) /\ OldKept(r, w)
    BY <1>3 DEF OldWhole, OldSounds, OldRemembers, OldKept
  <1>7. OldListens(r)
    <2>1. Old!Pulled(r) = Old!Pulled(t)
      BY <1>3, Zenon DEF Old!Pulled
    <2> QED BY <1>3, <2>1 DEF OldWhole, OldListens
  <1>8. OldWhole(r, p, w)
    BY <1>3, <1>4, <1>5, <1>6, <1>7 DEF OldWhole
  <1> QED BY <1>8 DEF r, b

--------------------------------------------------------------------------------
(* The TAS256x: its settings *)

(* What a setting may change *)
OldTuned(r, t) ==
    /\ r \in OldStates /\ r.spk = t.spk /\ r.mb_mute = t.mb_mute
    /\ r.hushed = t.hushed /\ r.dc_work = t.dc_work /\ r.missed = t.missed
    /\ r.mn_restart = t.mn_restart /\ r.pc = t.pc /\ r.irq_enable = t.irq_enable
    /\ r.mn_power_state = t.mn_power_state /\ r.mb_power_up = t.mb_power_up
    /\ r.irq_work = t.irq_work /\ r.init_work = t.init_work
    /\ r.latched = t.latched /\ r.stray = t.stray /\ r.quiet = t.quiet
    /\ \A c \in Old!Channels :
         r.chip[c].power = t.chip[c].power /\ r.chip[c].open = t.chip[c].open

LEMMA OldTunedHolds ==
    ASSUME NEW t, NEW p, NEW w, OldWhole(t, p, w),
           NEW r, OldTuned(r, t), NEW v, OldRemembers(r, v), OldKept(r, v),
           OldCalm => r.putting = Old!Unset
    PROVE  OldWhole(r, p, v)
  <1>1. r \in OldStates /\ r.mn_restart <= RESTART_MAX /\ OldPowered(r) /\ OldSilent(r, p)
    BY DEF OldWhole, OldTuned, OldPowered, OldSilent
  <1>2. OldApart(r, p)
    <2>1. OldCalm => OldCalmed(r)
      BY DEF OldWhole, OldTuned, OldApart, OldCalmed
    <2>2. setup_old = "switches" => OldSwitched(r, p)
      BY DEF OldWhole, OldTuned, OldApart, OldSwitched
    <2> QED BY <2>1, <2>2 DEF OldWhole, OldTuned, OldApart
  <1>3. OldSounds(r, p)
    <2>1. r.spk \subseteq Old!Channels
      BY <1>1, OldHeldTyped
    <2> QED BY <2>1 DEF OldWhole, OldTuned, OldSounds
  <1>4. OldListens(r)
    <2>1. Old!Pulled(r) = Old!Pulled(t)
      <3>1. Old!Pulled(r) <=> Old!Pulled(t)
        BY DEF OldTuned, Old!Pulled
      <3> QED BY <3>1 DEF Old!Pulled
    <2> QED BY <2>1 DEF OldWhole, OldTuned, OldListens
  <1> QED BY <1>1, <1>2, <1>3, <1>4, Zenon DEF OldWhole

LEMMA OldPutGo ==
    ASSUME NEW t, NEW p, NEW w, OldWhole(t, p, w), ~OldCalm, setting_old \in Old!Controls,
           NEW v \in Old!Range[setting_old]
    PROVE  OldWhole([Old!WriteLeft(t, setting_old, v) EXCEPT !.putting = v], p, v)
  <1> DEFINE a == Old!WriteLeft(t, setting_old, v)
             r == [a EXCEPT !.putting = v]
  <1>1. v \in Nat /\ v \in Int /\ v # Old!Unset
    BY OldRangesAre DEF Old!Unset
  <1>2. t \in OldStates
    BY DEF OldWhole
  <1>3. OldWroteLeft(a, t, setting_old, v)
    BY <1>1, <1>2, OldWriteLeft
  <1> HIDE DEF a
  <1>4. /\ a.spk = t.spk /\ a.mb_mute = t.mb_mute /\ a.dc_work = t.dc_work /\ a.missed = t.missed
        /\ a.mn_restart = t.mn_restart /\ a.pc = t.pc /\ a.irq_enable = t.irq_enable
        /\ a.mn_power_state = t.mn_power_state /\ a.mb_power_up = t.mb_power_up
        /\ a.irq_work = t.irq_work /\ a.hushed = t.hushed
        /\ a.stray = t.stray /\ a.quiet = t.quiet
    BY <1>3, OldFixedFields, OldFlowFields, OldLineFields, OldModeFields, OldMarksFields
       DEF OldWroteLeft
  <1>5. a \in OldStates /\ a.latched = t.latched /\ a.init_work = t.init_work
        /\ a.chip[1].set = v
        /\ \A c \in Old!Channels :
             a.chip[c].power = t.chip[c].power /\ a.chip[c].open = t.chip[c].open
    BY <1>3 DEF OldWroteLeft
  <1>6. r \in OldStates /\ r.putting = v /\ r.chip = a.chip /\ OldTuned(r, a)
    BY <1>1, <1>5 DEF OldStates, OldTuned
  <1> HIDE DEF r
  <1>7. OldTuned(r, t)
    BY <1>4, <1>5, <1>6, Zenon DEF OldTuned
  <1>8. OldRemembers(r, v)
    BY <1>1, <1>6 DEF OldRemembers
  <1>9. OldKept(r, v)
    BY <1>5, <1>6 DEF OldKept, OldRelevant
  <1>10. OldWhole(r, p, v)
    BY <1>7, <1>8, <1>9, OldTunedHolds
  <1> QED BY <1>10 DEF r, a

LEMMA OldPutEndsGo ==
    ASSUME NEW t, NEW p, NEW w, OldWhole(t, p, w), t.putting # Old!Unset
    PROVE  OldWhole([t EXCEPT !.held = t.putting, !.putting = Old!Unset,
                              !.lost = t.lost /\ t.chip[1].set # t.putting], p, w)
  <1> DEFINE b == t.lost /\ t.chip[1].set # t.putting
             r == [t EXCEPT !.held = t.putting, !.putting = Old!Unset, !.lost = b]
  <1>1. t \in OldStates /\ w = t.putting /\ setting_old \in Old!Controls /\ ~OldCalm /\ OldKept(t, w)
    BY DEF OldWhole, OldRemembers
  <1>2. b \in BOOLEAN /\ (~b => ~t.lost \/ t.chip[1].set = t.putting)
    BY Zenon
  <1> HIDE DEF b
  <1>3. /\ r \in OldStates /\ r.held = t.putting /\ r.putting = Old!Unset /\ r.lost = b
        /\ r.chip = t.chip /\ r.stale = t.stale /\ OldTuned(r, t)
    <2>1. t.putting \in Int /\ Old!Unset \in Int
      BY <1>1, OldHeldTyped DEF Old!Unset
    <2> QED BY <1>1, <1>2, <2>1 DEF OldStates, OldTuned
  <1> HIDE DEF r
  <1>4. OldRemembers(r, w)
    BY <1>1, <1>3 DEF OldRemembers
  <1>5. OldKept(r, w)
    <2>1. setting_old # "iv_enable" /\ OldRelevant = {1}
      BY <1>1, OldControlsAre DEF OldRelevant
    <2>2. ASSUME ~b, 1 \notin t.stale PROVE t.chip[1].set = w
      BY <1>1, <1>2, <2>1, <2>2 DEF OldKept
    <2> QED BY <1>3, <2>1, <2>2 DEF OldKept
  <1>6. OldWhole(r, p, w)
    BY <1>1, <1>3, <1>4, <1>5, OldTunedHolds
  <1> QED BY <1>6 DEF r, b

LEMMA OldSetIs ==
    ASSUME NEW t \in OldStates, NEW k, NEW v \in Int
    PROVE  LET r == Old!Set(t, k, v)
           IN  /\ OldTuned(r, t) /\ r.putting = t.putting
               /\ r.held = IF setting_old = k THEN v ELSE t.held
               /\ setting_old = k => \A c \in Old!Channels \ r.stale : r.chip[c].set = v
               /\ setting_old # k =>
                    /\ r.lost = t.lost /\ r.stale = t.stale
                    /\ \A c \in Old!Channels : r.chip[c].set = t.chip[c].set
  <1> DEFINE a == Old!WriteBoth(t, k, v)
             h == IF setting_old = k THEN v ELSE a.held
             b == a.lost /\ setting_old # k
             r == [a EXCEPT !.held = h, !.lost = b]
  <1>1. Old!Set(t, k, v) = r
    BY DEF Old!Set
  <1>2. OldWrote(a, t, k, v)
    BY OldWriteBoth, Zenon
  <1> HIDE DEF a
  <1>3. /\ a.spk = t.spk /\ a.mb_mute = t.mb_mute /\ a.dc_work = t.dc_work /\ a.missed = t.missed
        /\ a.mn_restart = t.mn_restart /\ a.pc = t.pc /\ a.irq_enable = t.irq_enable
        /\ a.mn_power_state = t.mn_power_state /\ a.mb_power_up = t.mb_power_up
        /\ a.irq_work = t.irq_work /\ a.hushed = t.hushed
        /\ a.stray = t.stray /\ a.quiet = t.quiet /\ a.held = t.held /\ a.putting = t.putting
    BY <1>2, OldFixedFields, OldFlowFields, OldLineFields, OldModeFields, OldMarksFields
       DEF OldWrote
  <1>4. /\ a \in OldStates /\ a.latched = t.latched /\ a.init_work = t.init_work
        /\ a.lost = t.lost
        /\ a.stale = IF setting_old = k THEN Old!Channels \ Old!Reach(t) ELSE t.stale
        /\ \A c \in Old!Channels :
             /\ a.chip[c].power = t.chip[c].power /\ a.chip[c].open = t.chip[c].open
             /\ a.chip[c].set = IF setting_old = k /\ c \in Old!Reach(t) THEN v ELSE t.chip[c].set
    BY <1>2, Zenon DEF OldWrote
  <1>5. h \in Int /\ h = IF setting_old = k THEN v ELSE t.held
    BY <1>3, <1>4, OldHeldTyped
  <1>6. b \in BOOLEAN /\ (setting_old # k => (b <=> a.lost))
    BY Zenon
  <1> HIDE DEF h, b
  <1>7. /\ r.held = h /\ r.lost = b /\ r.putting = a.putting /\ r.chip = a.chip
        /\ r.stale = a.stale /\ OldTuned(r, a)
    BY <1>4, <1>5, <1>6, ZenonT(60) DEF OldStates, OldTuned
  <1> HIDE DEF r
  <1>8. OldTuned(r, t)
    BY <1>3, <1>4, <1>7, Zenon DEF OldTuned
  <1>9. setting_old = k => \A c \in Old!Channels \ r.stale : r.chip[c].set = v
    BY <1>4, <1>7
  <1>10. ASSUME setting_old # k
         PROVE  /\ r.lost = t.lost /\ r.stale = t.stale
                /\ \A c \in Old!Channels : r.chip[c].set = t.chip[c].set
    <2>1. a.lost \in BOOLEAN
      BY <1>4, OldHeldTyped
    <2>2. r.lost = t.lost
      BY <1>4, <1>6, <1>7, <1>10, <2>1
    <2> QED BY <1>4, <1>7, <1>10, <2>2
  <1> QED BY <1>1, <1>3, <1>5, <1>7, <1>8, <1>9, <1>10

LEMMA OldSetGo ==
    ASSUME NEW t, NEW p, NEW w, OldWhole(t, p, w), NEW k, NEW v \in Int,
           setting_old \notin Old!Controls
    PROVE  OldWhole(Old!Set(t, k, v), p, IF setting_old = k THEN v ELSE w)
  <1> DEFINE r == Old!Set(t, k, v)
             y == IF setting_old = k THEN v ELSE w
  <1>1. t \in OldStates /\ t.putting = Old!Unset /\ t.held = w /\ OldKept(t, w)
    BY OldNotPut DEF OldWhole
  <1>2. /\ OldTuned(r, t) /\ r.putting = t.putting
        /\ r.held = IF setting_old = k THEN v ELSE t.held
        /\ setting_old = k => \A c \in Old!Channels \ r.stale : r.chip[c].set = v
        /\ setting_old # k =>
             /\ r.lost = t.lost /\ r.stale = t.stale
             /\ \A c \in Old!Channels : r.chip[c].set = t.chip[c].set
    BY <1>1, OldSetIs
  <1> HIDE DEF r
  <1>3. OldRemembers(r, y)
    BY <1>1, <1>2 DEF OldRemembers
  <1>4. OldRelevant = Old!Channels
    BY DEF OldRelevant
  <1>5. OldKept(r, y)
    <2>1. CASE setting_old = k
      BY <1>2, <1>4, <2>1 DEF OldKept
    <2>2. CASE setting_old # k
      BY <1>1, <1>2, <1>4, <2>2 DEF OldKept, OldTuned
    <2> QED BY <2>1, <2>2
  <1> HIDE DEF y
  <1>6. OldWhole(r, p, y)
    BY <1>1, <1>2, <1>3, <1>5, OldTunedHolds
  <1> QED BY <1>6 DEF r, y

LEMMA OldModeGo ==
    ASSUME NEW t, NEW p, NEW w, OldWhole(t, p, w), setting_old \notin Old!Controls,
           NEW r, OldTuned(r, t), r.putting = t.putting, r.held = t.held,
           r.chip = t.chip, r.lost = t.lost, r.stale = t.stale
    PROVE  OldWhole(r, p, w)
  <1>1. t.putting = Old!Unset /\ t.held = w /\ OldKept(t, w)
    BY OldNotPut DEF OldWhole
  <1>2. OldRemembers(r, w)
    BY <1>1 DEF OldRemembers
  <1>3. OldKept(r, w)
    BY <1>1 DEF OldKept, OldTuned
  <1> QED BY <1>1, <1>2, <1>3, OldTunedHolds

LEMMA OldPlaybackGo ==
    ASSUME NEW t, NEW p, NEW w, OldWhole(t, p, w), setting_old \notin Old!Controls,
           NEW mode \in Int, NEW bits \in Int, NEW n \in Int
    PROVE  OldWhole([t EXCEPT !.mn_fmt_mode = mode, !.mn_rx_slot_width = bits, !.mn_slots = n],
                    p, w)
  <1> DEFINE r == [t EXCEPT !.mn_fmt_mode = mode, !.mn_rx_slot_width = bits, !.mn_slots = n]
  <1>1. t \in OldStates
    BY DEF OldWhole
  <1>2. /\ OldTuned(r, t) /\ r.putting = t.putting /\ r.held = t.held
        /\ r.chip = t.chip /\ r.lost = t.lost /\ r.stale = t.stale
    BY <1>1 DEF OldStates, OldTuned
  <1> HIDE DEF r
  <1>3. OldWhole(r, p, w)
    BY <1>2, OldModeGo
  <1> QED BY <1>3 DEF r

LEMMA OldCaptureGo ==
    ASSUME NEW t, NEW p, NEW w, OldWhole(t, p, w), setting_old \notin Old!Controls,
           NEW mode \in Int, NEW bits \in Int, NEW n \in Int
    PROVE  OldWhole([t EXCEPT !.mn_fmt_mode = mode, !.mn_tx_slot_width = bits, !.mn_slots = n],
                    p, w)
  <1> DEFINE r == [t EXCEPT !.mn_fmt_mode = mode, !.mn_tx_slot_width = bits, !.mn_slots = n]
  <1>1. t \in OldStates
    BY DEF OldWhole
  <1>2. /\ OldTuned(r, t) /\ r.putting = t.putting /\ r.held = t.held
        /\ r.chip = t.chip /\ r.lost = t.lost /\ r.stale = t.stale
    BY <1>1 DEF OldStates, OldTuned
  <1> HIDE DEF r
  <1>3. OldWhole(r, p, w)
    BY <1>2, OldModeGo
  <1> QED BY <1>3 DEF r

--------------------------------------------------------------------------------
(* The TAS256x: faults and suspension *)

LEMMA OldDetectedGo ==
    ASSUME NEW t, NEW p \in BOOLEAN, NEW w, OldWhole(t, p, w), ~OldCalm
    PROVE  OldWhole([t EXCEPT !.dc_work = TRUE], p, w)
  <1> DEFINE r == [t EXCEPT !.dc_work = TRUE]
  <1>1. t \in OldStates
    BY DEF OldWhole
  <1>2. /\ OldSame(r, t) /\ r.pc = t.pc /\ r.irq_enable = t.irq_enable
        /\ r.irq_work = t.irq_work /\ r.init_work = t.init_work /\ r.missed = t.missed
        /\ r.chip = t.chip /\ r.latched = t.latched
    BY <1>1 DEF OldStates, OldSame
  <1> HIDE DEF r
  <1>3. Old!Pulled(r) = Old!Pulled(t)
    BY <1>2, Zenon DEF Old!Pulled
  <1>4. OldListens(r)
    BY <1>2, <1>3 DEF OldWhole, OldSame, OldListens
  <1>5. t.pc \in {"idle", "config", "power", "end"}
    BY <1>1 DEF OldStates
  <1>6. OldWhole(r, p, w)
    BY <1>2, <1>4, <1>5, OldSameHolds
  <1> QED BY <1>6 DEF r

LEMMA OldSuspendGo ==
    ASSUME NEW t, NEW p \in BOOLEAN, NEW w, OldWhole(t, p, w), ~OldCalm
    PROVE  OldWhole([t EXCEPT !.irq_work = FALSE, !.missed = t.missed \/ t.irq_work], p, w)
  <1> DEFINE b == t.missed \/ t.irq_work
             r == [t EXCEPT !.irq_work = FALSE, !.missed = b]
  <1>1. t \in OldStates
    BY DEF OldWhole
  <1>2. b \in BOOLEAN /\ (~b => ~t.missed /\ ~t.irq_work)
    BY Zenon
  <1> HIDE DEF b
  <1>3. /\ OldSame(r, t) /\ r.pc = t.pc /\ r.irq_enable = t.irq_enable
        /\ r.init_work = t.init_work /\ r.missed = b
        /\ r.chip = t.chip /\ r.latched = t.latched
    BY <1>1, <1>2 DEF OldStates, OldSame
  <1> HIDE DEF r
  <1>4. Old!Pulled(r) = Old!Pulled(t)
    BY <1>3, Zenon DEF Old!Pulled
  <1>5. OldListens(r)
    BY <1>2, <1>3, <1>4 DEF OldWhole, OldSame, OldListens
  <1>6. t.pc \in {"idle", "config", "power", "end"}
    BY <1>1 DEF OldStates
  <1>7. OldWhole(r, p, w)
    BY <1>3, <1>5, <1>6, OldSameHolds
  <1> QED BY <1>7 DEF r, b

LEMMA OldFaultGo ==
    ASSUME NEW q, NEW p, NEW w, OldWhole(q, p, w), ~OldCalm,
           NEW c \in Old!Channels, NEW k \in OldKinds
    PROVE  LET t == [q EXCEPT !.latched[c] = q.latched[c] \cup {k}, !.missed = FALSE]
           IN  OldWhole(Old!Report(IF k = "off" THEN Old!SetPower(t, {c}, "off") ELSE t), p, w)
  <1> DEFINE t == [q EXCEPT !.latched[c] = q.latched[c] \cup {k}, !.missed = FALSE]
             u == IF k = "off" THEN Old!SetPower(t, {c}, "off") ELSE t
             r == Old!Report(u)
  <1>1. q \in OldStates
    BY DEF OldWhole
  <1>2. /\ t \in OldStates /\ t.chip = q.chip
        /\ \A d \in Old!Channels : t.latched[d] = IF d = c THEN q.latched[c] \cup {k}
                                                  ELSE q.latched[d]
        /\ t.spk = q.spk /\ t.held = q.held /\ t.putting = q.putting
        /\ t.mn_power_state = q.mn_power_state /\ t.mb_power_up = q.mb_power_up
        /\ t.mn_restart = q.mn_restart /\ t.pc = q.pc /\ t.irq_enable = q.irq_enable
        /\ t.irq_work = q.irq_work /\ t.init_work = q.init_work
        /\ t.stray = q.stray /\ t.hushed = q.hushed /\ t.quiet = q.quiet
        /\ t.stale = q.stale /\ t.lost = q.lost
    BY <1>1 DEF OldStates
  <1> HIDE DEF t
  <1>3. /\ u \in OldStates /\ u.latched = t.latched
        /\ \A d \in Old!Channels :
             /\ u.chip[d].power = t.chip[d].power \/ (d = c /\ u.chip[d].power = "off")
             /\ u.chip[d].open = t.chip[d].open /\ u.chip[d].set = t.chip[d].set
        /\ OldFixed(u) = OldFixed(t) /\ OldMode(u) = OldMode(t) /\ OldFlow(u) = OldFlow(t)
        /\ OldLine(u) = OldLine(t) /\ OldMarks(u) = OldMarks(t)
        /\ u.init_work = t.init_work /\ u.lost = t.lost /\ u.stale = t.stale
    <2>1. CASE k = "off"
      <3>1. {c} \in SUBSET Old!Channels /\ "off" \in {"off", "on", "muted"}
        OBVIOUS
      <3>2. u = Old!SetPower(t, {c}, "off")
        BY <2>1
      <3> HIDE DEF u
      <3>3. LET y == Old!SetPower(t, {c}, "off")
            IN  /\ y \in OldStates
                /\ \A d \in Old!Channels :
                     /\ y.chip[d].power = IF d \in {c} THEN "off" ELSE t.chip[d].power
                     /\ y.chip[d].open = t.chip[d].open /\ y.chip[d].set = t.chip[d].set
                /\ OldFixed(y) = OldFixed(t) /\ OldMode(y) = OldMode(t) /\ OldFlow(y) = OldFlow(t)
                /\ OldLine(y) = OldLine(t) /\ OldMarks(y) = OldMarks(t)
                /\ y.latched = t.latched /\ y.init_work = t.init_work
                /\ y.lost = t.lost /\ y.stale = t.stale
        BY <1>2, <3>1, OldSetPower
      <3> QED BY <3>2, <3>3
    <2>2. CASE k # "off"
      BY <1>2, <2>2
    <2> QED BY <2>1, <2>2
  <1> HIDE DEF u
  <1>4. /\ r \in OldStates /\ r.irq_enable = u.irq_enable
        /\ r.irq_work = (u.irq_work \/ (u.irq_enable /\ Old!Pulled(u)))
        /\ OldFixed(r) = OldFixed(u) /\ OldMode(r) = OldMode(u) /\ OldFlow(r) = OldFlow(u)
        /\ OldMarks(r) = OldMarks(u)
        /\ r.chip = u.chip /\ r.latched = u.latched /\ r.init_work = u.init_work
        /\ r.lost = u.lost /\ r.stale = u.stale
    BY <1>3, OldReport, Zenon
  <1>5. Old!Pulled(r) = Old!Pulled(u)
    BY <1>4, Zenon DEF Old!Pulled
  <1> HIDE DEF r
  <1>6. /\ u.spk = q.spk /\ u.held = q.held /\ u.putting = q.putting
        /\ u.mn_power_state = q.mn_power_state /\ u.mb_power_up = q.mb_power_up
        /\ u.mn_restart = q.mn_restart /\ u.pc = q.pc /\ u.irq_enable = q.irq_enable
        /\ u.stray = q.stray /\ u.hushed = q.hushed /\ u.quiet = q.quiet
    BY <1>2, <1>3, OldFixedFields, OldFlowFields, OldLineFields, OldModeFields, OldMarksFields
  <1>7. /\ r.spk = q.spk /\ r.held = q.held /\ r.putting = q.putting
        /\ r.mn_power_state = q.mn_power_state /\ r.mb_power_up = q.mb_power_up
        /\ r.mn_restart = q.mn_restart /\ r.pc = q.pc /\ r.irq_enable = q.irq_enable
        /\ r.stray = q.stray /\ r.hushed = q.hushed /\ r.quiet = q.quiet
        /\ r.stale = q.stale /\ r.lost = q.lost /\ r.init_work = q.init_work
    <2>1. /\ r.spk = u.spk /\ r.held = u.held /\ r.putting = u.putting
          /\ r.mn_power_state = u.mn_power_state /\ r.mb_power_up = u.mb_power_up
          /\ r.mn_restart = u.mn_restart /\ r.pc = u.pc
          /\ r.stray = u.stray /\ r.hushed = u.hushed /\ r.quiet = u.quiet
      BY <1>4, OldFixedFields, OldFlowFields, OldModeFields, OldMarksFields
    <2> QED BY <1>2, <1>3, <1>4, <1>6, <2>1, Zenon
  <1>8. \A d \in Old!Channels :
          /\ r.chip[d].power = q.chip[d].power \/ (d = c /\ r.chip[d].power = "off")
          /\ r.chip[d].set = q.chip[d].set
          /\ (d # c => r.latched[d] = q.latched[d])
    BY <1>2, <1>3, <1>4
  <1>9. r.latched[c] # {}
    BY <1>2, <1>3, <1>4
  <1>10. r.mn_restart <= RESTART_MAX /\ OldPowered(r)
    BY <1>7 DEF OldWhole, OldPowered
  <1>11. OldSilent(r, p)
    BY <1>7, <1>8 DEF OldWhole, OldSilent
  <1>12. OldApart(r, p)
    BY <1>7 DEF OldWhole, OldApart, OldCalm
  <1>13. OldSounds(r, p)
    <2>1. r.spk \subseteq Old!Channels
      BY <1>4, OldHeldTyped
    <2> QED BY <1>7, <1>8, <1>9, <2>1 DEF OldWhole, OldSounds
  <1>14. OldRemembers(r, w)
    BY <1>7 DEF OldWhole, OldRemembers
  <1>15. OldKept(r, w)
    <2>1. OldRelevant \subseteq Old!Channels
      BY OldMasks, <1>1 DEF OldRelevant
    <2> QED BY <1>7, <1>8, <2>1 DEF OldWhole, OldKept
  <1>16. OldListens(r)
    BY <1>4, <1>5, <1>6, <1>7 DEF OldWhole, OldListens
  <1>17. OldWhole(r, p, w)
    BY <1>4, <1>10, <1>11, <1>12, <1>13, <1>14, <1>15, <1>16, Zenon DEF OldWhole
  <1> QED BY <1>17 DEF r, u, t

--------------------------------------------------------------------------------
(* The TAS256x: its steps *)

OldOn ==
    /\ OldWhole(old', playing', wanted_old')
    /\ UNCHANGED <<setup_old, setting_old>>
    /\ playing' \in BOOLEAN /\ suspended_old' \in BOOLEAN
    /\ faults_old' \in Nat /\ faults_old' <= MaxFaults

(* All but the state of the driver stays as it is. *)
LEMMA OldOthers ==
    ASSUME OldInv, Old!Others, OldWhole(old', playing, wanted_old)
    PROVE  OldOn
  BY Zenon DEF OldInv, Old!Others, OldOn

LEMMA OldWorks ==
    ASSUME OldInv, Old!TasAssumption,
           \/ Old!IrqWorkStarts \/ Old!IrqPower \/ Old!IrqEnds \/ Old!DcWork \/ Old!InitWork
           \/ \E b \in BOOLEAN : Old!IrqReload(b)
    PROVE  OldOn
  <1>1. /\ playing \in BOOLEAN /\ OldWhole(old, playing, wanted_old) /\ OldSetting
        /\ RESTART_MAX \in Nat
    BY Zenon DEF OldInv, Old!TasAssumption
  <1>2. setting_old \in Old!Settings
    BY <1>1, OldSettingIs
  <1>3. OldCalm => OldCalmed(old)
    BY <1>1 DEF OldWhole, OldApart
  <1>4. CASE Old!IrqWorkStarts
    <2>1. Old!Others /\ old.irq_work /\ old.pc = "idle"
      BY <1>4, ZenonT(60) DEF Old!IrqWorkStarts
    <2> DEFINE t == [old EXCEPT !.irq_work = FALSE]
               u == [t EXCEPT !.irq_enable = FALSE]
               m == [Old!InterruptEnable(u, FALSE, Old!Reach(u)) EXCEPT !.failsafe = FALSE]
               sights == UNION {t.latched[c] : c \in Old!Chn(t)}
    <2>2. /\ OldWhole([t EXCEPT !.missed = Old!Pulled(t)], playing, wanted_old)
          /\ OldWhole([u EXCEPT !.pc = "config"], playing, wanted_old)
          /\ (old.mn_power_state = "shutdown" =>
                OldWhole(Old!EnableIrq(u, TRUE), playing, wanted_old))
          /\ OldWhole(Old!Powering(m), playing, wanted_old)
          /\ OldWhole(Old!EnableIrq(Old!InterruptEnable(m, TRUE, Old!Reach(m)), TRUE),
                      playing, wanted_old)
          /\ OldWhole([m EXCEPT !.pc = "config"], playing, wanted_old)
      BY <1>1, <2>1, OldWorkGo
    <2>3. old' = IF suspended_old THEN [t EXCEPT !.missed = Old!Pulled(t)]
                 ELSE IF t.failsafe THEN [u EXCEPT !.pc = "config"]
                 ELSE IF t.mn_power_state = "shutdown" THEN Old!EnableIrq(u, TRUE)
                 ELSE IF "error" \in sights THEN Old!Powering(m)
                 ELSE IF \A c \in Old!Chn(t) : t.chip[c].power = "on"
                   THEN Old!EnableIrq(Old!InterruptEnable(m, TRUE, Old!Reach(m)), TRUE)
                 ELSE [m EXCEPT !.pc = "config"]
      BY <1>4 DEF Old!IrqWorkStarts
    <2>4. t.mn_power_state = old.mn_power_state
      BY <1>1 DEF OldWhole, OldStates
    <2> HIDE DEF t, u, m, sights
    <2>5. OldWhole(old', playing, wanted_old)
      BY <2>2, <2>3, <2>4
    <2> QED BY <2>1, <2>5, OldOthers
  <1>5. CASE Old!IrqPower
    <2>1. Old!Others /\ old.pc = "power"
      BY <1>5, Zenon DEF Old!IrqPower
    <2> DEFINE v == Old!SetPowerState(old, old.arg)
               r == [v EXCEPT !.pc = "end",
                              !.hushed = old.arg = "shutdown" /\ (playing \/ v.hushed)]
    <2>3. OldWhole(r, playing, wanted_old)
      BY <1>1, <2>1, OldPowerGo, Zenon
    <2>4. old' = r
      BY <1>5 DEF Old!IrqPower
    <2> HIDE DEF r
    <2>2. OldWhole(old', playing, wanted_old)
      BY <2>3, <2>4
    <2> QED BY <2>1, <2>2, OldOthers
  <1>6. CASE Old!IrqEnds
    <2>1. Old!Others /\ old.pc = "end"
      BY <1>6, Zenon DEF Old!IrqEnds
    <2> DEFINE r == [Old!EnableIrq(old, TRUE) EXCEPT !.pc = "idle", !.arg = "shutdown"]
    <2>3. OldWhole(r, playing, wanted_old)
      BY <1>1, <2>1, OldEndsGo, Zenon
    <2>4. old' = r
      BY <1>6 DEF Old!IrqEnds
    <2> HIDE DEF r
    <2>2. OldWhole(old', playing, wanted_old)
      BY <2>3, <2>4
    <2> QED BY <2>1, <2>2, OldOthers
  <1>7. CASE Old!DcWork
    <2>1. Old!Others /\ ~OldCalm
      BY <1>3, <1>7, Zenon DEF Old!DcWork, OldCalmed
    <2> DEFINE t == [old EXCEPT !.dc_work = FALSE, !.irq_enable = FALSE]
               b == Old!LoadCtrlValues(Old!LoadInit(Old!SoftwareReset(t)))
               kept == [b EXCEPT !.lost = t.lost \/ t.putting # Old!Unset
                                            \/ (setting_old = "rx_mode" /\ t.held # Old!Unset)]
               c == Old!WriteBoth(Old!WriteBoth(kept, "iv_enable", 1), "rx_width", t.held)
    <2>3. /\ OldWhole(Old!Powering(Old!SetSamplerate(c)), playing, wanted_old)
          /\ OldWhole(Old!Ended(Old!SoftwareReset(t)), playing, wanted_old)
      BY <1>1, <1>2, <2>1, OldAskedGo, Zenon
    <2>4. old' = IF Old!RateKnown(t) THEN Old!Powering(Old!SetSamplerate(c))
                 ELSE Old!Ended(Old!SoftwareReset(t))
      BY <1>7 DEF Old!DcWork
    <2> HIDE DEF t, c
    <2>2. OldWhole(old', playing, wanted_old)
      BY <2>3, <2>4
    <2> QED BY <2>1, <2>2, OldOthers
  <1>8. CASE Old!InitWork
    <2>1. Old!Others /\ old.pc = "idle"
      BY <1>8, Zenon DEF Old!InitWork
    <2> DEFINE t == [old EXCEPT !.init_work = FALSE,
                                !.quiet = old.quiet \cup {c \in Old!Channels : old.latched[c] # {}}]
               s == Old!Reach(t)
               r == Old!EnableIrq(Old!InterruptEnable(Old!InterruptClear(t, s), TRUE, s), TRUE)
    <2>3. OldWhole(r, playing, wanted_old)
      BY <1>1, <2>1, OldInitWorkGo, Zenon
    <2>4. old' = r
      BY <1>8 DEF Old!InitWork
    <2> HIDE DEF r
    <2>2. OldWhole(old', playing, wanted_old)
      BY <2>3, <2>4
    <2> QED BY <2>1, <2>2, OldOthers
  <1>9. ASSUME NEW b \in BOOLEAN, Old!IrqReload(b)
        PROVE  OldOn
    <2>1. Old!Others /\ old.pc = "config" /\ old' = Old!LoadConfig(old, b)
      BY <1>9, Zenon DEF Old!IrqReload
    <2>2. ~OldCalm
      BY <1>3, <2>1 DEF OldCalmed
    <2>3. OldWhole(Old!LoadConfig(old, b), playing, wanted_old)
      BY <1>1, <1>2, <2>2, OldConfigGo
    <2>4. OldWhole(old', playing, wanted_old)
      BY <2>1, <2>3
    <2> QED BY <2>1, <2>4, OldOthers
  <1> QED BY <1>4, <1>5, <1>6, <1>7, <1>8, <1>9

LEMMA OldStreams ==
    ASSUME OldInv, Old!TasAssumption, Old!StreamStarts \/ Old!StreamStops
    PROVE  OldOn
  <1>1. playing \in BOOLEAN /\ OldWhole(old, playing, wanted_old) /\ OldSetting
    BY Zenon DEF OldInv
  <1>2. CASE Old!StreamStarts
    <2>1. /\ playing = FALSE /\ playing' = TRUE
          /\ UNCHANGED <<setup_old, setting_old, suspended_old, wanted_old, faults_old>>
      BY <1>1, <1>2 DEF Old!StreamStarts
    <2> DEFINE r == IF old.spk = {} THEN [old EXCEPT !.hushed = TRUE]
                    ELSE [Old!DacPostPmu(old) EXCEPT !.stray = FALSE, !.hushed = FALSE]
    <2>3. OldWhole(r, TRUE, wanted_old)
      BY <1>1, <2>1, OldStartsGo, Zenon
    <2>4. old' = r
      BY <1>2 DEF Old!StreamStarts
    <2> HIDE DEF r
    <2>2. OldWhole(old', TRUE, wanted_old)
      BY <2>3, <2>4
    <2> QED BY <2>1, <2>2 DEF OldInv, OldOn
  <1>3. CASE Old!StreamStops
    <2>1. /\ playing = TRUE /\ playing' = FALSE
          /\ UNCHANGED <<setup_old, setting_old, suspended_old, wanted_old, faults_old>>
      BY <1>1, <1>3 DEF Old!StreamStops
    <2>2. OldWhole(old', FALSE, wanted_old)
      BY <1>1, <1>3, <2>1, OldStopsGo DEF Old!StreamStops
    <2> QED BY <2>1, <2>2 DEF OldInv, OldOn
  <1> QED BY <1>2, <1>3

LEMMA OldSwitches ==
    ASSUME OldInv, Old!TasAssumption, NEW c \in Old!Channels, Old!CodecWrite(c)
    PROVE  OldOn
  <1>1. playing \in BOOLEAN /\ OldWhole(old, playing, wanted_old) /\ OldSetting
    BY Zenon DEF OldInv
  <1>2. Old!Others /\ setup_old = "switches"
    BY Zenon DEF Old!CodecWrite
  <1>3. CASE c \in old.spk
    <2> DEFINE v == IF playing THEN Old!DacPrePmd(old) ELSE old
               r == [v EXCEPT !.spk = v.spk \ {c}, !.hushed = TRUE]
    <2>2. OldWhole(r, playing, wanted_old)
      BY <1>1, <1>2, <1>3, OldCodecOff, Zenon
    <2>3. old' = r
      BY <1>3 DEF Old!CodecWrite
    <2> HIDE DEF r
    <2>1. OldWhole(old', playing, wanted_old)
      BY <2>2, <2>3
    <2> QED BY <1>2, <2>1, OldOthers
  <1>4. CASE c \notin old.spk
    <2>1. OldWhole(old', playing, wanted_old)
      BY <1>1, <1>2, <1>4, OldCodecOn DEF Old!CodecWrite
    <2> QED BY <1>2, <2>1, OldOthers
  <1> QED BY <1>3, <1>4

LEMMA OldMutes ==
    ASSUME OldInv, Old!TasAssumption,
           \/ Old!SystemMuteCtrlPut
           \/ \E b \in BOOLEAN : Old!MuteCtrlPut(b) \/ Old!DacMuteCtrlPut(b)
    PROVE  OldOn
  <1>1. playing \in BOOLEAN /\ OldWhole(old, playing, wanted_old) /\ OldSetting
    BY Zenon DEF OldInv
  <1>2. CASE Old!SystemMuteCtrlPut
    <2>1. Old!Others /\ setup_old = "mutes" /\ old' = [old EXCEPT !.mb_mute = ~old.mb_mute]
      BY <1>2, Zenon DEF Old!SystemMuteCtrlPut
    <2>2. OldWhole(old', playing, wanted_old)
      BY <1>1, <2>1, OldSystemMuteGo
    <2> QED BY <2>1, <2>2, OldOthers
  <1>3. ASSUME NEW b \in BOOLEAN, Old!MuteCtrlPut(b)
        PROVE  OldOn
    <2>1. /\ Old!Others /\ setup_old = "mutes"
          /\ old' = Old!SetPowerState(old, IF b THEN "mute" ELSE "active")
      BY <1>3, Zenon DEF Old!MuteCtrlPut
    <2>2. OldWhole(old', playing, wanted_old)
      BY <1>1, <2>1, OldMuteGo
    <2> QED BY <2>1, <2>2, OldOthers
  <1>4. ASSUME NEW b \in BOOLEAN, Old!DacMuteCtrlPut(b)
        PROVE  OldOn
    <2>1. Old!Others /\ setup_old = "mutes"
      BY <1>4, Zenon DEF Old!DacMuteCtrlPut
    <2>2. OldWhole(old', playing, wanted_old)
      BY <1>1, <1>4, <2>1, OldDacMuteGo DEF Old!DacMuteCtrlPut
    <2> QED BY <2>1, <2>2, OldOthers
  <1> QED BY <1>2, <1>3, <1>4

LEMMA OldNoControl ==
    ASSUME setting_old \in {"fmt", "rx_width", "sample_rate", "iv_enable"}
    PROVE  setting_old \notin Old!Controls
  BY OldControlsAre

LEMMA OldControlsPut ==
    ASSUME OldInv, Old!TasAssumption, Old!PutEnds \/ \E v : Old!Put(v)
    PROVE  OldOn
  <1>1. playing \in BOOLEAN /\ OldWhole(old, playing, wanted_old) /\ OldSetting
    BY Zenon DEF OldInv
  <1>2. CASE Old!PutEnds
    <2> DEFINE r == [old EXCEPT !.held = old.putting, !.putting = Old!Unset,
                                !.lost = old.lost /\ old.chip[1].set # old.putting]
    <2>1. Old!Others /\ old.putting # Old!Unset /\ old' = r
      BY <1>2, Zenon DEF Old!PutEnds
    <2>2. OldWhole(r, playing, wanted_old)
      BY <1>1, <2>1, OldPutEndsGo, Zenon
    <2> HIDE DEF r
    <2>3. OldWhole(old', playing, wanted_old)
      BY <2>1, <2>2
    <2> QED BY <2>1, <2>3, OldOthers
  <1>3. ASSUME NEW v, Old!Put(v)
        PROVE  OldOn
    <2> DEFINE r == [Old!WriteLeft(old, setting_old, v) EXCEPT !.putting = v]
    <2>1. /\ setting_old \in Old!Controls /\ v \in Old!Range[setting_old] /\ Old!Resets
          /\ old' = r /\ wanted_old' = v
          /\ UNCHANGED <<setup_old, setting_old, playing, suspended_old, faults_old>>
      BY <1>3 DEF Old!Put
    <2>2. ~OldCalm
      BY <1>1, <2>1, OldSettingIs
    <2>3. OldWhole(r, playing, v)
      BY <1>1, <2>1, <2>2, OldPutGo
    <2> HIDE DEF r
    <2>4. OldWhole(old', playing', wanted_old')
      BY <2>1, <2>3
    <2> QED BY <2>1, <2>4 DEF OldInv, OldOn
  <1> QED BY <1>2, <1>3

LEMMA OldSettingsSet ==
    ASSUME OldInv, Old!TasAssumption,
           Old!SetDaiFmt \/ Old!IvPut \/ Old!HwParamsPlayback \/ Old!HwParamsCapture
    PROVE  OldOn
  <1>1. playing \in BOOLEAN /\ OldWhole(old, playing, wanted_old) /\ OldSetting
    BY Zenon DEF OldInv
  <1>2. old.mn_slots \in Int
    BY <1>1 DEF OldWhole, OldStates
  <1>3. CASE Old!SetDaiFmt
    <2>1. PICK v \in {0, 1} : old' = Old!Set(old, "fmt", v) /\ wanted_old' = v
      BY <1>3 DEF Old!SetDaiFmt
    <2>2. /\ setting_old = "fmt"
          /\ UNCHANGED <<setup_old, setting_old, playing, suspended_old, faults_old>>
      BY <1>3 DEF Old!SetDaiFmt
    <2>3. v \in Int /\ setting_old \notin Old!Controls
      BY <2>2, OldNoControl
    <2>4. OldWhole(Old!Set(old, "fmt", v), playing, IF setting_old = "fmt" THEN v ELSE wanted_old)
      BY <1>1, <2>3, OldSetGo
    <2>5. OldWhole(old', playing', wanted_old')
      BY <2>1, <2>2, <2>4
    <2> QED BY <2>2, <2>5 DEF OldInv, OldOn
  <1>4. CASE Old!IvPut
    <2>1. PICK v \in {0, 1} : old' = Old!Set(old, "iv_enable", v) /\ wanted_old' = v
      BY <1>4 DEF Old!IvPut
    <2>2. /\ setting_old = "iv_enable"
          /\ UNCHANGED <<setup_old, setting_old, playing, suspended_old, faults_old>>
      BY <1>4 DEF Old!IvPut
    <2>3. v \in Int /\ setting_old \notin Old!Controls
      BY <2>2, OldNoControl
    <2>4. OldWhole(Old!Set(old, "iv_enable", v), playing,
                   IF setting_old = "iv_enable" THEN v ELSE wanted_old)
      BY <1>1, <2>3, OldSetGo
    <2>5. OldWhole(old', playing', wanted_old')
      BY <2>1, <2>2, <2>4
    <2> QED BY <2>2, <2>5 DEF OldInv, OldOn
  <1>5. CASE Old!HwParamsPlayback
    <2>1. /\ setting_old \in {"rx_width", "sample_rate"}
          /\ UNCHANGED <<setup_old, setting_old, playing, suspended_old, faults_old>>
      BY <1>5 DEF Old!HwParamsPlayback
    <2>2. PICK mode \in Int, w \in Int, slots \in Int, rate \in Int :
            /\ old' = Old!Set(Old!Set(Old!Streamed(mode, w, slots), "rx_width", Old!Width(mode, w)),
                              "sample_rate", rate)
            /\ wanted_old' = IF setting_old = "rx_width" THEN Old!Width(mode, w) ELSE rate
      BY <1>5 DEF Old!HwParamsPlayback
    <2> DEFINE t == Old!Streamed(mode, w, slots)
               width == Old!Width(mode, w)
               y == IF setting_old = "rx_width" THEN width ELSE wanted_old
               u == Old!Set(t, "rx_width", width)
               z == IF setting_old = "sample_rate" THEN rate ELSE y
               r == Old!Set(u, "sample_rate", rate)
    <2>3. width \in Int /\ rate \in Int
      BY DEF Old!Width
    <2>4. /\ old' = r
          /\ wanted_old' = IF setting_old = "rx_width" THEN width ELSE rate
      BY <2>2, Zenon
    <2>5. setting_old \notin Old!Controls
      BY <2>1, OldNoControl
    <2>6. OldWhole(t, playing, wanted_old)
      <3> DEFINE bits == IF mode = 2 THEN w ELSE IF w = 24 THEN 32 ELSE 16
                 n == IF mode = 2 THEN slots ELSE old.mn_slots
                 v == [old EXCEPT !.mn_fmt_mode = mode, !.mn_rx_slot_width = bits, !.mn_slots = n]
      <3>1. mode \in Int /\ bits \in Int /\ n \in Int
        BY <1>2
      <3>2. t = v
        BY Zenon DEF Old!Streamed
      <3> HIDE DEF bits, n, t
      <3>3. OldWhole(v, playing, wanted_old)
        BY <1>1, <2>5, <3>1, OldPlaybackGo
      <3> HIDE DEF v
      <3> QED BY <3>2, <3>3
    <2> HIDE DEF t, width
    <2>7. OldWhole(u, playing, y)
      BY <2>3, <2>5, <2>6, OldSetGo
    <2>8. wanted_old' = z
      BY <2>1, <2>4
    <2> HIDE DEF u, y
    <2>9. OldWhole(r, playing, z)
      BY <2>3, <2>5, <2>7, OldSetGo
    <2> HIDE DEF r, z
    <2>10. OldWhole(old', playing', wanted_old')
      BY <2>1, <2>4, <2>8, <2>9
    <2> QED BY <2>1, <2>10 DEF OldInv, OldOn
  <1>6. CASE Old!HwParamsCapture
    <2>1. Old!Others /\ setting_old = "rx_width"
      BY <1>6, Zenon DEF Old!HwParamsCapture
    <2>2. PICK mode \in {1, 2} :
            old' = [old EXCEPT !.mn_fmt_mode = mode, !.mn_tx_slot_width = 16,
                               !.mn_slots = IF mode = 2 THEN 4 ELSE old.mn_slots]
      BY <1>6 DEF Old!HwParamsCapture
    <2> DEFINE n == IF mode = 2 THEN 4 ELSE old.mn_slots
               r == [old EXCEPT !.mn_fmt_mode = mode, !.mn_tx_slot_width = 16, !.mn_slots = n]
    <2>3. n \in Int /\ mode \in Int /\ 16 \in Int
      BY <1>2
    <2>4. old' = r
      BY <2>2
    <2>5. setting_old \notin Old!Controls
      BY <2>1, OldNoControl
    <2> HIDE DEF n
    <2>6. OldWhole(r, playing, wanted_old)
      BY <1>1, <2>3, <2>5, OldCaptureGo
    <2> HIDE DEF r
    <2>7. OldWhole(old', playing, wanted_old)
      BY <2>4, <2>6
    <2> QED BY <2>1, <2>7, OldOthers
  <1> QED BY <1>3, <1>4, <1>5, <1>6

LEMMA OldEvents ==
    ASSUME OldInv, Old!TasAssumption,
           \/ Old!DcDetected \/ Old!Suspend \/ Old!Resume
           \/ \E c \in Old!Channels, k \in OldKinds : Old!Fault(c, k)
    PROVE  OldOn
  <1>1. /\ playing \in BOOLEAN /\ OldWhole(old, playing, wanted_old) /\ OldSetting
        /\ faults_old \in Nat /\ MaxFaults \in Nat
    BY Zenon DEF OldInv, Old!TasAssumption
  <1>2. CASE Old!DcDetected
    <2> DEFINE r == [old EXCEPT !.dc_work = TRUE]
    <2>1. /\ setup_old = "reload" /\ faults_old < MaxFaults /\ faults_old' = faults_old + 1
          /\ old' = r
          /\ UNCHANGED <<setup_old, setting_old, playing, suspended_old, wanted_old>>
      BY <1>2 DEF Old!DcDetected
    <2>2. ~OldCalm
      BY <2>1 DEF OldCalm
    <2>3. OldWhole(r, playing, wanted_old)
      BY <1>1, <2>2, OldDetectedGo
    <2> HIDE DEF r
    <2>4. OldWhole(old', playing', wanted_old')
      BY <2>1, <2>3
    <2>5. faults_old' \in Nat /\ faults_old' <= MaxFaults
      BY <1>1, <2>1
    <2> QED BY <2>1, <2>4, <2>5 DEF OldInv, OldOn
  <1>3. CASE Old!Suspend
    <2> DEFINE r == [old EXCEPT !.irq_work = FALSE, !.missed = old.missed \/ old.irq_work]
    <2>1. /\ setup_old = "suspend" /\ suspended_old' = TRUE /\ old' = r
          /\ UNCHANGED <<setup_old, setting_old, playing, wanted_old, faults_old>>
      BY <1>3, Zenon DEF Old!Suspend
    <2>2. ~OldCalm
      BY <2>1 DEF OldCalm
    <2>3. OldWhole(r, playing, wanted_old)
      BY <1>1, <2>2, OldSuspendGo, Zenon
    <2> HIDE DEF r
    <2>4. OldWhole(old', playing', wanted_old')
      BY <2>1, <2>3
    <2> QED BY <2>1, <2>4 DEF OldInv, OldOn
  <1>4. CASE Old!Resume
    <2>1. /\ suspended_old' = FALSE
          /\ UNCHANGED <<setup_old, setting_old, old, playing, wanted_old, faults_old>>
      BY <1>4, Zenon DEF Old!Resume
    <2>2. OldWhole(old', playing', wanted_old')
      BY <1>1, <2>1
    <2> QED BY <2>1, <2>2 DEF OldInv, OldOn
  <1>5. ASSUME NEW c \in Old!Channels, NEW k \in OldKinds, Old!Fault(c, k)
        PROVE  OldOn
    <2> DEFINE t == [old EXCEPT !.latched[c] = old.latched[c] \cup {k}, !.missed = FALSE]
               r == Old!Report(IF k = "off" THEN Old!SetPower(t, {c}, "off") ELSE t)
    <2>1. /\ setup_old \in {"faults", "failing", "suspend"} /\ faults_old < MaxFaults
          /\ faults_old' = faults_old + 1
          /\ UNCHANGED <<setup_old, setting_old, playing, suspended_old, wanted_old>>
      BY <1>5 DEF Old!Fault
    <2>2. old' = r
      BY <1>5 DEF Old!Fault
    <2>3. ~OldCalm
      BY <2>1 DEF OldCalm
    <2>4. OldWhole(r, playing, wanted_old)
      BY <1>1, <2>3, OldFaultGo, Zenon
    <2> HIDE DEF r
    <2>5. OldWhole(old', playing', wanted_old')
      BY <2>1, <2>2, <2>4
    <2>6. faults_old' \in Nat /\ faults_old' <= MaxFaults
      BY <1>1, <2>1
    <2> QED BY <2>1, <2>5, <2>6 DEF OldInv, OldOn
  <1> QED BY <1>2, <1>3, <1>4, <1>5

LEMMA OldStep ==
    ASSUME OldInv, [Old!Next]_old_vars, Old!TasAssumption
    PROVE  OldInv'
  <1>1. OldOn
    <2>1. CASE UNCHANGED old_vars
      <3>1. UNCHANGED <<setup_old, setting_old, old, playing, suspended_old, wanted_old, faults_old>>
        BY <2>1, Zenon DEF old_vars
      <3>2. OldWhole(old', playing', wanted_old')
        BY <3>1 DEF OldInv
      <3> QED BY <3>1, <3>2 DEF OldInv, OldOn
    <2>2. CASE \/ Old!IrqWorkStarts \/ Old!IrqPower \/ Old!IrqEnds \/ Old!DcWork \/ Old!InitWork
               \/ \E b \in BOOLEAN : Old!IrqReload(b)
      BY <2>2, OldWorks
    <2>3. CASE Old!StreamStarts \/ Old!StreamStops
      BY <2>3, OldStreams
    <2>4. CASE \E c \in Old!Channels : Old!CodecWrite(c)
      BY <2>4, OldSwitches
    <2>5. CASE \/ Old!SystemMuteCtrlPut
               \/ \E b \in BOOLEAN : Old!MuteCtrlPut(b) \/ Old!DacMuteCtrlPut(b)
      BY <2>5, OldMutes
    <2>6. CASE Old!PutEnds \/ \E v : Old!Put(v)
      BY <2>6, OldControlsPut
    <2>7. CASE Old!SetDaiFmt \/ Old!IvPut \/ Old!HwParamsPlayback \/ Old!HwParamsCapture
      BY <2>7, OldSettingsSet
    <2>8. CASE \/ Old!DcDetected \/ Old!Suspend \/ Old!Resume
               \/ \E c \in Old!Channels, k \in OldKinds : Old!Fault(c, k)
      BY <2>8, OldEvents
    <2>9. CASE Old!Next
      <3>1. \/ Old!IrqWorkStarts \/ Old!IrqPower \/ Old!IrqEnds \/ Old!DcWork \/ Old!InitWork
            \/ Old!StreamStarts \/ Old!StreamStops \/ Old!SystemMuteCtrlPut
            \/ Old!PutEnds \/ Old!SetDaiFmt \/ Old!IvPut \/ Old!HwParamsPlayback
            \/ Old!HwParamsCapture \/ Old!DcDetected \/ Old!Suspend \/ Old!Resume
            \/ (\E b \in BOOLEAN : Old!IrqReload(b) \/ Old!MuteCtrlPut(b) \/ Old!DacMuteCtrlPut(b))
            \/ (\E c \in Old!Channels :
                  Old!CodecWrite(c) \/ \E k \in OldKinds : Old!Fault(c, k))
            \/ \E v : Old!Put(v)
        BY <2>9, Zenon DEF Old!Next, OldKinds
      <3> QED BY <3>1, <2>2, <2>3, <2>4, <2>5, <2>6, <2>7, <2>8, Zenon
    <2> QED BY <2>1, <2>9
  <1>2. OldSetting'
    BY <1>1 DEF OldOn, OldInv, OldSetting, Old!SettingsOf
  <1>3. OldWhole(old', playing', wanted_old') = OldWhole(old, playing, wanted_old)'
    BY <1>1 DEF OldOn, OldWhole, OldPowered, OldSilent, OldApart, OldCalm, OldCalmed, OldSwitched,
                OldSounds, OldRemembers, OldKept, OldRelevant, OldListens, Old!Pulled
  <1>4. OldWhole(old, playing, wanted_old)'
    BY <1>1, <1>3, Zenon DEF OldOn
  <1> QED BY <1>1, <1>2, <1>4, Zenon DEF OldOn, OldInv

LEMMA OldStart ==
    ASSUME Old!Init, setup_old \in OldSetups, setting_old \in Old!SettingsOf(setup_old),
           Old!TasAssumption
    PROVE  OldInv
  <1>1. /\ playing = FALSE /\ suspended_old = FALSE /\ wanted_old = Old!Unset /\ faults_old = 0
        /\ MaxFaults \in Nat /\ RESTART_MAX \in Nat
    BY DEF Old!Init, Old!TasAssumption
  <1>2. /\ old.spk = Old!Channels /\ old.held = Old!Unset /\ old.putting = Old!Unset
        /\ old.mn_power_state = "shutdown" /\ old.mb_power_up = FALSE /\ old.mb_mute = FALSE
        /\ old.mn_restart = 0 /\ old.pc = "idle" /\ old.irq_work = FALSE /\ old.dc_work = FALSE
        /\ old.lost = FALSE /\ old.stray = FALSE
        /\ old.chip = [c \in Old!Channels |-> Old!Reset]
        /\ old.latched = [c \in Old!Channels |-> {}]
    BY DEF Old!Init
  <1>3. old \in OldStates
    <2>1. Old!Reset \in OldChips /\ Old!Unset \in Int
      BY DEF Old!Reset, Old!Unset, OldChips
    <2>2. /\ [c \in Old!Channels |-> Old!Reset] \in [Old!Channels -> OldChips]
          /\ [c \in Old!Channels |-> {}] \in [Old!Channels -> SUBSET OldKinds]
      BY <2>1
    <2> DEFINE q == [c \in Old!Channels |-> Old!Reset]
               l == [c \in Old!Channels |-> {}]
    <2>3. q \in [Old!Channels -> OldChips] /\ l \in [Old!Channels -> SUBSET OldKinds]
      BY <2>2
    <2>4. old = [mn_power_state |-> "shutdown", mb_power_up |-> FALSE, mb_mute |-> FALSE,
              dac_mute |-> FALSE, spk |-> Old!Channels, held |-> Old!Unset, putting |-> Old!Unset,
              mn_fmt_mode |-> 0, mn_slots |-> 0, mn_rx_slot_width |-> 0, mn_tx_slot_width |-> 0,
              failsafe |-> FALSE, mn_restart |-> 0, chip |-> q, latched |-> l,
              irq_enable |-> FALSE, irq_work |-> FALSE, init_work |-> FALSE, dc_work |-> FALSE,
              pc |-> "idle", arg |-> "shutdown",
              lost |-> FALSE, stray |-> FALSE, hushed |-> FALSE, quiet |-> {}, stale |-> {},
              missed |-> FALSE]
      BY Zenon DEF Old!Init
    <2> HIDE DEF q, l
    <2> QED BY <2>1, <2>3, <2>4 DEF OldStates, OldModes
  <1>4. \A c \in Old!Channels :
          old.chip[c].power = "off" /\ old.chip[c].set = Old!Unset /\ old.latched[c] = {}
    BY <1>2 DEF Old!Reset
  <1>5. old.mn_restart <= RESTART_MAX /\ OldPowered(old) /\ OldSilent(old, FALSE)
    <2>1. old.mn_restart <= RESTART_MAX
      BY <1>1, <1>2
    <2>2. OldPowered(old)
      <3>1. ~ (old.mn_power_state # "shutdown")
        BY <1>2, Zenon
      <3> QED BY <1>2, <3>1, Zenon DEF OldPowered
    <2>3. OldSilent(old, FALSE)
      BY <1>4 DEF OldSilent
    <2> QED BY <2>1, <2>2, <2>3
  <1>6. OldApart(old, FALSE)
    BY <1>2, <1>4 DEF OldApart, OldCalmed, OldSwitched
  <1>7. OldSounds(old, FALSE) /\ OldRemembers(old, Old!Unset) /\ OldListens(old)
    BY <1>2 DEF OldSounds, OldRemembers, OldListens
  <1>8. OldKept(old, Old!Unset)
    <2>1. OldRelevant \subseteq Old!Channels
      BY DEF OldRelevant, Old!Channels
    <2> QED BY <1>4, <2>1 DEF OldKept
  <1>9. OldWhole(old, playing, wanted_old)
    BY <1>1, <1>3, <1>5, <1>6, <1>7, <1>8 DEF OldWhole
  <1>10. faults_old \in Nat /\ faults_old <= MaxFaults /\ playing \in BOOLEAN
         /\ suspended_old \in BOOLEAN /\ OldSetting
    <2>1. OldSetting
      BY Zenon DEF OldSetting
    <2>2. faults_old \in Nat /\ faults_old <= MaxFaults
      BY <1>1
    <2>3. playing \in BOOLEAN /\ suspended_old \in BOOLEAN
      BY <1>1
    <2> QED BY <2>1, <2>2, <2>3
  <1> QED BY <1>9, <1>10 DEF OldInv

LEMMA OldSafe ==
    ASSUME OldInv, Old!TasAssumption
    PROVE  Old!SmartAmpSound /\ Old!TypeOK
  <1>1. /\ playing \in BOOLEAN /\ suspended_old \in BOOLEAN /\ OldSetting
        /\ faults_old \in Nat /\ faults_old <= MaxFaults
        /\ OldWhole(old, playing, wanted_old)
    BY Zenon DEF OldInv
  <1>2. /\ old \in OldStates /\ old.mn_restart <= RESTART_MAX
        /\ OldPowered(old) /\ OldSilent(old, playing) /\ OldApart(old, playing)
        /\ OldSounds(old, playing) /\ OldKept(old, wanted_old) /\ OldListens(old)
    BY <1>1, Zenon DEF OldWhole
  <1>3. Old!Silent
    BY <1>2 DEF Old!Silent, OldSilent
  <1>4. Old!Sounding
    BY <1>2 DEF Old!Sounding, OldSounds
  <1>5. Old!Kept
    BY <1>2 DEF Old!Kept, OldKept, OldRelevant
  <1>6. Old!Heard
    BY <1>2 DEF Old!Heard, OldListens
  <1>7. Old!TypeOK
    <2>1. setting_old \in Old!Settings /\ setup_old \in OldSetups
      BY <1>1, OldSettingIs DEF OldSetting
    <2>2. MaxFaults \in Nat /\ RESTART_MAX \in Nat
      BY DEF Old!TasAssumption
    <2>3. /\ old.spk \subseteq Old!Channels /\ old.mn_restart \in Nat
          /\ old.mn_power_state \in {"active", "mute", "shutdown"}
          /\ old.pc \in {"idle", "config", "power", "end"}
          /\ old.chip \in [Old!Channels -> OldChips]
          /\ old.latched \in [Old!Channels -> SUBSET OldKinds]
      BY <1>2 DEF OldStates, OldModes
    <2>4. faults_old \in 0..MaxFaults /\ old.mn_restart \in 0..RESTART_MAX
      BY <1>1, <1>2, <2>2, <2>3
    <2>5. ASSUME NEW c \in Old!Channels
          PROVE  /\ old.chip[c].power \in {"off", "on", "muted"} /\ old.chip[c].open \in BOOLEAN
                 /\ old.latched[c] \subseteq {"error", "off"}
      BY <2>3, OldChipPart DEF OldKinds
    <2> QED BY <1>1, <2>1, <2>3, <2>4, <2>5 DEF Old!TypeOK
  <1> QED BY <1>3, <1>4, <1>5, <1>6, <1>7 DEF Old!SmartAmpSound

--------------------------------------------------------------------------------
(* Cs40l2xConfig: programs of accesses and what they do to the unit *)

CfgMarks ==
    {"dt", "open", "on", "off", "hpf", "lim", "classh", "clab", "gnd", "vpbr", "vbbr", "edge1",
     "edge2", "edge3", "edge4"}
CfgValues == SUBSET CfgMarks
Firmware == {"none", "rom", "orig", "remap", "cal"}

CfgUnits ==
    [reg : CfgValues, seq : Seq(CfgValues), table : Seq(CfgValues), dsp : Firmware, fw : Firmware,
     remap : Firmware, asleep : BOOLEAN]

(* What changes what the driver knows of its firmware *)
Renames == {"fw_orig", "fw_remap", "fw_cal"}
Calls ==
    {"otp", "otp_boot", "boot", "heartbeat", "stop", "check_short", "num_algos", "algos", "memory",
     "algo_info", "wseq_init", "errata", "start", "run", "sync", "hw_err_chk", "create_led",
     "execute", "standby", "hibernate", "wake", "trigger", "refuse"}
Edits == {"write", "set", "clear", "append", "repeat", "replace", "replace_repeat"}

CfgPlaces == Config!Registers \cup Config!Words \cup {"load"}
CfgAccesses == [op : Calls \cup Edits \cup Renames \cup {"keep"}, of : CfgPlaces, to : CfgValues]
CfgPlain == {a \in CfgAccesses : a.op \notin Renames \cup {"keep"}}

Named(op) == CASE op = "fw_orig" -> "orig" [] op = "fw_cal" -> "cal" [] OTHER -> "remap"

LEMMA CfgSequences ==
    ASSUME NEW s \in Seq(CfgValues), NEW v \in CfgValues
    PROVE  /\ Config!Replaced(s, v) \in Seq(CfgValues) /\ Config!Executed(s, v) \in CfgValues
           /\ Append(s, v) \in Seq(CfgValues)
  <1>1. Config!Replaced(s, v) \in Seq(CfgValues)
    BY DEF Config!Replaced
  <1>2. Config!Executed(s, v) \in CfgValues
    <2>1. CASE s = <<>>
      BY <2>1 DEF Config!Executed
    <2>2. CASE s # <<>>
      <3>1. Len(s) \in Nat /\ Len(s) # 0
        BY <2>2, EmptySeq
      <3>2. s[Len(s)] \in CfgValues
        BY <3>1, ElementOfSeq
      <3> QED BY <2>2, <3>2 DEF Config!Executed
    <2> QED BY <2>1, <2>2
  <1> QED BY <1>1, <1>2

LEMMA CfgReplay ==
    ASSUME NEW u \in CfgUnits
    PROVE  Config!Replay(u) \in CfgUnits /\ Config!Replay(u).fw = u.fw /\ Config!Replay(u).remap = u.remap
  <1>1. u.reg \in CfgValues /\ u.table \in Seq(CfgValues)
    BY DEF CfgUnits
  <1>2. Config!Executed(u.table, u.reg) \in CfgValues
    BY <1>1, CfgSequences, Zenon
  <1> QED BY <1>1, <1>2 DEF Config!Replay, CfgUnits

LEMMA CfgAwake ==
    ASSUME NEW u \in CfgUnits
    PROVE  Config!Awake(u) \in CfgUnits /\ Config!Awake(u).fw = u.fw /\ Config!Awake(u).remap = u.remap
  <1> DEFINE w == [u EXCEPT !.asleep = FALSE]
  <1>1. w \in CfgUnits /\ w.fw = u.fw /\ w.remap = u.remap
    BY DEF CfgUnits
  <1>2. Config!Awake(u) = IF u.asleep THEN Config!Replay(w) ELSE u
    BY DEF Config!Awake
  <1> QED BY <1>1, <1>2, CfgReplay, Zenon

(* An access leaves a unit, with the firmware that is known unless it is named. *)
LEMMA CfgApply ==
    ASSUME NEW u \in CfgUnits, NEW a \in CfgAccesses
    PROVE  /\ Config!Apply(u, a) \in CfgUnits
           /\ Config!Apply(u, a).fw = IF a.op \in Renames THEN Named(a.op) ELSE u.fw
           /\ Config!Apply(u, a).remap = IF a.op = "keep" THEN u.fw ELSE u.remap
  <1> DEFINE w == Config!Apply(u, a)
  <1>1. a.to \in CfgValues
    BY DEF CfgAccesses
  <1>2. /\ u.reg \in CfgValues /\ u.table \in Seq(CfgValues) /\ u.seq \in Seq(CfgValues)
        /\ u.fw \in Firmware
    BY DEF CfgUnits
  <1>3. ASSUME NEW v \in CfgValues
        PROVE  LET r == [u EXCEPT !.reg = v] IN r \in CfgUnits /\ r.fw = u.fw /\ r.remap = u.remap
    BY <1>3 DEF CfgUnits
  <1>4. ASSUME NEW v \in Seq(CfgValues), NEW t \in Seq(CfgValues)
        PROVE  LET r == [u EXCEPT !.seq = v, !.table = t]
               IN  r \in CfgUnits /\ r.fw = u.fw /\ r.remap = u.remap
    BY <1>4 DEF CfgUnits
  <1>5. ASSUME NEW v \in Seq(CfgValues)
        PROVE  /\ LET r == [u EXCEPT !.seq = v] IN r \in CfgUnits /\ r.fw = u.fw /\ r.remap = u.remap
               /\ LET r == [u EXCEPT !.table = v] IN r \in CfgUnits /\ r.fw = u.fw /\ r.remap = u.remap
    BY <1>5 DEF CfgUnits
  <1>6. CASE a.op \in {"write", "set", "clear", "execute"}
    <2>1. w = [u EXCEPT !.reg = IF a.op = "write" THEN a.to ELSE IF a.op = "set" THEN u.reg \cup a.to
                                ELSE IF a.op = "clear" THEN u.reg \ a.to
                                ELSE IF setting_cfg \in Config!Registers THEN Config!Executed(u.seq, u.reg) ELSE u.reg]
      BY <1>6, <1>2 DEF Config!Apply, CfgUnits
    <2>2. u.reg \cup a.to \in CfgValues /\ u.reg \ a.to \in CfgValues /\ Config!Executed(u.seq, u.reg) \in CfgValues
      BY <1>1, <1>2, CfgSequences DEF CfgValues
    <2> QED BY <2>1, <2>2, <1>1, <1>2, <1>3, <1>6, ZenonT(60) DEF Renames
  <1>7. CASE a.op \in {"append", "repeat"}
    <2>1. w = [u EXCEPT !.seq = Append(u.seq, IF a.op = "append" THEN a.to ELSE u.reg)]
      BY <1>7 DEF Config!Apply, CfgUnits
    <2>2. Append(u.seq, a.to) \in Seq(CfgValues) /\ Append(u.seq, u.reg) \in Seq(CfgValues)
      BY <1>1, <1>2
    <2> QED BY <2>1, <2>2, <1>5, <1>7 DEF Renames
  <1>8. CASE a.op \in {"replace", "replace_repeat"}
    <2> DEFINE v == IF a.op = "replace" THEN a.to ELSE u.reg
    <2>1. w = [u EXCEPT !.seq = Config!Replaced(u.seq, v), !.table = Config!Replaced(u.table, v)]
      BY <1>8 DEF Config!Apply, CfgUnits
    <2>2. v \in CfgValues
      BY <1>1, <1>2
    <2> HIDE DEF v
    <2>3. Config!Replaced(u.seq, v) \in Seq(CfgValues) /\ Config!Replaced(u.table, v) \in Seq(CfgValues)
      BY <1>2, <2>2, CfgSequences, Zenon
    <2> QED BY <2>1, <2>3, <1>4, <1>8 DEF Renames
  <1>9. CASE a.op = "wseq_init"
    <2>1. w = [u EXCEPT !.table = u.seq]
      BY <1>9 DEF Config!Apply
    <2> QED BY <2>1, <1>2, <1>5, <1>9 DEF Renames
  <1>10. CASE a.op \in {"stop", "keep"} \cup Renames
    <2>1. w = IF a.op = "stop" THEN [u EXCEPT !.dsp = "none"]
              ELSE IF a.op = "keep" THEN [u EXCEPT !.remap = u.fw]
              ELSE [u EXCEPT !.fw = Named(a.op)]
      BY <1>10 DEF Config!Apply, Renames, Named
    <2>2. Named(a.op) \in Firmware /\ "none" \in Firmware
      BY DEF Named, Firmware
    <2> QED BY <2>1, <2>2, <1>2, <1>10 DEF CfgUnits, Renames
  <1>11. CASE a.op = "memory"
    <2>1. w = [u EXCEPT !.table = <<>>, !.reg = IF setting_cfg \in Config!Words THEN {} ELSE u.reg]
      BY <1>11 DEF Config!Apply, Config!Default
    <2>2. <<>> \in Seq(CfgValues) /\ {} \in CfgValues
      BY DEF CfgValues
    <2> QED BY <2>1, <2>2, <1>2, <1>11 DEF CfgUnits, Renames
  <1>12. CASE a.op = "start"
    <2> DEFINE r == [u EXCEPT !.dsp = u.fw]
    <2>1. r \in CfgUnits /\ r.fw = u.fw /\ r.remap = u.remap
      BY <1>2 DEF CfgUnits
    <2>2. w = IF u.fw = "remap" THEN Config!Replay(r) ELSE r
      BY <1>12 DEF Config!Apply
    <2> HIDE DEF r
    <2> QED BY <2>1, <2>2, <1>12, CfgReplay DEF Renames
  <1>13. CASE a.op = "hibernate"
    <2>1. w = IF u.dsp \notin {"rom", "remap"} THEN u
              ELSE [u EXCEPT !.asleep = TRUE, !.reg = IF setting_cfg \in Config!Registers THEN {} ELSE u.reg]
      BY <1>13 DEF Config!Apply, Config!Hibernated, Config!Default
    <2>2. {} \in CfgValues
      BY DEF CfgValues
    <2> QED BY <2>1, <2>2, <1>2, <1>13 DEF CfgUnits, Renames
  <1>14. CASE a.op = "wake"
    <2>1. w = Config!Awake(u)
      BY <1>14 DEF Config!Apply
    <2> QED BY <2>1, <1>14, CfgAwake DEF Renames
  <1>15. CASE a.op \notin {"write", "set", "clear", "execute", "append", "repeat", "replace",
                           "replace_repeat", "wseq_init", "stop", "keep", "memory", "start",
                           "hibernate", "wake"} \cup Renames
    <2>1. w = u
      BY <1>15 DEF Config!Apply, Renames
    <2> QED BY <2>1, <1>15
  <1> QED BY <1>6, <1>7, <1>8, <1>9, <1>10, <1>11, <1>12, <1>13, <1>14, <1>15, Zenon

--------------------------------------------------------------------------------
(* Cs40l2xConfig: the units between the accesses of a program *)

LEMMA CfgStates ==
    ASSUME NEW u \in CfgUnits, NEW p \in Seq(CfgAccesses)
    PROVE  /\ Config!States(p, u) \in [0 .. Len(p) -> CfgUnits]
           /\ Config!States(p, u)[0] = u
           /\ \A i \in 1 .. Len(p) :
                Config!States(p, u)[i] = Config!Apply(Config!States(p, u)[i - 1], p[i])
  <1> DEFINE n == Len(p)
             step == [i \in 1 .. n |-> [x \in CfgUnits |-> Config!Apply(x, p[i])]]
             Walks(f) == f = [i \in 0 .. n |-> IF i = 0 THEN u ELSE Config!Apply(f[i - 1], p[i])]
             walk == CHOOSE f : Walks(f)
  <1>1. n \in Nat /\ \A i \in 1 .. n : p[i] \in CfgAccesses
    BY ElementOfSeq
  <1>2. Config!States(p, u) = walk
    BY DEF Config!States
  <1> HIDE DEF n, walk
  <1>3. step \in Steps(CfgUnits, n)
    <2>1. ASSUME NEW i \in 1 .. n PROVE [x \in CfgUnits |-> Config!Apply(x, p[i])] \in [CfgUnits -> CfgUnits]
      BY <1>1, CfgApply
    <2> QED BY <2>1 DEF Steps
  <1>4. PICK g : /\ g \in [0 .. n -> CfgUnits] /\ g[0] = u
                 /\ \A i \in 1 .. n : g[i] = step[i][g[i - 1]]
    <2> HIDE DEF step
    <2>1. \E g : Iterates(g, CfgUnits, u, n, step)
      BY <1>1, <1>3, Iteration, Zenon
    <2> QED BY <2>1, Zenon DEF Iterates
  <1>5. ASSUME NEW i \in 1 .. n PROVE g[i] = Config!Apply(g[i - 1], p[i])
    <2>1. i - 1 \in 0 .. n /\ step[i] = [x \in CfgUnits |-> Config!Apply(x, p[i])]
      BY <1>1
    <2>2. g[i - 1] \in CfgUnits
      BY <1>4, <2>1
    <2> HIDE DEF step
    <2> QED BY <1>4, <2>1, <2>2
  <1> HIDE DEF step
  <1>6. Walks(g)
    <2>1. \A i \in 0 .. n : g[i] = IF i = 0 THEN u ELSE Config!Apply(g[i - 1], p[i])
      BY <1>1, <1>4, <1>5
    <2> QED BY <1>4, <2>1
  <1>7. Walks(walk)
    <2> HIDE DEF Walks
    <2> QED BY <1>6, Zenon DEF walk
  <1>8. \A f : Walks(f) => f = g
    <2> SUFFICES ASSUME NEW f, Walks(f) PROVE f = g
      OBVIOUS
    <2> DEFINE Same == {m \in Nat : m <= n => f[m] = g[m]}
    <2>1. \A i \in 0 .. n : f[i] = IF i = 0 THEN u ELSE Config!Apply(f[i - 1], p[i])
      BY Zenon
    <2>2. 0 \in Same
      BY <1>1, <1>4, <2>1
    <2>3. ASSUME NEW m \in Nat, m < n, m \in Same PROVE m + 1 \in Same
      <3>1. m + 1 \in 1 .. n /\ m + 1 \in 0 .. n /\ (m + 1) - 1 = m /\ m + 1 # 0 /\ f[m] = g[m]
        BY <1>1, <2>3
      <3>2. f[m + 1] = Config!Apply(f[m], p[m + 1])
        BY <2>1, <3>1
      <3>3. g[m + 1] = Config!Apply(g[m], p[m + 1])
        BY <1>5, <3>1
      <3> QED BY <3>1, <3>2, <3>3
    <2>4. \A m \in 0 .. n : m \in Same
      <3> HIDE DEF Same
      <3> QED BY <1>1, <2>2, <2>3, Induction
    <2>5. \A m \in 0 .. n : f[m] = g[m]
      BY <1>1, <2>4
    <2> QED BY <1>4, <2>5
  <1>9. walk = g
    <2> HIDE DEF Walks
    <2> QED BY <1>7, <1>8, Zenon
  <1> QED BY <1>2, <1>4, <1>5, <1>9 DEF n

(* A program that names no firmware leaves what the driver knows. *)
LEMMA CfgPlainRuns ==
    ASSUME NEW u \in CfgUnits, NEW p \in Seq(CfgPlain), NEW n \in 0 .. Len(p)
    PROVE  LET r == Config!States(p, u)[n] IN r \in CfgUnits /\ r.fw = u.fw /\ r.remap = u.remap
  <1> DEFINE f == Config!States(p, u)
             Good == {m \in Nat : m <= Len(p) => f[m].fw = u.fw /\ f[m].remap = u.remap}
  <1>1. p \in Seq(CfgAccesses) /\ Len(p) \in Nat
    BY DEF CfgPlain
  <1>2. /\ f \in [0 .. Len(p) -> CfgUnits] /\ f[0] = u
        /\ \A i \in 1 .. Len(p) : f[i] = Config!Apply(f[i - 1], p[i])
    BY <1>1, CfgStates
  <1> HIDE DEF f
  <1>3. 0 \in Good
    BY <1>2
  <1>4. ASSUME NEW m \in Nat, m < Len(p), m \in Good PROVE m + 1 \in Good
    <2>1. m + 1 \in 1 .. Len(p) /\ (m + 1) - 1 = m /\ m \in 0 .. Len(p)
      BY <1>1, <1>4
    <2>2. f[m] \in CfgUnits /\ f[m + 1] = Config!Apply(f[m], p[m + 1])
      BY <1>2, <2>1
    <2>3. p[m + 1] \in CfgPlain
      BY <2>1, ElementOfSeq
    <2>4. /\ p[m + 1] \in CfgAccesses /\ p[m + 1].op \notin Renames /\ p[m + 1].op # "keep"
      BY <2>3 DEF CfgPlain
    <2>5. f[m + 1].fw = f[m].fw /\ f[m + 1].remap = f[m].remap
      BY <2>2, <2>4, CfgApply
    <2> QED BY <1>4, <2>5
  <1>5. \A m \in 0 .. Len(p) : m \in Good
    <2> HIDE DEF Good
    <2> QED BY <1>1, <1>3, <1>4, Induction
  <1>6. n \in Good /\ f[n] \in CfgUnits
    BY <1>2, <1>5
  <1> QED BY <1>6 DEF f

(* A program that names firmware once, and keeps nothing *)
Turns(p, op) ==
    /\ p \in Seq(CfgAccesses) /\ op \in Renames
    /\ \E k \in 1 .. Len(p) :
         p[k].op = op /\ \A i \in 1 .. Len(p) : i # k => p[i] \in CfgPlain

LEMMA CfgTurnRuns ==
    ASSUME NEW u \in CfgUnits, NEW p, NEW op, Turns(p, op), NEW n \in 0 .. Len(p)
    PROVE  LET r == Config!States(p, u)[n]
           IN  /\ r \in CfgUnits /\ r.fw \in {u.fw, Named(op)} /\ r.remap = u.remap
               /\ n = Len(p) => r.fw = Named(op)
  <1> DEFINE f == Config!States(p, u)
  <1>1. /\ f \in [0 .. Len(p) -> CfgUnits] /\ f[0] = u /\ Len(p) \in Nat
        /\ \A i \in 1 .. Len(p) : f[i] = Config!Apply(f[i - 1], p[i])
    BY CfgStates DEF Turns
  <1> HIDE DEF f
  <1>2. PICK k \in 1 .. Len(p) : p[k].op = op /\ \A i \in 1 .. Len(p) : i # k => p[i] \in CfgPlain
    BY DEF Turns
  <1> DEFINE Good == {m \in Nat : m <= Len(p) => /\ f[m].fw = IF m < k THEN u.fw ELSE Named(op)
                                                 /\ f[m].remap = u.remap}
  <1>3. 0 \in Good
    BY <1>1, <1>2
  <1>4. ASSUME NEW m \in Nat, m < Len(p), m \in Good PROVE m + 1 \in Good
    <2>1. m + 1 \in 1 .. Len(p) /\ (m + 1) - 1 = m /\ m \in 0 .. Len(p)
      BY <1>1, <1>4
    <2>2. f[m] \in CfgUnits /\ f[m + 1] = Config!Apply(f[m], p[m + 1])
      BY <1>1, <2>1
    <2>3. p[m + 1] \in CfgAccesses
      BY <2>1, ElementOfSeq DEF Turns
    <2>4. /\ f[m + 1].fw = IF p[m + 1].op \in Renames THEN Named(p[m + 1].op) ELSE f[m].fw
          /\ f[m + 1].remap = IF p[m + 1].op = "keep" THEN f[m].fw ELSE f[m].remap
      BY <2>2, <2>3, CfgApply
    <2>5. IF m + 1 = k THEN p[m + 1].op = op /\ op \in Renames /\ op # "keep"
          ELSE p[m + 1].op \notin Renames /\ p[m + 1].op # "keep"
      BY <1>2, <2>1 DEF Turns, CfgPlain, Renames
    <2>6. CASE m + 1 = k
      <3>1. f[m + 1].fw = Named(op) /\ f[m + 1].remap = f[m].remap
        BY <2>4, <2>5, <2>6
      <3> QED BY <1>4, <2>6, <3>1
    <2>7. CASE m + 1 # k
      <3>1. f[m + 1].fw = f[m].fw /\ f[m + 1].remap = f[m].remap
        BY <2>4, <2>5, <2>7
      <3> QED BY <1>2, <1>4, <2>7, <3>1
    <2> QED BY <2>6, <2>7
  <1>5. \A m \in 0 .. Len(p) : m \in Good
    <2> HIDE DEF Good
    <2> QED BY <1>1, <1>3, <1>4, Induction
  <1>6. n \in Good /\ f[n] \in CfgUnits /\ (n = Len(p) => ~(n < k))
    BY <1>1, <1>2, <1>5
  <1> QED BY <1>6 DEF f

LEMMA CfgTurns ==
    ASSUME NEW p, NEW op, Turns(p, op), NEW q \in Seq(CfgPlain)
    PROVE  Turns(p \o q, op) /\ Turns(q \o p, op)
  <1>1. p \in Seq(CfgAccesses) /\ q \in Seq(CfgAccesses) /\ Len(p) \in Nat /\ Len(q) \in Nat
    BY DEF Turns, CfgPlain
  <1>2. PICK k \in 1 .. Len(p) : p[k].op = op /\ \A i \in 1 .. Len(p) : i # k => p[i] \in CfgPlain
    BY DEF Turns
  <1>3. \A i \in 1 .. Len(q) : q[i] \in CfgPlain
    BY ElementOfSeq
  <1>4. Turns(p \o q, op)
    <2> DEFINE r == p \o q
    <2>1. /\ r \in Seq(CfgAccesses) /\ Len(r) = Len(p) + Len(q)
          /\ \A i \in 1 .. Len(p) + Len(q) : r[i] = IF i <= Len(p) THEN p[i] ELSE q[i - Len(p)]
      BY <1>1, ConcatProperties
    <2> HIDE DEF r
    <2>2. k \in 1 .. Len(r) /\ r[k].op = op
      BY <1>1, <1>2, <2>1
    <2>3. ASSUME NEW i \in 1 .. Len(r), i # k PROVE r[i] \in CfgPlain
      <3>1. CASE i <= Len(p)
        BY <1>1, <1>2, <2>1, <2>3, <3>1
      <3>2. CASE ~(i <= Len(p))
        <4>1. i - Len(p) \in 1 .. Len(q) /\ r[i] = q[i - Len(p)]
          BY <1>1, <2>1, <3>2
        <4> QED BY <1>3, <4>1
      <3> QED BY <3>1, <3>2
    <2>4. Turns(r, op)
      BY <2>1, <2>2, <2>3 DEF Turns
    <2> QED BY <2>4 DEF r
  <1>5. Turns(q \o p, op)
    <2> DEFINE r == q \o p
    <2>1. /\ r \in Seq(CfgAccesses) /\ Len(r) = Len(q) + Len(p)
          /\ \A i \in 1 .. Len(q) + Len(p) : r[i] = IF i <= Len(q) THEN q[i] ELSE p[i - Len(q)]
      BY <1>1, ConcatProperties
    <2> HIDE DEF r
    <2>2. k + Len(q) \in 1 .. Len(r) /\ r[k + Len(q)].op = op
      <3>1. k + Len(q) \in 1 .. Len(r) /\ ~(k + Len(q) <= Len(q)) /\ (k + Len(q)) - Len(q) = k
        BY <1>1, <1>2, <2>1
      <3> QED BY <1>2, <2>1, <3>1
    <2>3. ASSUME NEW i \in 1 .. Len(r), i # k + Len(q) PROVE r[i] \in CfgPlain
      <3>1. CASE i <= Len(q)
        BY <1>1, <1>3, <2>1, <3>1
      <3>2. CASE ~(i <= Len(q))
        <4>1. i - Len(q) \in 1 .. Len(p) /\ i - Len(q) # k /\ r[i] = p[i - Len(q)]
          BY <1>1, <1>2, <2>1, <2>3, <3>2
        <4> QED BY <1>2, <4>1
      <3> QED BY <3>1, <3>2
    <2>4. Turns(r, op)
      BY <2>1, <2>2, <2>3 DEF Turns
    <2> QED BY <2>4 DEF r
  <1> QED BY <1>4, <1>5

(* What is kept at the end of a program is the firmware that is known then. *)
LEMMA CfgKept ==
    ASSUME NEW u \in CfgUnits, NEW p \in Seq(CfgAccesses), NEW a \in CfgAccesses,
           NEW n \in 0 .. Len(p \o <<a>>)
    PROVE  /\ Len(p \o <<a>>) = Len(p) + 1 /\ p \o <<a>> \in Seq(CfgAccesses)
           /\ n <= Len(p) => Config!States(p \o <<a>>, u)[n] = Config!States(p, u)[n]
           /\ n = Len(p) + 1 =>
                Config!States(p \o <<a>>, u)[n] = Config!Apply(Config!States(p, u)[Len(p)], a)
  <1> DEFINE r == p \o <<a>>
             f == Config!States(p, u)
             g == Config!States(r, u)
  <1>1. /\ r \in Seq(CfgAccesses) /\ Len(r) = Len(p) + 1 /\ Len(p) \in Nat
        /\ \A i \in 1 .. Len(p) : r[i] = p[i]
        /\ r[Len(p) + 1] = a
    OBVIOUS
  <1> HIDE DEF r
  <1>2. /\ f[0] = u /\ \A i \in 1 .. Len(p) : f[i] = Config!Apply(f[i - 1], p[i])
    BY CfgStates
  <1>3. /\ g[0] = u /\ \A i \in 1 .. Len(r) : g[i] = Config!Apply(g[i - 1], r[i])
    BY <1>1, CfgStates
  <1> HIDE DEF f, g
  <1> DEFINE Same == {m \in Nat : m <= Len(p) => g[m] = f[m]}
  <1>4. 0 \in Same
    BY <1>2, <1>3
  <1>5. ASSUME NEW m \in Nat, m < Len(p), m \in Same PROVE m + 1 \in Same
    <2>1. m + 1 \in 1 .. Len(p) /\ m + 1 \in 1 .. Len(r) /\ (m + 1) - 1 = m /\ g[m] = f[m]
      BY <1>1, <1>5
    <2>2. f[m + 1] = Config!Apply(f[m], p[m + 1])
      BY <1>2, <2>1
    <2>3. g[m + 1] = Config!Apply(g[m], r[m + 1])
      BY <1>3, <2>1
    <2> QED BY <1>1, <2>1, <2>2, <2>3
  <1>6. \A m \in 0 .. Len(p) : m \in Same
    <2> HIDE DEF Same
    <2> QED BY <1>1, <1>4, <1>5, Induction
  <1>7. \A m \in 0 .. Len(p) : g[m] = f[m]
    BY <1>1, <1>6
  <1>8. g[Len(p) + 1] = Config!Apply(f[Len(p)], a)
    <2>1. Len(p) + 1 \in 1 .. Len(r) /\ (Len(p) + 1) - 1 = Len(p) /\ Len(p) \in 0 .. Len(p)
      BY <1>1
    <2> QED BY <1>1, <1>3, <1>7, <2>1
  <1>9. n \in 0 .. Len(r)
    BY DEF r
  <1>10. n <= Len(p) => n \in 0 .. Len(p)
    BY <1>1, <1>9
  <1> QED BY <1>1, <1>7, <1>8, <1>10 DEF r, f, g

--------------------------------------------------------------------------------
(* Cs40l2xConfig: what programs are made of *)

CfgPrograms == Seq(CfgPlain)

LEMMA CfgJoined ==
    ASSUME NEW p \in CfgPrograms, NEW q \in CfgPrograms
    PROVE  p \o q \in CfgPrograms
  BY DEF CfgPrograms

LEMMA CfgNothing == <<>> \in CfgPrograms
  BY DEF CfgPrograms

LEMMA CfgAccess ==
    ASSUME NEW op \in Calls \cup Edits, NEW of \in CfgPlaces, NEW to \in CfgValues
    PROVE  Config!Access(op, of, to) \in CfgPrograms
  <1>1. op \notin Renames \cup {"keep"}
    BY DEF Calls, Edits, Renames
  <1>2. [op |-> op, of |-> of, to |-> to] \in CfgPlain
    BY <1>1 DEF CfgPlain, CfgAccesses
  <1> QED BY <1>2 DEF Config!Access, CfgPrograms

LEMMA CfgValuesAre ==
    /\ Config!Dt \in CfgValues /\ Config!Default \in CfgValues /\ Config!GpioMask \in CfgValues
    /\ \A s \in CfgMarks : {s} \in CfgValues
    /\ {"lim", "classh"} \in CfgValues
  <1>1. \A s \in CfgMarks : {s} \in CfgValues
    BY DEF CfgValues
  <1>2. {"lim", "classh"} \in CfgValues
    BY DEF CfgValues, CfgMarks
  <1>3. Config!Dt \in CfgValues
    BY DEF Config!Dt, CfgValues, CfgMarks
  <1>4. Config!Default \in CfgValues
    BY DEF CfgValues, Config!Default
  <1>5. Config!GpioMask \in CfgValues
    BY DEF CfgValues, CfgMarks, Config!GpioMask, Config!ButtonEdges
  <1> QED BY <1>1, <1>2, <1>3, <1>4, <1>5, Zenon

LEMMA CfgAccessesAre ==
    ASSUME NEW of \in CfgPlaces, NEW to \in CfgValues
    PROVE  /\ Config!Write(of, to) \in CfgPrograms /\ Config!SetBits(of, to) \in CfgPrograms
           /\ Config!Clear(of, to) \in CfgPrograms /\ Config!Sequence(of, to) \in CfgPrograms
           /\ Config!Repeat(of) \in CfgPrograms /\ Config!Replace(of, to) \in CfgPrograms
           /\ Config!ReplaceRepeat(of) \in CfgPrograms /\ Config!Both(of, to) \in CfgPrograms
  <1>1. \A op \in {"write", "set", "clear", "append", "repeat", "replace", "replace_repeat"} :
          op \in Calls \cup Edits
    BY DEF Edits
  <1>2. /\ Config!Write(of, to) \in CfgPrograms /\ Config!SetBits(of, to) \in CfgPrograms
        /\ Config!Clear(of, to) \in CfgPrograms /\ Config!Sequence(of, to) \in CfgPrograms
        /\ Config!Replace(of, to) \in CfgPrograms
    BY <1>1, CfgAccess, Zenon
       DEF Config!Write, Config!SetBits, Config!Clear, Config!Sequence, Config!Replace
  <1>3. /\ Config!Repeat(of) \in CfgPrograms /\ Config!ReplaceRepeat(of) \in CfgPrograms
    BY <1>1, CfgAccess, CfgValuesAre, Zenon DEF Config!Repeat, Config!ReplaceRepeat
  <1>4. Config!Both(of, to) \in CfgPrograms
    BY <1>2, CfgJoined, Zenon DEF Config!Both
  <1> QED BY <1>2, <1>3, <1>4, Zenon

LEMMA CfgCalls ==
    ASSUME NEW op \in Calls
    PROVE  Config!Call(op) \in CfgPrograms
  <1>1. "load" \in CfgPlaces
    BY DEF CfgPlaces
  <1> QED BY <1>1, CfgAccess, CfgValuesAre, Zenon DEF Config!Call

LEMMA CfgRefused == Config!Refuse \in CfgPrograms
  <1>1. "refuse" \in Calls
    BY DEF Calls
  <1> QED BY <1>1, CfgCalls, Zenon DEF Config!Refuse

(* A call that names firmware *)
LEMMA CfgNaming ==
    ASSUME NEW op \in Renames
    PROVE  Turns(Config!Call(op), op)
  <1> DEFINE a == [op |-> op, of |-> "load", to |-> {}]
  <1>1. Config!Call(op) = <<a>>
    BY DEF Config!Call, Config!Access, Config!Default
  <1>2. a \in CfgAccesses
    BY DEF CfgAccesses, CfgPlaces, CfgValues, Renames
  <1>3. a.op = op
    OBVIOUS
  <1> HIDE DEF a
  <1>4. <<a>> \in Seq(CfgAccesses) /\ Len(<<a>>) = 1 /\ <<a>>[1] = a
    BY <1>2
  <1> QED BY <1>1, <1>3, <1>4 DEF Turns

(* Programs that are written out *)
LEMMA CfgPatches ==
    /\ Config!RevB0Errata \in CfgPrograms /\ Config!OtpUnpack \in CfgPrograms
    /\ \A u : Config!BasicModeExit(u) \in CfgPrograms
  <1>1. /\ {"key", "lbst", "errata", "trim", "global_en", "volume"} \subseteq CfgPlaces
        /\ {"open", "on", "hpf"} \subseteq CfgMarks
        /\ {"otp", "boot", "heartbeat", "stop"} \subseteq Calls
    BY DEF CfgPlaces, CfgMarks, Calls, Config!Registers
  <1>2. /\ Config!Both("key", {"open"}) \in CfgPrograms /\ Config!Both("lbst", {"on"}) \in CfgPrograms
        /\ Config!Both("errata", Config!Dt) \in CfgPrograms /\ Config!Both("key", Config!Default) \in CfgPrograms
        /\ Config!Write("key", {"open"}) \in CfgPrograms /\ Config!Write("trim", Config!Dt) \in CfgPrograms
        /\ Config!Write("key", Config!Default) \in CfgPrograms
        /\ Config!Write("global_en", Config!Default) \in CfgPrograms
        /\ Config!Write("volume", {"hpf"}) \in CfgPrograms
    BY <1>1, CfgAccessesAre, CfgValuesAre, Zenon
  <1>3. Config!RevB0Errata \in CfgPrograms
    BY <1>2, CfgJoined, Zenon DEF Config!RevB0Errata
  <1>4. Config!OtpUnpack \in CfgPrograms
    BY <1>1, <1>2, CfgCalls, CfgJoined, Zenon DEF Config!OtpUnpack
  <1>5. Config!Call("boot") \o Config!Call("heartbeat") \o Config!Call("stop")
        \o Config!Write("global_en", Config!Default) \o Config!Write("volume", {"hpf"}) \in CfgPrograms
    BY <1>1, <1>2, CfgCalls, CfgJoined, Zenon
  <1>6. \A u : Config!BasicModeExit(u) \in CfgPrograms
    BY <1>5, CfgRefused, Zenon DEF Config!BasicModeExit
  <1> QED BY <1>3, <1>4, <1>6, Zenon

(* The part's number decides on the firmware. *)
LEMMA CfgResolves ==
    ASSUME device \in {"l20", "l25", "l25a", "l25b"}
    PROVE  \E op \in Renames :
        /\ Turns(Config!PartNumResolve, op)
        /\ Named(op) = IF Config!B1 THEN "remap" ELSE "orig"
  <1>1. Config!Call("otp_boot") \in CfgPrograms
    BY CfgCalls DEF Calls
  <1>2. ASSUME NEW p \in CfgPrograms, NEW op \in Renames
        PROVE  Turns(Config!Call("otp_boot") \o (p \o Config!Call(op)), op)
    <2>1. Turns(Config!Call(op), op)
      BY CfgNaming, Zenon
    <2>2. Turns(p \o Config!Call(op), op)
      BY <2>1, CfgTurns, Zenon DEF CfgPrograms
    <2> QED BY <1>1, <2>2, CfgTurns, Zenon DEF CfgPrograms
  <1>3. "fw_orig" \in Renames /\ "fw_remap" \in Renames /\ Named("fw_orig") = "orig" /\ Named("fw_remap") = "remap"
    BY DEF Renames, Named
  <1>4. CASE device = "l20"
    <2>1. "errata" \in CfgPlaces
      BY DEF CfgPlaces, Config!Registers
    <2>2. Config!Write("errata", Config!Dt) \o Config!OtpUnpack \in CfgPrograms
      BY <2>1, CfgAccessesAre, CfgValuesAre, CfgJoined, CfgPatches, Zenon
    <2>3. Config!PartNumResolve = Config!Call("otp_boot") \o
            (Config!Write("errata", Config!Dt) \o Config!OtpUnpack \o Config!Call("fw_orig"))
      BY <1>4 DEF Config!PartNumResolve
    <2>4. ~Config!B1
      BY <1>4 DEF Config!B1
    <2> QED BY <1>2, <1>3, <2>2, <2>3, <2>4, Zenon
  <1>5. CASE device = "l25"
    <2>1. Config!PartNumResolve = Config!Call("otp_boot") \o (Config!RevB0Errata \o Config!Call("fw_orig"))
      BY <1>5 DEF Config!PartNumResolve
    <2>2. ~Config!B1
      BY <1>5 DEF Config!B1
    <2> QED BY <1>2, <1>3, <2>1, <2>2, CfgPatches, Zenon
  <1>6. CASE device \in {"l25a", "l25b"}
    <2>1. Config!BasicModeExit(Config!Fresh) \o Config!RevB0Errata \in CfgPrograms
      BY CfgJoined, CfgPatches, Zenon
    <2>2. Config!PartNumResolve = Config!Call("otp_boot") \o
            (Config!BasicModeExit(Config!Fresh) \o Config!RevB0Errata \o Config!Call("fw_remap"))
      BY <1>6 DEF Config!PartNumResolve
    <2>3. Config!B1
      BY <1>6 DEF Config!B1
    <2> QED BY <1>2, <1>3, <2>1, <2>2, <2>3, Zenon
  <1> QED BY <1>4, <1>5, <1>6

LEMMA CfgBoosts == Config!BoostConfig \in CfgPrograms
  <1>1. /\ {"boost", "ipk", "limit", "ovp", "vctrl2", "global_en", "lbst"} \subseteq CfgPlaces
        /\ {"classh", "on", "off"} \subseteq CfgMarks /\ "check_short" \in Calls
    BY DEF CfgPlaces, CfgMarks, Calls, Config!Registers
  <1>2. /\ Config!Both("boost", Config!Dt) \in CfgPrograms /\ Config!Both("ipk", Config!Dt) \in CfgPrograms
        /\ Config!Both("limit", Config!Dt) \in CfgPrograms /\ Config!Both("ovp", Config!Dt) \in CfgPrograms
    BY <1>1, CfgAccessesAre, CfgValuesAre, Zenon
  <1>3. /\ Config!Clear("vctrl2", {"classh"}) \in CfgPrograms
        /\ Config!Write("global_en", {"on"}) \in CfgPrograms
        /\ Config!Write("global_en", Config!Default) \in CfgPrograms
        /\ Config!SetBits("vctrl2", {"classh"}) \in CfgPrograms
        /\ Config!Replace("lbst", {"off"}) \in CfgPrograms
        /\ Config!Call("check_short") \in CfgPrograms
    BY <1>1, CfgAccessesAre, CfgValuesAre, CfgCalls, Zenon
  <1>4. Config!BoostShortTest \in CfgPrograms
    BY <1>3, CfgJoined, Zenon DEF Config!BoostShortTest
  <1>5. /\ (IF Config!Has("boost-ovp-millivolt") THEN Config!Both("ovp", Config!Dt) ELSE <<>>) \in CfgPrograms
        /\ (IF device = "l20" THEN <<>> ELSE Config!BoostShortTest) \in CfgPrograms
    BY <1>2, <1>4, CfgNothing, Zenon
  <1> QED BY <1>2, <1>5, CfgJoined, Zenon DEF Config!BoostConfig

LEMMA CfgBrownouts ==
    ASSUME NEW br \in {"vpbr", "vbbr"}
    PROVE  Config!BrownoutConfig(br) \in CfgPrograms
  <1>1. br \in CfgPlaces /\ br \in CfgMarks /\ "pwr3" \in CfgPlaces
    BY DEF CfgPlaces, CfgMarks, Config!Registers
  <1>2. /\ Config!SetBits("pwr3", {br}) \in CfgPrograms /\ Config!ReplaceRepeat("pwr3") \in CfgPrograms
        /\ Config!Both(br, Config!Dt) \in CfgPrograms
    BY <1>1, CfgAccessesAre, CfgValuesAre, Zenon
  <1>3. (IF Config!BrConfig THEN Config!Both(br, Config!Dt) ELSE <<>>) \in CfgPrograms
    BY <1>2, CfgNothing, Zenon
  <1>4. Config!SetBits("pwr3", {br}) \o Config!ReplaceRepeat("pwr3")
          \o (IF Config!BrConfig THEN Config!Both(br, Config!Dt) ELSE <<>>) \in CfgPrograms
    BY <1>2, <1>3, CfgJoined, Zenon
  <1> QED BY <1>4, CfgNothing, Zenon DEF Config!BrownoutConfig

LEMMA CfgClassh == Config!ClasshConfig \in CfgPrograms
  <1>1. {"vctrl2", "pwr3"} \subseteq CfgPlaces /\ {"lim", "classh"} \subseteq CfgMarks
    BY DEF CfgPlaces, CfgMarks, Config!Registers
  <1>2. (IF Config!CondClassh THEN {"lim", "classh"} ELSE {"lim"}) \in CfgValues
    BY <1>1, CfgValuesAre, Zenon
  <1>3. /\ Config!Both("vctrl2", IF Config!CondClassh THEN {"lim", "classh"} ELSE {"lim"}) \in CfgPrograms
        /\ Config!SetBits("pwr3", {"classh"}) \in CfgPrograms
        /\ Config!Clear("pwr3", {"classh"}) \in CfgPrograms
        /\ Config!Repeat("pwr3") \in CfgPrograms
    BY <1>1, <1>2, CfgAccessesAre, CfgValuesAre, Zenon
  <1>4. (IF Config!CondClassh THEN Config!SetBits("pwr3", {"classh"}) ELSE Config!Clear("pwr3", {"classh"})) \in CfgPrograms
    BY <1>3, Zenon
  <1> QED BY <1>3, <1>4, CfgJoined, Zenon DEF Config!ClasshConfig

LEMMA CfgInits == Config!InitRegisters \in CfgPrograms
  <1>1. /\ {"pad", "pll", "routing", "volume", "wksrc", "mpu", "asp", "dcm"} \subseteq CfgPlaces
        /\ "hpf" \in CfgMarks
    BY DEF CfgPlaces, CfgMarks, Config!Registers
  <1>2. /\ Config!Both("pad", Config!Dt) \in CfgPrograms /\ Config!Both("pll", Config!Dt) \in CfgPrograms
        /\ Config!Both("routing", Config!Dt) \in CfgPrograms /\ Config!Sequence("volume", {"hpf"}) \in CfgPrograms
        /\ Config!Both("wksrc", Config!GpioMask) \in CfgPrograms /\ Config!Write("mpu", Config!Dt) \in CfgPrograms
        /\ Config!Sequence("pll", Config!Dt) \in CfgPrograms /\ Config!Both("asp", Config!Dt) \in CfgPrograms
        /\ Config!Both("dcm", Config!Dt) \in CfgPrograms
    BY <1>1, CfgAccessesAre, CfgValuesAre, Zenon
  <1>3. /\ (IF Config!Has("refclk-gpio2") /\ ~Config!B1
            THEN Config!Both("pad", Config!Dt) \o Config!Both("pll", Config!Dt) ELSE <<>>) \in CfgPrograms
        /\ (IF Config!B1 THEN Config!Both("wksrc", Config!GpioMask)
            ELSE Config!Write("mpu", Config!Dt)) \in CfgPrograms
        /\ (IF Config!AspAvailable THEN Config!Sequence("pll", Config!Dt) \o Config!AspConfig
            ELSE <<>>) \in CfgPrograms
        /\ (IF Config!Has("dcm-disable") THEN Config!Both("dcm", Config!Dt) ELSE <<>>) \in CfgPrograms
    BY <1>2, CfgJoined, CfgNothing, Zenon DEF Config!AspConfig
  <1>4. Config!BrownoutConfig("vpbr") \in CfgPrograms /\ Config!BrownoutConfig("vbbr") \in CfgPrograms
    BY CfgBrownouts
  <1>5. (IF Config!Has("refclk-gpio2") /\ ~Config!B1
         THEN Config!Both("pad", Config!Dt) \o Config!Both("pll", Config!Dt) ELSE <<>>)
        \o Config!BoostConfig \o Config!Both("routing", Config!Dt) \o Config!Sequence("volume", {"hpf"})
        \o (IF Config!B1 THEN Config!Both("wksrc", Config!GpioMask)
            ELSE Config!Write("mpu", Config!Dt)) \in CfgPrograms
    BY <1>2, <1>3, CfgBoosts, CfgJoined, Zenon
  <1> QED BY <1>3, <1>4, <1>5, CfgClassh, CfgJoined, Zenon DEF Config!InitRegisters

LEMMA CfgFirmwareParses ==
    ASSUME NEW answer
    PROVE  Config!FirmwareParse(answer) \in CfgPrograms
  <1>1. {"num_algos", "algos", "memory", "algo_info"} \subseteq Calls
    BY DEF Calls
  <1>2. Config!CoeffInit(answer = "fit") \in CfgPrograms
    BY <1>1, CfgCalls, CfgRefused, CfgNothing, CfgJoined, Zenon DEF Config!CoeffInit
  <1>3. Config!Call("memory") \o Config!Call("algo_info") \o Config!CoeffInit(answer = "fit") \in CfgPrograms
    BY <1>1, <1>2, CfgCalls, CfgJoined, Zenon
  <1> QED BY <1>3, CfgRefused, Zenon DEF Config!FirmwareParse

LEMMA CfgFileParses ==
    ASSUME NEW file \in Config!Files, NEW answer \in {"missing", "unknown", "fit"}
    PROVE  Config!CoeffFileParse(file, answer) \in CfgPrograms
  <1>1. file \in CfgPlaces
    BY DEF CfgPlaces, Config!Words
  <1>2. Config!Write(file, Config!Dt) \in CfgPrograms
    BY <1>1, CfgAccessesAre, CfgValuesAre, Zenon
  <1>3. /\ answer = "missing" => Config!CoeffFileParse(file, answer) = <<>>
        /\ answer = "unknown" => Config!CoeffFileParse(file, answer) = Config!Refuse
        /\ answer = "fit" => Config!CoeffFileParse(file, answer) = Config!Write(file, Config!Dt)
    BY DEF Config!CoeffFileParse
  <1> QED BY <1>2, <1>3, CfgNothing, CfgRefused

LEMMA CfgStarts ==
    ASSUME NEW firm
    PROVE  Config!Start(firm) \in CfgPrograms
  <1>1. /\ {"key", "amp", "gpio_mask", "gpio_pol", "gpio_enable", "spk_auto", "events", "irq_mask",
            "timeout_ms", "comp", "f0", "redc", "q", "pr_timeout"} \subseteq CfgPlaces
        /\ {"open", "gnd", "off", "on"} \subseteq CfgMarks
        /\ {"wseq_init", "errata", "start", "run", "sync", "hw_err_chk"} \subseteq Calls
        /\ (setting_cfg \in Config!ButtonEdges => setting_cfg \in CfgPlaces)
    BY DEF CfgPlaces, CfgMarks, Calls, Config!Registers, Config!Words
  <1>2. /\ Config!Both("key", {"open"}) \in CfgPrograms /\ Config!Both("amp", {"gnd"}) \in CfgPrograms
        /\ Config!Write("key", {"open"}) \in CfgPrograms /\ Config!Write("amp", Config!Default) \in CfgPrograms
        /\ Config!Write("key", Config!Default) \in CfgPrograms
        /\ Config!Write("gpio_mask", Config!GpioMask) \in CfgPrograms
        /\ Config!Write("gpio_enable", {"off"}) \in CfgPrograms
        /\ Config!Write("irq_mask", Config!Dt) \in CfgPrograms
    BY <1>1, CfgAccessesAre, CfgValuesAre, Zenon
  <1>3. /\ Config!Write("gpio_pol", IF tree = "indv" THEN Config!Dt ELSE Config!Default) \in CfgPrograms
        /\ Config!Write("spk_auto", IF Config!Clamped THEN {"gnd"} ELSE Config!Default) \in CfgPrograms
        /\ Config!Write("events", IF Config!EventControl THEN {"on"} ELSE Config!Default) \in CfgPrograms
    <2>1. /\ (IF tree = "indv" THEN Config!Dt ELSE Config!Default) \in CfgValues
          /\ (IF Config!Clamped THEN {"gnd"} ELSE Config!Default) \in CfgValues
          /\ (IF Config!EventControl THEN {"on"} ELSE Config!Default) \in CfgValues
      BY <1>1, CfgValuesAre, Zenon
    <2> QED BY <1>1, <2>1, CfgAccessesAre, Zenon
  <1>4. Config!AmpGndSetup \in CfgPrograms /\ Config!AmpFreeSetup \in CfgPrograms
    BY <1>2, CfgJoined, Zenon DEF Config!AmpGndSetup, Config!AmpFreeSetup
  <1>5. /\ (IF Config!B1 THEN Config!Write("gpio_pol", IF tree = "indv" THEN Config!Dt ELSE Config!Default)
            ELSE <<>>) \in CfgPrograms
        /\ (IF Config!Gpio1Mode = "on" THEN <<>> ELSE Config!Write("gpio_enable", {"off"})) \in CfgPrograms
        /\ (IF ~Config!Clamping /\ Config!B1
            THEN Config!Write("spk_auto", IF Config!Clamped THEN {"gnd"} ELSE Config!Default)
            ELSE <<>>) \in CfgPrograms
        /\ (IF Config!Clamping THEN Config!AmpGndSetup ELSE <<>>) \in CfgPrograms
    BY <1>2, <1>3, <1>4, CfgNothing, Zenon
  <1>6. (IF firm = "orig" THEN <<>>
         ELSE Config!Call("wseq_init")
              \o Config!Write("events", IF Config!EventControl THEN {"on"} ELSE Config!Default)
              \o Config!Write("irq_mask", Config!Dt)) \in CfgPrograms
    BY <1>1, <1>2, <1>3, CfgCalls, CfgJoined, CfgNothing, Zenon
  <1>7. Config!DspPreConfig(firm) \in CfgPrograms
    BY <1>2, <1>4, <1>5, <1>6, CfgJoined, Zenon DEF Config!DspPreConfig
  <1>8. Config!DspStart \in CfgPrograms
    BY <1>1, CfgCalls, CfgJoined, Zenon DEF Config!DspStart
  <1>9. /\ Config!Write("timeout_ms", Config!Dt) \in CfgPrograms /\ Config!Write("comp", Config!Dt) \in CfgPrograms
        /\ Config!Write("f0", Config!Dt) \in CfgPrograms /\ Config!Write("redc", Config!Dt) \in CfgPrograms
        /\ Config!Write("q", Config!Dt) \in CfgPrograms /\ Config!Write("pr_timeout", Config!Dt) \in CfgPrograms
        /\ (setting_cfg \in Config!ButtonEdges => Config!Write(setting_cfg, Config!Dt) \in CfgPrograms)
    BY <1>1, CfgAccessesAre, CfgValuesAre, Zenon
  <1>10. /\ (IF Config!Has("f0-default")
             THEN Config!Write("f0", Config!Dt) \o Config!Write("redc", Config!Dt) ELSE <<>>) \in CfgPrograms
         /\ (IF Config!Has("q-default") /\ firm # "orig" THEN Config!Write("q", Config!Dt) ELSE <<>>) \in CfgPrograms
         /\ (IF /\ setting_cfg \in Config!ButtonEdges /\ setting_cfg \in Config!GpioMask
                /\ Config!InRange(setting_cfg)
             THEN Config!Write(setting_cfg, Config!Dt) ELSE <<>>) \in CfgPrograms
         /\ (IF Config!Has("gpio1-fall-timeout") THEN Config!Write("pr_timeout", Config!Dt) ELSE <<>>) \in CfgPrograms
    BY <1>9, CfgJoined, CfgNothing, Zenon
  <1>11. Config!Write("timeout_ms", Config!Dt) \o Config!Call("sync") \o Config!Write("comp", Config!Dt) \in CfgPrograms
    BY <1>1, <1>9, CfgCalls, CfgJoined, Zenon
  <1>12. Config!Call("hw_err_chk") \in CfgPrograms
    BY <1>1, CfgCalls, Zenon
  <1>13. Config!DspPostConfig(firm) \in CfgPrograms
    <2> DEFINE a == Config!Write("timeout_ms", Config!Dt) \o Config!Call("sync") \o Config!Write("comp", Config!Dt)
               b == IF Config!Has("f0-default")
                    THEN Config!Write("f0", Config!Dt) \o Config!Write("redc", Config!Dt) ELSE <<>>
               c == IF Config!Has("q-default") /\ firm # "orig" THEN Config!Write("q", Config!Dt) ELSE <<>>
               d == IF /\ setting_cfg \in Config!ButtonEdges /\ setting_cfg \in Config!GpioMask
                       /\ Config!InRange(setting_cfg)
                    THEN Config!Write(setting_cfg, Config!Dt) ELSE <<>>
               e == IF Config!Has("gpio1-fall-timeout") THEN Config!Write("pr_timeout", Config!Dt) ELSE <<>>
    <2>1. Config!DspPostConfig(firm) = IF firm = "cal" THEN <<>> ELSE a \o b \o c \o d \o e \o Config!Call("hw_err_chk")
      BY DEF Config!DspPostConfig
    <2>2. a \in CfgPrograms /\ b \in CfgPrograms /\ c \in CfgPrograms /\ d \in CfgPrograms /\ e \in CfgPrograms
      BY <1>10, <1>11, Zenon
    <2> HIDE DEF a, b, c, d, e
    <2>3. a \o b \o c \o d \o e \o Config!Call("hw_err_chk") \in CfgPrograms
      BY <1>12, <2>2, CfgJoined, Zenon
    <2> QED BY <2>1, <2>3, CfgNothing, Zenon
  <1>14. Config!DspPreConfig(firm) \o Config!DspStart \in CfgPrograms
    BY <1>7, <1>8, CfgJoined, Zenon
  <1> QED BY <1>13, <1>14, CfgJoined, Zenon DEF Config!Start

LEMMA CfgRequested ==
    ASSUME NEW firm
    PROVE  /\ Config!Requested(firm) \subseteq Config!CoeffFiles(firm)
           /\ Config!CoeffFiles(firm) \subseteq Config!Files
           /\ IsFiniteSet(Config!CoeffFiles(firm)) /\ IsFiniteSet(Config!Requested(firm))
           /\ Cardinality(Config!CoeffFiles(firm)) \in 1 .. 3
           /\ Cardinality(Config!Requested(firm)) \in 0 .. Cardinality(Config!CoeffFiles(firm))
  <1>1. Config!CoeffFiles(firm) \in {{"wt", "df0"}, {"cal"}, {"wt", "df0", "clab"}, {"wt", "clab"}, {"wt", "exc", "df0"}}
    BY DEF Config!CoeffFiles
  <1>2. Config!Requested(firm) \subseteq Config!CoeffFiles(firm)
    BY DEF Config!Requested
  <1>3. \A s \in {{"wt", "df0"}, {"cal"}, {"wt", "df0", "clab"}, {"wt", "clab"}, {"wt", "exc", "df0"}} :
          s \subseteq Config!Files /\ IsFiniteSet(s) /\ Cardinality(s) \in 1 .. 3
    <2>1. \A a : IsFiniteSet({a}) /\ Cardinality({a}) = 1
      BY FS_Singleton
    <2>2. ASSUME NEW s, IsFiniteSet(s), NEW x, x \notin s
          PROVE  IsFiniteSet(s \cup {x}) /\ Cardinality(s \cup {x}) = Cardinality(s) + 1 /\ Cardinality(s) \in Nat
      BY <2>2, FS_AddElement, FS_CardinalityType
    <2>3. ASSUME NEW a, NEW b, a # b
          PROVE  IsFiniteSet({a, b}) /\ Cardinality({a, b}) = 2
      <3>1. {a, b} = {a} \cup {b} /\ b \notin {a}
        BY <2>3
      <3>2. IsFiniteSet({a} \cup {b}) /\ Cardinality({a} \cup {b}) = Cardinality({a}) + 1
        BY <2>1, <2>2, <3>1, Zenon
      <3> QED BY <2>1, <3>1, <3>2
    <2>4. ASSUME NEW a, NEW b, NEW c, a # b, a # c, b # c
          PROVE  IsFiniteSet({a, b, c}) /\ Cardinality({a, b, c}) = 3
      <3>1. {a, b, c} = {a, b} \cup {c} /\ c \notin {a, b}
        BY <2>4
      <3>2. IsFiniteSet({a, b}) /\ Cardinality({a, b}) = 2
        BY <2>3, <2>4
      <3>3. IsFiniteSet({a, b} \cup {c}) /\ Cardinality({a, b} \cup {c}) = Cardinality({a, b}) + 1
        BY <2>2, <3>1, <3>2, Zenon
      <3> QED BY <3>1, <3>2, <3>3
    <2>5. /\ IsFiniteSet({"wt", "df0"}) /\ Cardinality({"wt", "df0"}) = 2
          /\ IsFiniteSet({"wt", "clab"}) /\ Cardinality({"wt", "clab"}) = 2
          /\ IsFiniteSet({"cal"}) /\ Cardinality({"cal"}) = 1
      BY <2>1, <2>3
    <2>6. /\ IsFiniteSet({"wt", "df0", "clab"}) /\ Cardinality({"wt", "df0", "clab"}) = 3
          /\ IsFiniteSet({"wt", "exc", "df0"}) /\ Cardinality({"wt", "exc", "df0"}) = 3
      BY <2>4
    <2> QED BY <2>5, <2>6 DEF Config!Files
  <1>4. /\ Config!CoeffFiles(firm) \subseteq Config!Files /\ IsFiniteSet(Config!CoeffFiles(firm))
        /\ Cardinality(Config!CoeffFiles(firm)) \in 1 .. 3
    BY <1>1, <1>3
  <1>5. /\ IsFiniteSet(Config!Requested(firm))
        /\ Cardinality(Config!Requested(firm)) <= Cardinality(Config!CoeffFiles(firm))
    BY <1>2, <1>4, FS_Subset
  <1>6. Cardinality(Config!Requested(firm)) \in Nat
    BY <1>5, FS_CardinalityType
  <1> QED BY <1>2, <1>4, <1>5, <1>6

LEMMA CfgFilesParse ==
    ASSUME NEW firm, NEW refused
    PROVE  Config!CoeffFilesParse(firm, refused) \in CfgPrograms
  <1> DEFINE answer(f) == IF f \in Config!Missing THEN "missing" ELSE IF f = refused THEN "unknown" ELSE "fit"
             files == {f \in Config!Requested(firm) : Config!CoeffFileParse(f, answer(f)) # <<>>}
  <1>1. Config!CoeffFilesParse(firm, refused) =
          IF refused \in files THEN Config!Refuse
          ELSE IF setting_cfg \in files THEN Config!CoeffFileParse(setting_cfg, answer(setting_cfg)) ELSE <<>>
    BY DEF Config!CoeffFilesParse
  <1>2. ASSUME setting_cfg \in files
        PROVE  Config!CoeffFileParse(setting_cfg, answer(setting_cfg)) \in CfgPrograms
    <2>1. setting_cfg \in Config!Files
      BY <1>2, CfgRequested
    <2>2. answer(setting_cfg) \in {"missing", "unknown", "fit"}
      OBVIOUS
    <2> HIDE DEF answer, files
    <2> QED BY <2>1, <2>2, CfgFileParses
  <1> HIDE DEF answer, files
  <1> QED BY <1>1, <1>2, CfgRefused, CfgNothing, Zenon

(* A swap names the firmware it is for, unless it is asked for the one in ROM. *)
LEMMA CfgSwaps ==
    ASSUME NEW u, NEW firm \in {"remap", "cal", "rom"}, NEW answer, NEW refused
    PROVE  LET p == (IF u.asleep THEN Config!Refuse ELSE <<>>)
                    \o Config!FirmwareSwap(u, firm, answer, refused)
           IN  /\ firm = "rom" => p \in CfgPrograms
               /\ firm # "rom" => \E op \in Renames : Named(op) = firm /\ Turns(p, op)
  <1> DEFINE asleep == IF u.asleep THEN Config!Refuse ELSE <<>>
             basic == Config!BasicModeExit(u) \o (IF firm = u.remap THEN <<>> ELSE Config!Call("execute"))
             standby == IF u.dsp = u.fw THEN Config!Call("standby") ELSE Config!Refuse
             first == CASE u.fw = "orig" -> Config!Refuse [] u.fw = "rom" -> basic [] OTHER -> standby
             stop == Config!Call("stop")
             name == IF firm = "rom" THEN Config!Refuse
                     ELSE Config!Call(IF firm = "cal" THEN "fw_cal" ELSE "fw_remap")
             parse == Config!FirmwareParse(answer)
             files == Config!CoeffFilesParse(firm, refused)
             start == Config!Start(firm)
             op == IF firm = "cal" THEN "fw_cal" ELSE "fw_remap"
  <1>1. {"execute", "standby", "stop"} \subseteq Calls
    BY DEF Calls
  <1>2. basic \in CfgPrograms /\ standby \in CfgPrograms
    BY <1>1, CfgPatches, CfgCalls, CfgRefused, CfgNothing, CfgJoined, Zenon
  <1>3. first \in CfgPrograms
    <2> HIDE DEF basic, standby
    <2> QED BY <1>2, CfgRefused
  <1>4. /\ asleep \in CfgPrograms /\ stop \in CfgPrograms /\ parse \in CfgPrograms
        /\ files \in CfgPrograms /\ start \in CfgPrograms
    BY <1>1, CfgCalls, CfgRefused, CfgNothing, CfgFirmwareParses, CfgFilesParse, CfgStarts, Zenon
  <1>5. Config!FirmwareSwap(u, firm, answer, refused)
          = first \o stop \o name \o parse \o files \o start
    BY Zenon DEF Config!FirmwareSwap
  <1>6. ASSUME firm = "rom"
        PROVE  asleep \o (first \o stop \o name \o parse \o files \o start) \in CfgPrograms
    <2>1. name \in CfgPrograms
      BY <1>6, CfgRefused, Zenon
    <2> HIDE DEF first, stop, name, parse, files, start, asleep
    <2> QED BY <1>3, <1>4, <2>1, CfgJoined, Zenon
  <1>7. ASSUME firm # "rom"
        PROVE  /\ op \in Renames /\ Named(op) = firm
               /\ Turns(asleep \o (first \o stop \o name \o parse \o files \o start), op)
    <2>1. op \in Renames /\ Named(op) = firm
      BY <1>7 DEF Renames, Named
    <2>2. name = Config!Call(op)
      BY <1>7, Zenon
    <2>3. Turns(name, op)
      <3> HIDE DEF op, name
      <3> QED BY <2>1, <2>2, CfgNaming, Zenon
    <2> HIDE DEF first, stop, name, parse, files, start, asleep, op
    <2>4. first \o stop \in CfgPrograms
      BY <1>3, <1>4, CfgJoined, Zenon
    <2>5. Turns(first \o stop \o name, op)
      BY <2>3, <2>4, CfgTurns, Zenon DEF CfgPrograms
    <2>6. Turns(first \o stop \o name \o parse, op)
      BY <1>4, <2>5, CfgTurns, Zenon DEF CfgPrograms
    <2>7. Turns(first \o stop \o name \o parse \o files, op)
      BY <1>4, <2>6, CfgTurns, Zenon DEF CfgPrograms
    <2>8. Turns(first \o stop \o name \o parse \o files \o start, op)
      BY <1>4, <2>7, CfgTurns, Zenon DEF CfgPrograms
    <2>9. Turns(asleep \o (first \o stop \o name \o parse \o files \o start), op)
      BY <1>4, <2>8, CfgTurns, Zenon DEF CfgPrograms
    <2> QED BY <2>1, <2>9
  <1> HIDE DEF first, stop, name, parse, files, start, op
  <1> QED BY <1>5, <1>6, <1>7, Zenon

LEMMA CfgPmPrograms ==
    ASSUME NEW u, NEW late
    PROVE  Config!SuspendProgram(u) \in CfgPrograms /\ Config!ResumeProgram(u, late) \in CfgPrograms
  <1>1. /\ {"gpio_enable", "wksrc"} \subseteq CfgPlaces /\ {"on", "off"} \subseteq CfgMarks
        /\ {"hibernate", "wake"} \subseteq Calls
    BY DEF CfgPlaces, CfgMarks, Calls, Config!Registers, Config!Words
  <1>2. /\ Config!Write("gpio_enable", {"on"}) \in CfgPrograms
        /\ Config!Write("gpio_enable", {"off"}) \in CfgPrograms
        /\ Config!Write("wksrc", Config!Default) \in CfgPrograms
        /\ Config!Call("hibernate") \in CfgPrograms /\ Config!Call("wake") \in CfgPrograms
    BY <1>1, CfgAccessesAre, CfgValuesAre, CfgCalls, Zenon
  <1>3. Config!HibernateErrata \in CfgPrograms
    BY <1>2, CfgJoined, Zenon DEF Config!HibernateErrata
  <1>4. Config!SuspendProgram(u) \in CfgPrograms
    BY <1>2, CfgJoined, CfgNothing, Zenon DEF Config!SuspendProgram
  <1>5. (IF late THEN Config!HibernateErrata ELSE <<>>) \o Config!Call("wake") \in CfgPrograms
    BY <1>2, <1>3, CfgJoined, CfgNothing, Zenon
  <1>6. (IF Config!Has("hiber") /\ u.fw \notin {"cal", "orig"}
         THEN IF u.dsp = "remap" THEN (IF late THEN Config!HibernateErrata ELSE <<>>) \o Config!Call("wake")
              ELSE Config!Refuse
         ELSE <<>>) \in CfgPrograms
    BY <1>5, CfgNothing, CfgRefused, Zenon
  <1>7. (IF Config!Gpio1Mode = "auto" /\ u.fw # "cal"
         THEN Config!Write("gpio_enable", {"off"}) ELSE <<>>) \in CfgPrograms
    BY <1>2, CfgNothing, Zenon
  <1>8. Config!ResumeProgram(u, late) \in CfgPrograms
    BY <1>6, <1>7, CfgJoined, Zenon DEF Config!ResumeProgram
  <1> QED BY <1>4, <1>8

(* What starts and ends a waveform *)
CfgPlays(kind) ==
    (IF Config!Clamping THEN Config!Write("amp", Config!Default) ELSE Config!Boost(kind))
    \o Config!Call("trigger")
CfgStops ==
    IF Config!Clamping THEN Config!Write("amp", {"gnd"})
    ELSE Config!SetBits("vctrl2", {"classh"}) \o Config!SetBits("pwr3", {"classh"})

LEMMA CfgPlayPrograms ==
    ASSUME NEW kind
    PROVE  CfgPlays(kind) \in CfgPrograms /\ CfgStops \in CfgPrograms
  <1>1. /\ {"amp", "vctrl2", "pwr3", "limit"} \subseteq CfgPlaces
        /\ {"gnd", "classh", "clab"} \subseteq CfgMarks /\ "trigger" \in Calls
    BY DEF CfgPlaces, CfgMarks, Calls, Config!Registers
  <1>2. (IF kind = "clab" THEN {"clab"} ELSE Config!Dt) \in CfgValues
    BY <1>1, CfgValuesAre, Zenon
  <1>3. /\ Config!Write("amp", Config!Default) \in CfgPrograms /\ Config!Write("amp", {"gnd"}) \in CfgPrograms
        /\ Config!SetBits("vctrl2", {"classh"}) \in CfgPrograms
        /\ Config!SetBits("pwr3", {"classh"}) \in CfgPrograms
        /\ Config!Clear("vctrl2", {"classh"}) \in CfgPrograms
        /\ Config!Clear("pwr3", {"classh"}) \in CfgPrograms
        /\ Config!Write("limit", Config!Dt) \in CfgPrograms
        /\ Config!Write("limit", IF kind = "clab" THEN {"clab"} ELSE Config!Dt) \in CfgPrograms
        /\ Config!Call("trigger") \in CfgPrograms
    BY <1>1, <1>2, CfgAccessesAre, CfgValuesAre, CfgCalls, Zenon
  <1>4. Config!Boost(kind) \in CfgPrograms
    BY <1>3, CfgJoined, Zenon DEF Config!Boost
  <1>5. CfgPlays(kind) \in CfgPrograms
    BY <1>3, <1>4, CfgJoined, Zenon DEF CfgPlays
  <1>6. CfgStops \in CfgPrograms
    BY <1>3, CfgJoined, Zenon DEF CfgStops
  <1> QED BY <1>5, <1>6

(* Where a program ends, and what that counts for *)
LEMMA CfgEnds ==
    ASSUME NEW p, NEW n \in Config!Ends(p), NEW good, Config!CutBy(p, n, good),
           ConfigFaults \in Nat, cut \in 0 .. ConfigFaults
    PROVE  n \in 0 .. Len(p) /\ cut' \in 0 .. ConfigFaults
  <1>1. n \in 0 .. Len(p)
    BY DEF Config!Ends
  <1>2. n = Len(p) \/ n \in Config!Refused(p) \/ cut < ConfigFaults
    BY DEF Config!Ends
  <1>3. /\ good \/ cut < ConfigFaults
        /\ cut' = IF good /\ (n = Len(p) \/ n \in Config!Refused(p)) THEN cut ELSE cut + 1
    BY DEF Config!CutBy, Config!Whole
  <1>4. cut' = cut \/ (cut < ConfigFaults /\ cut' = cut + 1)
    BY <1>2, <1>3
  <1> QED BY <1>1, <1>4

(* What is refused ends there. *)
LEMMA CfgRefusal ==
    ASSUME NEW n \in Config!Ends(Config!Refuse)
    PROVE  n = 0 /\ Len(Config!Refuse) = 1
  <1>1. Config!Refuse = <<[op |-> "refuse", of |-> "load", to |-> Config!Default]>>
    BY DEF Config!Refuse, Config!Call, Config!Access, Config!Default
  <1>2. 0 \in Config!Refused(Config!Refuse)
    BY <1>1 DEF Config!Refused
  <1>3. n <= 0 /\ n \in 0 .. Len(Config!Refuse)
    BY <1>2 DEF Config!Ends
  <1> QED BY <1>1, <1>3

--------------------------------------------------------------------------------
(* Cs40l2xConfig: what holds of the load and of the firmware *)

(* Each file that is parsed is counted, and one that is refused leaves the count short. *)
CfgLoadInv ==
    /\ load.phase \in {"none", "firmware"} => load.pending = {} /\ load.counted = 0 /\ ~load.refused
    /\ load.phase = "files" =>
         /\ load.pending \subseteq Config!Requested(unit.fw)
         /\ load.counted # Cardinality(Config!CoeffFiles(unit.fw))
         /\ ~load.refused =>
              load.counted + Cardinality(load.pending) = Cardinality(Config!Requested(unit.fw))
         /\ load.refused =>
              load.counted + Cardinality(load.pending) < Cardinality(Config!Requested(unit.fw))
    /\ started => load.phase = "over" /\ load.pending = {} /\ ~load.refused

CfgLoads ==
    [phase : {"none", "firmware", "files", "over"}, pending : SUBSET Config!Files, counted : 0 .. 3,
     refused : BOOLEAN]

CfgUnitInv ==
    /\ unit \in CfgUnits /\ unit.remap \in {"remap", "cal"}
    /\ load.phase # "none" =>
         unit.fw \in IF Config!B1 THEN {"remap", "cal", "rom"} ELSE {"orig"}

CfgFixedInv == setting_cfg \in ConfigSettings /\ device \in Devices /\ tree \in Trees
CfgFlagsInv ==
    /\ started \in BOOLEAN /\ configured \in BOOLEAN
    /\ pm \in {"off", "active", "suspended", "error"}
    /\ playing_cfg \in Config!Quiet \cup Config!Kinds
    /\ loads \in 0 .. MaxLoads
CfgCutInv == cut \in 0 .. ConfigFaults

ConfigInv ==
    /\ CfgFixedInv /\ CfgUnitInv /\ load \in CfgLoads /\ CfgLoadInv /\ CfgFlagsInv /\ CfgCutInv

LEMMA CfgFresh == Config!Fresh \in CfgUnits /\ Config!Fresh.fw = "none" /\ Config!Fresh.remap = "remap"
  <1>1. <<>> \in Seq(CfgValues) /\ Config!Default \in CfgValues
    BY CfgValuesAre
  <1> QED BY <1>1 DEF Config!Fresh, CfgUnits, Firmware

LEMMA CfgNoLoad ==
    /\ Config!NoLoad \in CfgLoads /\ Config!NoLoad.phase = "none"
    /\ Config!NoLoad.pending = {} /\ Config!NoLoad.counted = 0 /\ ~Config!NoLoad.refused
  BY DEF Config!NoLoad, CfgLoads

LEMMA ConfigStart ==
    ASSUME Config!Init, Config!ConfigAssumption
    PROVE  ConfigInv
  <1>1. load = Config!NoLoad /\ unit = Config!Fresh /\ load.phase = "none"
    <2>1. load = Config!NoLoad
      BY Zenon DEF Config!Init
    <2>2. unit = Config!Fresh
      BY Zenon DEF Config!Init
    <2>3. load.phase = "none"
      BY <2>1, CfgNoLoad, Zenon
    <2> QED BY <2>1, <2>2, <2>3
  <1>2. CfgFixedInv /\ CfgFlagsInv /\ CfgCutInv
    <2>1. /\ setting_cfg \in ConfigSettings /\ device \in Devices /\ tree \in Trees
          /\ started = FALSE /\ configured = FALSE /\ pm = "off" /\ playing_cfg = "no"
          /\ loads = 0 /\ cut = 0
      BY Zenon DEF Config!Init
    <2>2. ConfigFaults \in Nat /\ MaxLoads \in Nat
      BY Zenon DEF Config!ConfigAssumption
    <2>3. 0 \in 0 .. MaxLoads /\ 0 \in 0 .. ConfigFaults
      BY <2>2
    <2>4. playing_cfg \in Config!Quiet
      BY <2>1 DEF Config!Quiet
    <2>5. CfgFixedInv /\ CfgCutInv
      BY <2>1, <2>3, Zenon DEF CfgFixedInv, CfgCutInv
    <2> QED BY <2>1, <2>3, <2>4, <2>5 DEF CfgFlagsInv
  <1>3. CfgUnitInv /\ load \in CfgLoads
    BY <1>1, CfgFresh, CfgNoLoad DEF CfgUnitInv
  <1>4. CfgLoadInv
    BY <1>1, CfgNoLoad DEF CfgLoadInv, Config!Init
  <1> QED BY <1>2, <1>3, <1>4 DEF ConfigInv

(* A program that names no firmware, wherever it ends *)
LEMMA CfgPlainStep ==
    ASSUME CfgUnitInv, NEW p \in CfgPrograms, NEW n \in 0 .. Len(p),
           unit' = Config!States(p, unit)[n], UNCHANGED <<load, device>>
    PROVE  CfgUnitInv' /\ unit'.fw = unit.fw /\ unit'.remap = unit.remap
  <1>1. unit' \in CfgUnits /\ unit'.fw = unit.fw /\ unit'.remap = unit.remap
    BY CfgPlainRuns DEF CfgUnitInv, CfgPrograms
  <1> QED BY <1>1 DEF CfgUnitInv, Config!B1

LEMMA CfgLoadKept ==
    ASSUME CfgLoadInv, UNCHANGED <<load, tree, started>>, unit'.fw = unit.fw
    PROVE  CfgLoadInv'
  BY DEF CfgLoadInv, Config!NoLoad, Config!Requested, Config!CoeffFiles, Config!DynF0

LEMMA CfgFixedKept ==
    ASSUME CfgFixedInv, UNCHANGED Config!fixed
    PROVE  CfgFixedInv' /\ UNCHANGED <<device, tree>>
  BY DEF CfgFixedInv, Config!fixed

LEMMA CfgProbes ==
    ASSUME ConfigInv, Config!ConfigAssumption, Config!Probe
    PROVE  ConfigInv'
  <1> DEFINE p == Config!PartNumResolve \o Config!InitRegisters
  <1>1. load.phase = "none" /\ UNCHANGED <<Config!fixed, started, configured, pm, playing_cfg, loads>>
    BY DEF Config!Probe
  <1>2. PICK n \in Config!Ends(p) :
          /\ Config!CutBy(p, n, TRUE)
          /\ unit' = IF Config!Whole(p, n) THEN Config!States(p, Config!Fresh)[n] ELSE Config!Fresh
          /\ load' = IF Config!Whole(p, n) THEN [load EXCEPT !.phase = "firmware"] ELSE load
    BY Zenon DEF Config!Probe
  <1>3. ConfigFaults \in Nat /\ device \in {"l20", "l25", "l25a", "l25b"}
    BY DEF Config!ConfigAssumption, ConfigInv, CfgFixedInv
  <1>4. PICK op \in Renames : /\ Turns(Config!PartNumResolve, op)
                              /\ Named(op) = IF Config!B1 THEN "remap" ELSE "orig"
    BY <1>3, CfgResolves
  <1>5. Turns(p, op)
    BY <1>4, CfgInits, CfgTurns, Zenon DEF CfgPrograms
  <1> HIDE DEF p
  <1>6. n \in 0 .. Len(p) /\ CfgCutInv'
    BY <1>2, <1>3, CfgEnds, Zenon DEF ConfigInv, CfgCutInv
  <1>7. CfgFixedInv' /\ UNCHANGED <<device, tree>>
    BY <1>1, CfgFixedKept DEF ConfigInv
  <1>8. CfgFlagsInv'
    BY <1>1 DEF ConfigInv, CfgFlagsInv
  <1>9. /\ load \in CfgLoads /\ ~started
        /\ load.pending = {} /\ load.counted = 0 /\ ~load.refused
    BY <1>1 DEF ConfigInv, CfgLoadInv
  <1>10. CASE n = Len(p)
    <2>1. unit' = Config!States(p, Config!Fresh)[n] /\ load' = [load EXCEPT !.phase = "firmware"]
      BY <1>2, <1>10 DEF Config!Whole
    <2>2. unit' \in CfgUnits /\ unit'.fw = Named(op) /\ unit'.remap = "remap"
      BY <1>5, <1>6, <1>10, <2>1, CfgFresh, CfgTurnRuns
    <2>3. /\ load' \in CfgLoads /\ load'.phase = "firmware"
          /\ load'.pending = {} /\ load'.counted = 0 /\ ~load'.refused
      BY <1>9, <2>1 DEF CfgLoads
    <2>4. CfgUnitInv'
      BY <1>4, <1>7, <2>2 DEF CfgUnitInv, Config!B1
    <2>5. CfgLoadInv'
      BY <1>1, <1>9, <2>3 DEF CfgLoadInv
    <2> QED BY <1>6, <1>7, <1>8, <2>3, <2>4, <2>5 DEF ConfigInv
  <1>11. CASE n # Len(p)
    <2>1. unit' = Config!Fresh /\ load' = load
      BY <1>2, <1>11 DEF Config!Whole
    <2>2. CfgUnitInv' /\ load' \in CfgLoads
      BY <1>1, <1>9, <2>1, CfgFresh DEF CfgUnitInv
    <2>3. CfgLoadInv'
      BY <1>1, <1>9, <2>1 DEF CfgLoadInv
    <2> QED BY <1>6, <1>7, <1>8, <2>2, <2>3 DEF ConfigInv
  <1> QED BY <1>10, <1>11

LEMMA CfgFirmwareLoads ==
    ASSUME ConfigInv, Config!ConfigAssumption, Config!FirmwareLoad
    PROVE  ConfigInv'
  <1>1. load.phase = "firmware" /\ UNCHANGED <<Config!fixed, started, configured, pm, playing_cfg, loads>>
    BY DEF Config!FirmwareLoad
  <1>2. PICK answer \in {"missing", "unknown", "unfit", "fit"} :
          LET p == Config!FirmwareParse(answer) IN
          \E n \in Config!Ends(p) :
              /\ Config!CutBy(p, n, answer = "fit")
              /\ unit' = Config!States(p, unit)[n]
              /\ load' = IF Config!Whole(p, n)
                         THEN [load EXCEPT !.phase = "files", !.pending = Config!Requested(unit.fw)]
                         ELSE [load EXCEPT !.phase = "over"]
    BY Zenon DEF Config!FirmwareLoad
  <1> DEFINE p == Config!FirmwareParse(answer)
             good == answer = "fit"
  <1>3. PICK n \in Config!Ends(p) :
              /\ Config!CutBy(p, n, good)
              /\ unit' = Config!States(p, unit)[n]
              /\ load' = IF Config!Whole(p, n)
                         THEN [load EXCEPT !.phase = "files", !.pending = Config!Requested(unit.fw)]
                         ELSE [load EXCEPT !.phase = "over"]
    BY <1>2, Zenon
  <1>4. p \in CfgPrograms
    BY CfgFirmwareParses, Zenon
  <1> HIDE DEF p, good
  <1>5. ConfigFaults \in Nat
    BY DEF Config!ConfigAssumption
  <1>6. n \in 0 .. Len(p) /\ CfgCutInv'
    BY <1>3, <1>5, CfgEnds, Zenon DEF ConfigInv, CfgCutInv
  <1>7. CfgFixedInv' /\ UNCHANGED <<device, tree>>
    BY <1>1, CfgFixedKept DEF ConfigInv
  <1>8. CfgFlagsInv'
    BY <1>1 DEF ConfigInv, CfgFlagsInv
  <1>9. unit' \in CfgUnits /\ unit'.fw = unit.fw /\ unit'.remap = unit.remap
    BY <1>3, <1>4, <1>6, CfgPlainRuns DEF ConfigInv, CfgUnitInv, CfgPrograms
  <1>10. ~started
    BY <1>1 DEF ConfigInv, CfgLoadInv
  <1>11. load.pending = {} /\ load.counted = 0 /\ ~load.refused /\ load \in CfgLoads
    BY <1>1 DEF ConfigInv, CfgLoadInv
  <1>12. CfgUnitInv'
    BY <1>1, <1>7, <1>9 DEF ConfigInv, CfgUnitInv, Config!B1
  <1>13. CASE n = Len(p)
    <2>1. load' = [load EXCEPT !.phase = "files", !.pending = Config!Requested(unit.fw)]
      BY <1>3, <1>13 DEF Config!Whole
    <2>2. /\ Config!Requested(unit.fw) \subseteq Config!Files
          /\ Cardinality(Config!CoeffFiles(unit.fw)) \in 1 .. 3
          /\ Cardinality(Config!Requested(unit.fw)) \in 0 .. Cardinality(Config!CoeffFiles(unit.fw))
      BY CfgRequested, Zenon
    <2>3. /\ load' \in CfgLoads /\ load'.phase = "files" /\ load'.pending = Config!Requested(unit.fw)
          /\ load'.counted = 0 /\ ~load'.refused
      BY <1>11, <2>1, <2>2 DEF CfgLoads
    <2>4. Config!Requested(unit.fw)' = Config!Requested(unit.fw) /\ Config!CoeffFiles(unit.fw)' = Config!CoeffFiles(unit.fw)
      BY <1>7, <1>9 DEF Config!Requested, Config!CoeffFiles, Config!DynF0
    <2>5. CfgLoadInv'
      BY <1>1, <1>10, <2>2, <2>3, <2>4 DEF CfgLoadInv
    <2> QED BY <1>6, <1>7, <1>8, <1>12, <2>3, <2>5 DEF ConfigInv
  <1>14. CASE n # Len(p)
    <2>1. load' = [load EXCEPT !.phase = "over"]
      BY <1>3, <1>14 DEF Config!Whole
    <2>2. load' \in CfgLoads /\ load'.phase = "over"
      BY <1>11, <2>1 DEF CfgLoads
    <2>3. CfgLoadInv'
      BY <1>1, <1>10, <2>2 DEF CfgLoadInv
    <2> QED BY <1>6, <1>7, <1>8, <1>12, <2>2, <2>3 DEF ConfigInv
  <1> QED BY <1>13, <1>14

(* A swap, and the note of what is to be restored *)
CfgSwapping(p, u, firm, answer, refused, after) ==
    p = (IF u.asleep THEN Config!Refuse ELSE <<>>)
        \o Config!FirmwareSwap(u, firm, answer, refused) \o after

LEMMA CfgSwapRuns ==
    ASSUME NEW u \in CfgUnits, u.fw \in {"remap", "cal", "rom"}, u.remap \in {"remap", "cal"},
           NEW firm \in {"remap", "cal", "rom"}, NEW answer, NEW refused,
           NEW after, after = <<>> \/ (after = Config!Call("keep") /\ firm # "rom"),
           NEW p, CfgSwapping(p, u, firm, answer, refused, after),
           NEW n \in 0 .. Len(p)
    PROVE  LET r == Config!States(p, u)[n]
           IN  r \in CfgUnits /\ r.fw \in {"remap", "cal", "rom"} /\ r.remap \in {"remap", "cal"}
  <1> DEFINE q == (IF u.asleep THEN Config!Refuse ELSE <<>>)
                  \o Config!FirmwareSwap(u, firm, answer, refused)
  <1>1. /\ firm = "rom" => q \in CfgPrograms
        /\ firm # "rom" => \E op \in Renames : Named(op) = firm /\ Turns(q, op)
    BY CfgSwaps, Zenon
  <1>2. p = q \o after
    BY DEF CfgSwapping
  <1> HIDE DEF q
  <1>3. CASE firm = "rom"
    <2>1. p \in Seq(CfgPlain)
      BY <1>1, <1>2, <1>3, CfgNothing, CfgJoined, Zenon DEF CfgPrograms
    <2>2. LET r == Config!States(p, u)[n] IN r \in CfgUnits /\ r.fw = u.fw /\ r.remap = u.remap
      BY <2>1, CfgPlainRuns, Zenon
    <2> QED BY <2>2, Zenon
  <1>4. CASE firm # "rom" /\ after = <<>>
    <2>1. PICK op \in Renames : Named(op) = firm /\ Turns(q, op)
      BY <1>1, <1>4
    <2>2. Turns(p, op)
      BY <1>2, <1>4, <2>1, CfgNothing, CfgTurns, Zenon DEF CfgPrograms
    <2>3. LET r == Config!States(p, u)[n]
          IN  r \in CfgUnits /\ r.fw \in {u.fw, Named(op)} /\ r.remap = u.remap
      BY <2>2, CfgTurnRuns, Zenon
    <2>4. \A f \in {u.fw, Named(op)} : f \in {"remap", "cal", "rom"}
      BY <2>1, Zenon
    <2> QED BY <2>3, <2>4, Zenon
  <1>5. CASE firm # "rom" /\ after = Config!Call("keep")
    <2> DEFINE a == [op |-> "keep", of |-> "load", to |-> Config!Default]
    <2>1. PICK op \in Renames : Named(op) = firm /\ Turns(q, op)
      BY <1>1, <1>5
    <2>2. p = q \o <<a>>
      BY <1>2, <1>5 DEF Config!Call, Config!Access
    <2>3. a \in CfgAccesses /\ a.op = "keep" /\ "keep" \notin Renames
      BY CfgValuesAre DEF CfgAccesses, CfgPlaces, Renames
    <2>4. q \in Seq(CfgAccesses) /\ Len(q) \in Nat
      BY <2>1 DEF Turns
    <2> HIDE DEF a
    <2>5. /\ Len(p) = Len(q) + 1
          /\ n <= Len(q) => Config!States(p, u)[n] = Config!States(q, u)[n]
          /\ n = Len(q) + 1 => Config!States(p, u)[n] = Config!Apply(Config!States(q, u)[Len(q)], a)
      <3>1. n \in 0 .. Len(q \o <<a>>)
        BY <2>2
      <3>2. /\ Len(q \o <<a>>) = Len(q) + 1
            /\ n <= Len(q) => Config!States(q \o <<a>>, u)[n] = Config!States(q, u)[n]
            /\ n = Len(q) + 1 =>
                 Config!States(q \o <<a>>, u)[n] = Config!Apply(Config!States(q, u)[Len(q)], a)
        BY <2>3, <2>4, <3>1, CfgKept, Zenon
      <3> QED BY <2>2, <3>2, Zenon
    <2>6. CASE n <= Len(q)
      <3>1. n \in 0 .. Len(q)
        BY <2>4, <2>6
      <3>2. LET r == Config!States(q, u)[n]
            IN  r \in CfgUnits /\ r.fw \in {u.fw, Named(op)} /\ r.remap = u.remap
        BY <2>1, <3>1, CfgTurnRuns, Zenon
      <3>3. \A f \in {u.fw, Named(op)} : f \in {"remap", "cal", "rom"}
        BY <2>1, Zenon
      <3> QED BY <2>5, <2>6, <3>2, <3>3, Zenon
    <2>7. CASE n = Len(q) + 1
      <3> DEFINE r == Config!States(q, u)[Len(q)]
      <3>1. PICK m \in 0 .. Len(q) : m = Len(q)
        BY <2>4
      <3>2. r \in CfgUnits /\ r.fw = Named(op) /\ r.remap = u.remap
        <4>1. LET w == Config!States(q, u)[m]
              IN  /\ w \in CfgUnits /\ w.fw \in {u.fw, Named(op)} /\ w.remap = u.remap
                  /\ m = Len(q) => w.fw = Named(op)
          <5>1. Turns(q, op)
            BY <2>1
          <5>2. \A k \in 0 .. Len(q) :
                  LET w == Config!States(q, u)[k]
                  IN  /\ w \in CfgUnits /\ w.fw \in {u.fw, Named(op)} /\ w.remap = u.remap
                      /\ k = Len(q) => w.fw = Named(op)
            BY <5>1, CfgTurnRuns
          <5> QED BY <5>2
        <4> QED BY <3>1, <4>1, Zenon
      <3> HIDE DEF r
      <3>3. /\ Config!Apply(r, a) \in CfgUnits /\ Config!Apply(r, a).fw = r.fw
            /\ Config!Apply(r, a).remap = r.fw
        BY <2>3, <3>2, CfgApply
      <3>4. Config!States(p, u)[n] = Config!Apply(r, a)
        BY <2>5, <2>7 DEF r
      <3>5. firm \in {"remap", "cal"}
        BY <1>5
      <3> QED BY <2>1, <3>2, <3>3, <3>4, <3>5
    <2> QED BY <2>4, <2>5, <2>6, <2>7
  <1> QED BY <1>3, <1>4, <1>5

LEMMA CfgSwapped ==
    ASSUME ConfigInv, Config!ConfigAssumption,
           NEW u \in CfgUnits, u.fw \in {"remap", "cal", "rom"}, u.remap \in {"remap", "cal"},
           NEW firm \in {"remap", "cal", "rom"},
           NEW after, after = <<>> \/ (after = Config!Call("keep") /\ firm # "rom"),
           started, Config!B1, playing_cfg' \in Config!Quiet \cup Config!Kinds,
           Config!Swapped(u, firm, after)
    PROVE  ConfigInv'
  <1> DEFINE p(answer, refused) ==
               (IF u.asleep THEN Config!Refuse ELSE <<>>)
               \o Config!FirmwareSwap(u, firm, answer, refused) \o after
  <1>1. PICK answer \in {"missing", "unknown", "unfit", "fit"}, refused \in {"none"} \cup Config!Files :
          \E n \in Config!Ends(p(answer, refused)) :
            /\ Config!CutBy(p(answer, refused), n, answer = "fit" /\ refused = "none")
            /\ configured' = Config!Whole(p(answer, refused), n)
            /\ unit' = Config!States(p(answer, refused), u)[n]
    BY Zenon DEF Config!Swapped
  <1> DEFINE q == p(answer, refused)
             good == answer = "fit" /\ refused = "none"
  <1>2. PICK n \in Config!Ends(q) :
            /\ Config!CutBy(q, n, good) /\ configured' = Config!Whole(q, n)
            /\ unit' = Config!States(q, u)[n]
    BY <1>1, Zenon
  <1>3. CfgSwapping(q, u, firm, answer, refused, after)
    BY DEF CfgSwapping
  <1>4. /\ loads < MaxLoads /\ loads' = (IF Config!Clamping THEN loads + 1 ELSE loads)
        /\ UNCHANGED <<Config!fixed, load, started, pm>>
    BY Zenon DEF Config!Swapped
  <1> HIDE DEF p, q, good
  <1>5. ConfigFaults \in Nat /\ MaxLoads \in Nat
    BY DEF Config!ConfigAssumption
  <1>6. n \in 0 .. Len(q) /\ CfgCutInv'
    BY <1>2, <1>5, CfgEnds, Zenon DEF ConfigInv, CfgCutInv
  <1>7. unit' \in CfgUnits /\ unit'.fw \in {"remap", "cal", "rom"} /\ unit'.remap \in {"remap", "cal"}
    <2>1. LET r == Config!States(q, u)[n]
          IN  r \in CfgUnits /\ r.fw \in {"remap", "cal", "rom"} /\ r.remap \in {"remap", "cal"}
      BY <1>3, <1>6, CfgSwapRuns, Zenon
    <2> QED BY <1>2, <2>1, Zenon
  <1>8. CfgFixedInv' /\ UNCHANGED <<device, tree>>
    BY <1>4, CfgFixedKept DEF ConfigInv
  <1>9. CfgUnitInv'
    BY <1>7, <1>8 DEF CfgUnitInv, Config!B1
  <1>10. load.phase = "over" /\ load \in CfgLoads
    BY DEF ConfigInv, CfgLoadInv
  <1>11. CfgLoadInv' /\ load' \in CfgLoads
    <2>1. load' = load /\ started' = started
      BY <1>4
    <2> QED BY <1>10, <2>1 DEF ConfigInv, CfgLoadInv
  <1>12. CfgFlagsInv'
    <2>1. configured' \in BOOLEAN
      BY <1>2 DEF Config!Whole
    <2>2. loads' \in 0 .. MaxLoads
      BY <1>4, <1>5 DEF ConfigInv, CfgFlagsInv
    <2> QED BY <1>4, <2>1, <2>2 DEF ConfigInv, CfgFlagsInv, Config!Quiet, Config!Kinds
  <1> QED BY <1>6, <1>8, <1>9, <1>11, <1>12 DEF ConfigInv

LEMMA CfgInUse ==
    ASSUME ConfigInv, Config!InUse
    PROVE  /\ started /\ Config!B1 /\ unit \in CfgUnits
           /\ unit.fw \in {"remap", "cal", "rom"} /\ unit.remap \in {"remap", "cal"}
  <1>1. started /\ Config!B1 /\ load.phase = "over"
    BY DEF Config!InUse, ConfigInv, CfgLoadInv
  <1> QED BY <1>1 DEF ConfigInv, CfgUnitInv

LEMMA CfgTouched ==
    ASSUME ConfigInv, Config!InUse, NEW u \in Config!Touched(unit)
    PROVE  /\ u \in CfgUnits /\ u.fw \in {"remap", "cal", "rom"} /\ u.remap \in {"remap", "cal"}
  <1>1. u = unit \/ u = Config!Awake(unit)
    BY DEF Config!Touched
  <1> QED BY <1>1, CfgInUse, CfgAwake

LEMMA CfgStores ==
    ASSUME ConfigInv, Config!ConfigAssumption, Config!FwSwapStore \/ Config!StoreIndex
    PROVE  ConfigInv'
  <1>1. CASE Config!FwSwapStore
    <2>1. /\ Config!InUse /\ playing_cfg \in Config!Quiet /\ playing_cfg' = playing_cfg
          /\ \E firm \in {"remap", "cal"} \ {unit.fw}, u \in Config!Touched(unit) :
               Config!Swapped(u, firm, Config!Call("keep"))
      BY <1>1, Zenon DEF Config!FwSwapStore
    <2>2. PICK firm \in {"remap", "cal"} \ {unit.fw}, u \in Config!Touched(unit) :
            Config!Swapped(u, firm, Config!Call("keep"))
      BY <2>1, Zenon
    <2>3. firm \in {"remap", "cal", "rom"} /\ firm # "rom" /\ playing_cfg' \in Config!Quiet \cup Config!Kinds
      BY <2>1
    <2>4. started /\ Config!B1
      BY <2>1, CfgInUse, Zenon
    <2>5. u \in CfgUnits /\ u.fw \in {"remap", "cal", "rom"} /\ u.remap \in {"remap", "cal"}
      BY <2>1, CfgTouched, Zenon
    <2> QED BY <2>2, <2>3, <2>4, <2>5, CfgSwapped, Zenon
  <1>2. CASE Config!StoreIndex
    <2>1. /\ Config!InUse /\ playing_cfg \in Config!Quiet /\ playing_cfg' = playing_cfg
          /\ \E firm \in (IF unit.fw = unit.remap THEN {"cal"} ELSE {})
                         \cup (IF unit.fw = "cal" THEN {unit.remap} ELSE {}), u \in Config!Touched(unit) :
               Config!Swapped(u, firm, <<>>)
      BY <1>2, Zenon DEF Config!StoreIndex
    <2>2. PICK firm \in (IF unit.fw = unit.remap THEN {"cal"} ELSE {})
                         \cup (IF unit.fw = "cal" THEN {unit.remap} ELSE {}), u \in Config!Touched(unit) :
               Config!Swapped(u, firm, <<>>)
      BY <2>1, Zenon
    <2>3. unit.remap \in {"remap", "cal"} /\ started /\ Config!B1
      BY <2>1, CfgInUse, Zenon
    <2>4. firm \in {"remap", "cal", "rom"} /\ playing_cfg' \in Config!Quiet \cup Config!Kinds
      BY <2>1, <2>3
    <2>5. u \in CfgUnits /\ u.fw \in {"remap", "cal", "rom"} /\ u.remap \in {"remap", "cal"}
      BY <2>1, CfgTouched, Zenon
    <2> QED BY <2>2, <2>3, <2>4, <2>5, CfgSwapped, Zenon
  <1> QED BY <1>1, <1>2

LEMMA CfgRecovers ==
    ASSUME ConfigInv, Config!ConfigAssumption, Config!Recover
    PROVE  ConfigInv'
  <1> DEFINE noted == Config!Final(IF Config!AspAvailable THEN Config!Replace("pll", Config!Dt) ELSE <<>>, unit)
             u == [noted EXCEPT !.reg = Config!Default, !.table = <<>>, !.dsp = "rom", !.fw = "rom",
                                !.asleep = FALSE]
             p == IF Config!AspAvailable THEN Config!Replace("pll", Config!Dt) ELSE <<>>
             firm == unit.fw
  <1>1. Config!InUse /\ playing_cfg' = "no" /\ Config!Swapped(u, firm, <<>>)
    BY Zenon DEF Config!Recover
  <1>2. started /\ Config!B1 /\ unit \in CfgUnits /\ firm \in {"remap", "cal", "rom"} /\ unit.remap \in {"remap", "cal"}
    BY <1>1, CfgInUse, Zenon
  <1>3. p \in Seq(CfgPlain)
    <2>1. "pll" \in CfgPlaces
      BY DEF CfgPlaces, Config!Registers
    <2> QED BY <2>1, CfgAccessesAre, CfgValuesAre, CfgNothing, Zenon DEF CfgPrograms
  <1>4. noted = Config!States(p, unit)[Len(p)]
    BY DEF Config!Final
  <1> HIDE DEF p
  <1>5. Len(p) \in 0 .. Len(p)
    BY <1>3
  <1> HIDE DEF noted
  <1>6. noted \in CfgUnits /\ noted.remap = unit.remap
    BY <1>2, <1>3, <1>4, <1>5, CfgPlainRuns
  <1>7. u \in CfgUnits /\ u.fw \in {"remap", "cal", "rom"} /\ u.remap \in {"remap", "cal"}
    <2>1. Config!Default \in CfgValues /\ <<>> \in Seq(CfgValues)
      BY CfgValuesAre
    <2> QED BY <1>2, <1>6, <2>1 DEF CfgUnits, Firmware
  <1>8. playing_cfg' \in Config!Quiet \cup Config!Kinds
    BY <1>1 DEF Config!Quiet
  <1> HIDE DEF u, firm
  <1> QED BY <1>1, <1>2, <1>7, <1>8, CfgSwapped, Zenon

LEMMA CfgCount == \A s : Config!Cardinality(s) = Cardinality(s)
  BY Zenon DEF Config!Cardinality, Cardinality

(* A file that is answered: each way a file's program may end, and what is counted then *)
LEMMA CfgFileAnswers ==
    ASSUME ConfigInv, Config!ConfigAssumption, NEW file \in Config!Files, Config!CoeffFileLoad(file)
    PROVE  ConfigInv'
  <1> DEFINE parse(answer) == Config!CoeffFileParse(file, answer)
             count(answer) == Config!Counted(answer # "unknown")
             size == Config!Cardinality(Config!CoeffFiles(unit.fw))
             finish(answer) == count(answer) = size
             program(answer) ==
               parse(answer)
               \o (IF finish(answer) THEN Config!Start(unit.fw) \o Config!Call("create_led") ELSE <<>>)
  <1>1. load.phase = "files" /\ file \in load.pending /\ UNCHANGED <<Config!fixed, playing_cfg, loads>>
    BY Zenon DEF Config!CoeffFileLoad
  <1>2. PICK answer \in IF file \in Config!Missing THEN {"missing"} ELSE {"unknown", "fit"} :
          \E n \in Config!Ends(program(answer)) :
            /\ Config!CutBy(program(answer), n, answer # "unknown")
            /\ unit' = Config!States(program(answer), unit)[n]
            /\ load' = [load EXCEPT !.pending = @ \ {file},
                          !.counted = IF n < Len(parse(answer)) THEN Config!Counted(FALSE) ELSE count(answer),
                          !.refused = @ \/ n < Len(parse(answer)),
                          !.phase = IF finish(answer) /\ n >= Len(parse(answer)) THEN "over" ELSE @]
            /\ configured' = (finish(answer) /\ Config!Whole(program(answer), n))
            /\ started' = configured'
            /\ pm' = IF configured' THEN "active" ELSE pm
    BY Zenon DEF Config!CoeffFileLoad
  <1> DEFINE a == parse(answer)
             c == count(answer)
             last == finish(answer)
             p == program(answer)
             good == answer # "unknown"
  <1>3. PICK n \in Config!Ends(p) :
            /\ Config!CutBy(p, n, good)
            /\ unit' = Config!States(p, unit)[n]
            /\ load' = [load EXCEPT !.pending = @ \ {file},
                          !.counted = IF n < Len(a) THEN Config!Counted(FALSE) ELSE c,
                          !.refused = @ \/ n < Len(a),
                          !.phase = IF last /\ n >= Len(a) THEN "over" ELSE @]
            /\ configured' = (last /\ Config!Whole(p, n))
            /\ started' = configured'
            /\ pm' = IF configured' THEN "active" ELSE pm
    BY <1>2, Zenon
  <1>4. /\ load \in CfgLoads /\ load.pending \subseteq Config!Requested(unit.fw) /\ load.counted # size
        /\ ~load.refused =>
             load.counted + Cardinality(load.pending) = Cardinality(Config!Requested(unit.fw))
        /\ load.refused =>
             load.counted + Cardinality(load.pending) < Cardinality(Config!Requested(unit.fw))
        /\ ~started
    BY <1>1, CfgCount DEF ConfigInv, CfgLoadInv
  <1>5. /\ size \in 1 .. 3 /\ Cardinality(Config!Requested(unit.fw)) \in 0 .. size
        /\ IsFiniteSet(Config!Requested(unit.fw))
    BY CfgRequested, CfgCount, Zenon
  <1>6. answer \in {"missing", "unknown", "fit"}
    BY <1>2
  <1>7. a \in CfgPrograms
    BY <1>6, CfgFileParses, Zenon
  <1>8. p \in CfgPrograms
    <2>1. Config!Call("create_led") \in CfgPrograms
      BY CfgCalls DEF Calls
    <2>2. Config!Start(unit.fw) \in CfgPrograms
      BY CfgStarts, Zenon
    <2> HIDE DEF parse, finish
    <2> QED BY <1>7, <2>1, <2>2, CfgJoined, CfgNothing, Zenon
  <1>9. Len(a) \in Nat /\ Len(p) \in Nat /\ Len(p) >= Len(a)
    <2> DEFINE rest == IF finish(answer) THEN Config!Start(unit.fw) \o Config!Call("create_led") ELSE <<>>
    <2>1. rest \in CfgPrograms
      <3>1. Config!Call("create_led") \in CfgPrograms
        BY CfgCalls DEF Calls
      <3>2. Config!Start(unit.fw) \in CfgPrograms
        BY CfgStarts, Zenon
      <3> HIDE DEF finish
      <3> QED BY <3>1, <3>2, CfgJoined, CfgNothing, Zenon
    <2>2. p = a \o rest
      OBVIOUS
    <2> HIDE DEF a, p, rest
    <2> QED BY <1>7, <2>1, <2>2 DEF CfgPrograms
  <1>10. c = IF good THEN load.counted + 1 ELSE load.counted
    BY Zenon DEF Config!Counted
  <1>11. Config!Counted(FALSE) = load.counted
    BY DEF Config!Counted
  <1>12. last <=> c = size
    OBVIOUS
  <1>13. ~good => ~last /\ n < Len(a)
    <2> SUFFICES ASSUME ~good PROVE ~last /\ n < Len(a)
      OBVIOUS
    <2>1. ~last
      BY <1>4, <1>10, <1>12
    <2>2. a = Config!Refuse
      BY DEF Config!CoeffFileParse
    <2>3. p = a \o <<>>
      BY <2>1
    <2>4. p = Config!Refuse
      <3> HIDE DEF a, p
      <3>1. Config!Refuse \o <<>> = Config!Refuse
        BY CfgRefused DEF CfgPrograms
      <3> QED BY <2>2, <2>3, <3>1, Zenon
    <2>5. n = 0 /\ Len(Config!Refuse) = 1
      <3> HIDE DEF a, p
      <3> QED BY <2>4, CfgRefusal, Zenon
    <2> HIDE DEF a
    <2> QED BY <2>1, <2>2, <2>5
  <1> HIDE DEF parse, count, finish, program, a, c, last, p, good, size
  <1>14. ConfigFaults \in Nat
    BY DEF Config!ConfigAssumption
  <1>15. n \in 0 .. Len(p) /\ CfgCutInv'
    BY <1>3, <1>14, CfgEnds, Zenon DEF ConfigInv, CfgCutInv
  <1>16. CfgFixedInv' /\ UNCHANGED <<device, tree>>
    BY <1>1, CfgFixedKept DEF ConfigInv
  <1>17. unit' \in CfgUnits /\ unit'.fw = unit.fw /\ unit'.remap = unit.remap
    <2>1. LET r == Config!States(p, unit)[n] IN r \in CfgUnits /\ r.fw = unit.fw /\ r.remap = unit.remap
      BY <1>8, <1>15, CfgPlainRuns, Zenon DEF ConfigInv, CfgUnitInv, CfgPrograms
    <2> QED BY <1>3, <2>1, Zenon
  <1>18. load.pending \in SUBSET Config!Files /\ load.counted \in 0 .. 3 /\ load.refused \in BOOLEAN
    BY <1>4 DEF CfgLoads
  <1>19. /\ load'.pending = load.pending \ {file}
         /\ load'.counted = (IF n < Len(a) THEN load.counted ELSE c)
         /\ load'.refused = (load.refused \/ n < Len(a))
         /\ load'.phase = (IF last /\ n >= Len(a) THEN "over" ELSE "files")
         /\ load' = [phase |-> load'.phase, pending |-> load'.pending, counted |-> load'.counted,
                     refused |-> load'.refused]
    BY <1>1, <1>3, <1>4, <1>11 DEF CfgLoads
  <1>20. /\ IsFiniteSet(load.pending) /\ Cardinality(load.pending) \in Nat
         /\ Cardinality(load.pending \ {file}) = Cardinality(load.pending) - 1
         /\ Cardinality(load.pending \ {file}) \in Nat /\ IsFiniteSet(load.pending \ {file})
    <2>1. IsFiniteSet(load.pending)
      BY <1>4, <1>5, FS_Subset
    <2>2. /\ IsFiniteSet(load.pending \ {file})
          /\ Cardinality(load.pending \ {file}) = Cardinality(load.pending) - 1
      BY <1>1, <2>1, FS_RemoveElement
    <2> QED BY <2>1, <2>2, FS_CardinalityType
  <1>21. load'.counted \in 0 .. 3
    <2>1. c \in 0 .. 3
      <3>1. load.counted + Cardinality(load.pending) <= 3
        BY <1>4, <1>5, <1>18, <1>20
      <3>2. Cardinality(load.pending) >= 1
        BY <1>20
      <3> QED BY <1>10, <1>18, <1>20, <3>1, <3>2
    <2> QED BY <1>18, <1>19, <2>1
  <1>22. load' \in CfgLoads
    <2>1. load'.phase \in {"files", "over"} /\ load'.pending \in SUBSET Config!Files /\ load'.refused \in BOOLEAN
      BY <1>15, <1>9, <1>18, <1>19
    <2> QED BY <1>19, <1>21, <2>1 DEF CfgLoads
  <1>23. /\ Config!Requested(unit.fw)' = Config!Requested(unit.fw)
         /\ Cardinality(Config!CoeffFiles(unit.fw))' = size
    BY <1>16, <1>17, CfgCount DEF size, Config!Requested, Config!CoeffFiles, Config!DynF0
  <1>24. CfgUnitInv'
    BY <1>1, <1>16, <1>17, <1>19 DEF ConfigInv, CfgUnitInv, Config!B1
  <1>25. ASSUME load'.phase = "files"
         PROVE  /\ load'.counted # size
                /\ ~load'.refused =>
                     load'.counted + Cardinality(load'.pending) = Cardinality(Config!Requested(unit.fw))
                /\ load'.refused =>
                     load'.counted + Cardinality(load'.pending) < Cardinality(Config!Requested(unit.fw))
    <2>1. CASE n < Len(a)
      <3>1. /\ load'.counted = load.counted /\ load'.refused
            /\ Cardinality(load'.pending) = Cardinality(load.pending) - 1
        BY <1>19, <1>20, <2>1
      <3>2. load.counted + Cardinality(load.pending) <= Cardinality(Config!Requested(unit.fw))
        BY <1>4, <1>5, <1>18, <1>20
      <3> QED BY <1>4, <1>5, <1>18, <1>20, <3>1, <3>2
    <2>2. CASE ~(n < Len(a))
      <3>1. good /\ ~last
        BY <1>9, <1>13, <1>15, <1>19, <1>25, <2>2
      <3>2. load'.counted = load.counted + 1 /\ load'.refused = load.refused
        BY <1>10, <1>18, <1>19, <2>2, <3>1
      <3>3. load'.counted # size
        BY <1>10, <1>12, <3>1, <3>2
      <3> QED BY <1>4, <1>5, <1>18, <1>19, <1>20, <3>2, <3>3
    <2> QED BY <2>1, <2>2
  <1>26. started' => load'.phase = "over" /\ load'.pending = {} /\ ~load'.refused
    <2> SUFFICES ASSUME started' PROVE load'.phase = "over" /\ load'.pending = {} /\ ~load'.refused
      OBVIOUS
    <2>1. last /\ n = Len(p)
      BY <1>3 DEF Config!Whole
    <2>2. ~(n < Len(a)) /\ n >= Len(a) /\ good
      BY <1>9, <1>13, <2>1
    <2>3. load.counted + 1 = size
      BY <1>10, <1>12, <2>1, <2>2
    <2>4. Cardinality(load.pending) >= 1
      BY <1>20
    <2>5. ~load.refused
      BY <1>4, <1>5, <1>18, <1>20, <2>3, <2>4
    <2>6. Cardinality(load.pending \ {file}) = 0
      BY <1>4, <1>5, <1>18, <1>20, <2>3, <2>4, <2>5
    <2>7. load.pending \ {file} = {}
      BY <1>20, <2>6, FS_EmptySet
    <2> QED BY <1>19, <2>1, <2>2, <2>5, <2>7
  <1>27. CfgLoadInv'
    <2>1. load'.pending \subseteq Config!Requested(unit.fw)
      BY <1>4, <1>19
    <2>2. load'.phase \notin {"none", "firmware"}
      BY <1>19
    <2> QED BY <1>23, <1>25, <1>26, <2>1, <2>2 DEF CfgLoadInv
  <1>28. CfgFlagsInv'
    <2>1. configured' \in BOOLEAN /\ started' \in BOOLEAN
      BY <1>3 DEF Config!Whole
    <2>2. pm' \in {"off", "active", "suspended", "error"}
      BY <1>3 DEF ConfigInv, CfgFlagsInv
    <2> QED BY <1>1, <2>1, <2>2 DEF ConfigInv, CfgFlagsInv, Config!Quiet, Config!Kinds
  <1> QED BY <1>15, <1>16, <1>22, <1>24, <1>27, <1>28 DEF ConfigInv

LEMMA CfgTransitions ==
    ASSUME ConfigInv, Config!ConfigAssumption, NEW p \in CfgPrograms,
           NEW to \in {"active", "suspended"}, Config!Transition(p, to)
    PROVE  ConfigInv'
  <1>1. PICK n \in Config!Ends(p) :
          /\ Config!CutBy(p, n, TRUE) /\ unit' = Config!States(p, unit)[n]
          /\ pm' = IF Config!Whole(p, n) THEN to ELSE "error"
    BY Zenon DEF Config!Transition
  <1>2. UNCHANGED <<Config!fixed, load, started, configured, playing_cfg, loads>>
    BY Zenon DEF Config!Transition
  <1>3. ConfigFaults \in Nat
    BY DEF Config!ConfigAssumption
  <1>4. n \in 0 .. Len(p) /\ CfgCutInv'
    BY <1>1, <1>3, CfgEnds, Zenon DEF ConfigInv, CfgCutInv
  <1>5. CfgFixedInv' /\ UNCHANGED <<device, tree>>
    BY <1>2, CfgFixedKept DEF ConfigInv
  <1>6. CfgUnitInv' /\ unit'.fw = unit.fw
    <2>1. CfgUnitInv /\ UNCHANGED <<load, device>>
      BY <1>2, <1>5 DEF ConfigInv
    <2> QED BY <1>1, <1>4, <2>1, CfgPlainStep, Zenon
  <1>7. CfgLoadInv' /\ load' \in CfgLoads
    <2>1. CfgLoadInv /\ UNCHANGED <<load, tree, started>>
      BY <1>2, <1>5 DEF ConfigInv
    <2>2. CfgLoadInv'
      BY <1>6, <2>1, CfgLoadKept, Zenon
    <2> QED BY <1>2, <2>2 DEF ConfigInv
  <1>8. CfgFlagsInv'
    BY <1>1, <1>2 DEF ConfigInv, CfgFlagsInv
  <1> QED BY <1>4, <1>5, <1>6, <1>7, <1>8 DEF ConfigInv

(* A waveform that starts or ends *)
LEMMA CfgWaves ==
    ASSUME ConfigInv, Config!ConfigAssumption, NEW p \in CfgPrograms, NEW n \in Config!Ends(p),
           Config!CutBy(p, n, TRUE), unit' = Config!States(p, unit)[n],
           playing_cfg' \in Config!Quiet \cup Config!Kinds,
           UNCHANGED <<Config!fixed, load, started, configured, pm, loads>>
    PROVE  ConfigInv'
  <1>1. ConfigFaults \in Nat
    BY DEF Config!ConfigAssumption
  <1>2. n \in 0 .. Len(p) /\ CfgCutInv'
    BY <1>1, CfgEnds, Zenon DEF ConfigInv, CfgCutInv
  <1>3. CfgFixedInv' /\ UNCHANGED <<device, tree>>
    BY CfgFixedKept DEF ConfigInv
  <1>4. CfgUnitInv' /\ unit'.fw = unit.fw
    <2>1. CfgUnitInv /\ UNCHANGED <<load, device>>
      BY <1>3 DEF ConfigInv
    <2> QED BY <1>2, <2>1, CfgPlainStep, Zenon
  <1>5. CfgLoadInv' /\ load' \in CfgLoads
    <2>1. CfgLoadInv /\ UNCHANGED <<load, tree, started>>
      BY <1>3 DEF ConfigInv
    <2>2. CfgLoadInv'
      BY <1>4, <2>1, CfgLoadKept, Zenon
    <2> QED BY <2>2 DEF ConfigInv
  <1>6. CfgFlagsInv'
    BY DEF ConfigInv, CfgFlagsInv
  <1> QED BY <1>2, <1>3, <1>4, <1>5, <1>6 DEF ConfigInv

LEMMA CfgPlaysKept ==
    ASSUME ConfigInv, Config!ConfigAssumption, NEW kind \in Config!Kinds, Config!Play(kind)
    PROVE  ConfigInv'
  <1> DEFINE p == CfgPlays(kind)
  <1>1. PICK n \in Config!Ends(p) :
          /\ Config!CutBy(p, n, TRUE) /\ unit' = Config!States(p, unit)[n]
          /\ playing_cfg' = IF Config!Whole(p, n) THEN kind ELSE "failed"
    BY Zenon DEF Config!Play, CfgPlays
  <1>2. UNCHANGED <<Config!fixed, load, started, configured, pm, loads>>
    BY Zenon DEF Config!Play
  <1>3. p \in CfgPrograms
    BY CfgPlayPrograms, Zenon
  <1> HIDE DEF p
  <1>4. playing_cfg' \in Config!Quiet \cup Config!Kinds
    BY <1>1 DEF Config!Quiet
  <1> QED BY <1>1, <1>2, <1>3, <1>4, CfgWaves, Zenon

LEMMA CfgStopsKept ==
    ASSUME ConfigInv, Config!ConfigAssumption, Config!Stop
    PROVE  ConfigInv'
  <1> DEFINE p == CfgStops
  <1>1. PICK n \in Config!Ends(p) :
          /\ Config!CutBy(p, n, TRUE) /\ unit' = Config!States(p, unit)[n]
          /\ playing_cfg' = IF Config!Whole(p, n) THEN "no"
                            ELSE IF Config!Clamping THEN playing_cfg ELSE "failed"
    BY Zenon DEF Config!Stop, CfgStops
  <1>2. UNCHANGED <<Config!fixed, load, started, configured, pm, loads>>
    BY Zenon DEF Config!Stop
  <1>3. p \in CfgPrograms
    BY CfgPlayPrograms, Zenon
  <1> HIDE DEF p
  <1>4. playing_cfg' \in Config!Quiet \cup Config!Kinds
    BY <1>1 DEF Config!Quiet, ConfigInv, CfgFlagsInv
  <1> QED BY <1>1, <1>2, <1>3, <1>4, CfgWaves, Zenon

LEMMA CfgUnbinds ==
    ASSUME ConfigInv, Config!ConfigAssumption, Config!Unbind
    PROVE  ConfigInv'
  <1>1. /\ unit' = Config!Fresh /\ load' = Config!NoLoad /\ started' = FALSE /\ configured' = FALSE
        /\ pm' = "off" /\ playing_cfg' = "no" /\ loads' = 0 /\ UNCHANGED <<Config!fixed, cut>>
    BY Zenon DEF Config!Unbind
  <1>2. CfgFixedInv' /\ CfgCutInv'
    BY <1>1, CfgFixedKept DEF ConfigInv, CfgCutInv
  <1>3. CfgUnitInv' /\ load' \in CfgLoads
    BY <1>1, CfgFresh, CfgNoLoad DEF CfgUnitInv
  <1>4. CfgLoadInv'
    BY <1>1, CfgNoLoad DEF CfgLoadInv
  <1>5. CfgFlagsInv'
    <2>1. MaxLoads \in Nat
      BY DEF Config!ConfigAssumption
    <2>2. loads' \in 0 .. MaxLoads
      BY <1>1, <2>1
    <2>3. playing_cfg' \in Config!Quiet
      BY <1>1 DEF Config!Quiet
    <2> QED BY <1>1, <2>2, <2>3 DEF CfgFlagsInv
  <1> QED BY <1>2, <1>3, <1>4, <1>5 DEF ConfigInv

LEMMA ConfigStep ==
    ASSUME ConfigInv, Config!ConfigAssumption, [Config!Next]_config_vars
    PROVE  ConfigInv'
  <1>1. CASE UNCHANGED config_vars
    <2>1. /\ UNCHANGED <<setting_cfg, device, tree, unit, load, started, configured, pm>>
          /\ UNCHANGED <<playing_cfg, loads, cut>>
      BY <1>1 DEF config_vars
    <2>2. CfgFixedInv' /\ CfgCutInv' /\ CfgFlagsInv' /\ load' \in CfgLoads
      BY <2>1 DEF ConfigInv, CfgFixedInv, CfgCutInv, CfgFlagsInv
    <2>3. CfgUnitInv'
      BY <2>1 DEF ConfigInv, CfgUnitInv, Config!B1
    <2>4. CfgLoadInv'
      BY <2>1, CfgLoadKept DEF ConfigInv
    <2> QED BY <2>2, <2>3, <2>4 DEF ConfigInv
  <1>2. CASE Config!Suspend
    <2>1. Config!Transition(Config!SuspendProgram(unit), "suspended")
      BY <1>2, Zenon DEF Config!Suspend
    <2> QED BY <2>1, CfgPmPrograms, CfgTransitions, Zenon
  <1>3. CASE Config!Resume
    <2>1. PICK late \in BOOLEAN : Config!Transition(Config!ResumeProgram(unit, late), "active")
      BY <1>3, Zenon DEF Config!Resume
    <2> QED BY <2>1, CfgPmPrograms, CfgTransitions, Zenon
  <1>4. CASE \E file \in Config!Files : Config!CoeffFileLoad(file)
    BY <1>4, CfgFileAnswers, Zenon
  <1>5. CASE \E kind \in Config!Kinds : Config!Play(kind)
    BY <1>5, CfgPlaysKept, Zenon
  <1>6. CASE Config!Probe \/ Config!FirmwareLoad
    BY <1>6, CfgProbes, CfgFirmwareLoads, Zenon
  <1>7. CASE Config!FwSwapStore \/ Config!StoreIndex \/ Config!Recover
    BY <1>7, CfgStores, CfgRecovers, Zenon
  <1>8. CASE Config!Stop \/ Config!Unbind
    BY <1>8, CfgStopsKept, CfgUnbinds, Zenon
  <1> QED BY <1>1, <1>2, <1>3, <1>4, <1>5, <1>6, <1>7, <1>8, Zenon DEF Config!Next

LEMMA ConfigSafe ==
    ASSUME ConfigInv
    PROVE  Config!TypeOK /\ Config!AllAnswered
  <1>1. Config!TypeOK
    <2>1. load.phase \in {"none", "firmware", "files", "over"} /\ load.pending \subseteq Config!Files
          /\ load.counted \in 0 .. 3 /\ load.refused \in BOOLEAN
      BY DEF ConfigInv, CfgLoads
    <2>2. /\ unit.dsp \in {"rom", "none", "orig", "remap", "cal"}
          /\ unit.fw \in {"none", "rom", "orig", "remap", "cal"} /\ unit.remap \in {"remap", "cal"}
          /\ unit.asleep \in BOOLEAN
      BY DEF ConfigInv, CfgUnitInv, CfgUnits, Firmware
    <2>3. {started, configured, load.refused, unit.asleep} \subseteq BOOLEAN
      BY <2>1, <2>2 DEF ConfigInv, CfgFlagsInv
    <2> QED BY <2>1, <2>2, <2>3, Zenon
        DEF ConfigInv, CfgFixedInv, CfgFlagsInv, CfgCutInv, Config!TypeOK
  <1>2. ASSUME load.phase = "files", load.pending = {}, ~load.refused
        PROVE  Config!Requested(unit.fw) # Config!CoeffFiles(unit.fw)
    <2>1. load.counted + Cardinality(load.pending) = Cardinality(Config!Requested(unit.fw))
          /\ load.counted # Cardinality(Config!CoeffFiles(unit.fw)) /\ load.counted \in 0 .. 3
      BY <1>2 DEF ConfigInv, CfgLoadInv, CfgLoads
    <2>2. Cardinality(load.pending) = 0
      BY <1>2, FS_EmptySet
    <2> QED BY <2>1, <2>2
  <1>3. started => load.pending = {} /\ ~load.refused
    BY DEF ConfigInv, CfgLoadInv
  <1> QED BY <1>1, <1>2, <1>3, Zenon DEF Config!AllAnswered
================================================================================
