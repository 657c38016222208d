--------------------------- MODULE MCSettings_proofs ---------------------------
(***************************************************************************)
(* Proofs about what drivers must keep over loads, swaps and resets: the   *)
(* attributes of the CS40L25 (Cs40l2xAttributes), the calibration of the   *)
(* TAS25xx's speakers (Tas25xxCalib) and the TAS25xx itself (Tas25xx),     *)
(* each in sections of its own, with its inductive invariant, its initial  *)
(* states and its steps.  The last section has the invariant of the whole, *)
(* with the parts of MCSettingsParts_proofs, and the theorems.             *)
(***************************************************************************)
EXTENDS MCSettingsParts_proofs

--------------------------------------------------------------------------------
(* Cs40l2xAttributes: words of the DSP and their fields *)

(* Attributes by their words: those that have a word to themselves, the two gains in one word
   and the two edges of a button. *)
Single ==
    {Attributes!HiberTimeout, Attributes!Gpio1Enable, Attributes!Gpio1FallTimeout, Attributes!StandbyTimeout, Attributes!F0Stored, Attributes!F0Offset, Attributes!RedcStored,
     Attributes!QStored, Attributes!ExcEnable, Attributes!ImonOffsEnable,
     Attributes!ClabEnable, Attributes!ClabPeak, Attributes!ParEnable, Attributes!ParGainComp,
     Attributes!BemfRecEn,
     Attributes!BemfShift, Attributes!MaxBackEmf, Attributes!PwleRampDown}

LEMMA WordsOfSingle ==
    /\ Attributes!HiberTimeout.word = "FALSEI2CTIMEOUT" /\ Attributes!Gpio1Enable.word = "GPIO_ENABLE"
    /\ Attributes!Gpio1FallTimeout.word = "PRESS_RELEASE_TIMEOUT" /\ Attributes!StandbyTimeout.word = "EVENT_TIMEOUT"
    /\ Attributes!F0Stored.word = "F0_STORED" /\ Attributes!F0Offset.word = "F0_OFFSET"
    /\ Attributes!RedcStored.word = "REDC_STORED" /\ Attributes!QStored.word = "Q_STORED"
    /\ Attributes!ExcEnable.word = "EX_PROTECT_ENABLED"
    /\ Attributes!ImonOffsEnable.word = "VMON_IMON_OFFSET_ENABLE" /\ Attributes!ClabEnable.word = "CLAB_ENABLED"
    /\ Attributes!ClabPeak.word = "PEAK_AMPLITUDE_CONTROL" /\ Attributes!ParEnable.word = "PWLE_REGULATION_ENABLED"
    /\ Attributes!ParGainComp.word = "PCM_GAIN_COMPENSATION_ENABLED" /\ Attributes!BemfRecEn.word = "MEASURE_BEMF_ONLY"
    /\ Attributes!BemfShift.word = "BEMF_SHIFT" /\ Attributes!MaxBackEmf.word = "MAXBACKEMF"
    /\ Attributes!PwleRampDown.word = "RAMPDOWN_COEFF"
  BY DEF Attributes!HiberTimeout, Attributes!Gpio1Enable, Attributes!Gpio1FallTimeout,
       Attributes!StandbyTimeout, Attributes!F0Stored, Attributes!F0Offset,
         Attributes!RedcStored, Attributes!QStored, Attributes!ExcEnable,
         Attributes!ImonOffsEnable, Attributes!ClabEnable, Attributes!ClabPeak,
         Attributes!ParEnable,
         Attributes!ParGainComp, Attributes!BemfRecEn, Attributes!BemfShift,
         Attributes!MaxBackEmf, Attributes!PwleRampDown, Attributes!Flag, Attributes!Word,
         Attributes!Raw, Attributes!Attr

LEMMA FieldsOfSingle ==
    \A a \in Single : a.field = "all"
  BY DEF Single, Attributes!HiberTimeout, Attributes!Gpio1Enable, Attributes!Gpio1FallTimeout,
       Attributes!StandbyTimeout, Attributes!F0Stored, Attributes!F0Offset,
         Attributes!RedcStored, Attributes!QStored, Attributes!ExcEnable,
         Attributes!ImonOffsEnable, Attributes!ClabEnable, Attributes!ClabPeak,
         Attributes!ParEnable,
         Attributes!ParGainComp, Attributes!BemfRecEn, Attributes!BemfShift,
         Attributes!MaxBackEmf, Attributes!PwleRampDown, Attributes!Flag, Attributes!Word,
         Attributes!Raw, Attributes!Attr

LEMMA FieldsOfGains ==
    /\ Attributes!Gpio1DigScale.word = "GAIN_CONTROL" /\ Attributes!Gpio1DigScale.field = "gpio"
    /\ Attributes!CpDigScale.word = "GAIN_CONTROL" /\ Attributes!CpDigScale.field = "trig"
  BY DEF Attributes!Gpio1DigScale, Attributes!CpDigScale, Attributes!Attr

LEMMA FieldsOfEdges ==
    ASSUME NEW g \in 1 .. 4
    PROVE  /\ Attributes!RiseDigScale(g).word = Attributes!GpioGain[g] /\ Attributes!RiseDigScale(g).field = "rise"
           /\ Attributes!FallDigScale(g).word = Attributes!GpioGain[g] /\ Attributes!FallDigScale(g).field = "fall"
           /\ Attributes!GpioGain[g] \in {"GPIO1_GAIN", "GPIO2_GAIN", "GPIO3_GAIN", "GPIO4_GAIN"}
           /\ \A h \in 1 .. 4 : Attributes!GpioGain[h] = Attributes!GpioGain[g] => h = g
  <1>1. /\ Attributes!RiseDigScale(g).word = Attributes!GpioGain[g] /\ Attributes!RiseDigScale(g).field = "rise"
        /\ Attributes!FallDigScale(g).word = Attributes!GpioGain[g] /\ Attributes!FallDigScale(g).field = "fall"
    BY DEF Attributes!RiseDigScale, Attributes!FallDigScale, Attributes!Attr
  <1>2. /\ Attributes!GpioGain[1] = "GPIO1_GAIN" /\ Attributes!GpioGain[2] = "GPIO2_GAIN"
        /\ Attributes!GpioGain[3] = "GPIO3_GAIN" /\ Attributes!GpioGain[4] = "GPIO4_GAIN"
    BY DEF Attributes!GpioGain
  <1>3. g \in {1, 2, 3, 4} /\ \A h \in 1 .. 4 : h \in {1, 2, 3, 4}
    OBVIOUS
  <1>4. /\ Attributes!GpioGain[g] \in {"GPIO1_GAIN", "GPIO2_GAIN", "GPIO3_GAIN", "GPIO4_GAIN"}
        /\ \A h \in {1, 2, 3, 4} : Attributes!GpioGain[h] = Attributes!GpioGain[g] => h = g
    BY <1>2, <1>3
  <1> QED BY <1>1, <1>3, <1>4

(* A word's field belongs to one attribute, *)
LEMMA FieldOfOne ==
    ASSUME Attributes!AttributesAssumption, NEW a \in Attributes!Attributes, NEW b \in Attributes!Attributes, a.word = b.word,
           a.field = b.field
    PROVE  a = b
  <1> DEFINE Gains == {Attributes!Gpio1DigScale, Attributes!CpDigScale}
             Rises == {Attributes!RiseDigScale(g) : g \in Gpios}
             Falls == {Attributes!FallDigScale(g) : g \in Gpios}
  <1>1. a \in Single \cup Gains \cup Rises \cup Falls /\ b \in Single \cup Gains \cup Rises \cup Falls
    BY DEF Attributes!Attributes, Single
  <1>2. Gpios \subseteq 1 .. 4
    BY DEF Attributes!AttributesAssumption
  <1>3. \A c \in Single : \A d \in Single : c.word = d.word => c = d
    BY WordsOfSingle DEF Single
  <1>4. /\ \A c \in Single : c.field = "all"
        /\ \A c \in Rises : c.field = "rise"
        /\ \A c \in Falls : c.field = "fall"
        /\ \A c \in Gains : c.field \in {"gpio", "trig"}
    BY <1>2, FieldsOfSingle, FieldsOfGains, FieldsOfEdges
  <1>5. \A c \in Gains : \A d \in Gains : c.field = d.field => c = d
    BY FieldsOfGains
  <1>6. \A c \in Rises : \A d \in Rises : c.word = d.word => c = d
    BY <1>2, FieldsOfEdges
  <1>7. \A c \in Falls : \A d \in Falls : c.word = d.word => c = d
    BY <1>2, FieldsOfEdges
  <1> HIDE DEF Gains, Rises, Falls
  <1> QED BY <1>1, <1>3, <1>4, <1>5, <1>6, <1>7

(* and the word of the offset has no more fields. *)
LEMMA OffsetAlone ==
    ASSUME Attributes!AttributesAssumption
    PROVE  /\ Attributes!FieldsOf(Attributes!ImonOffsEnable.word) = {"all"}
           /\ Attributes!ClabEnable.word # Attributes!ImonOffsEnable.word
           /\ Attributes!ImonOffsEnable \in Attributes!Attributes /\ Attributes!ImonOffsEnable.field = "all"
           /\ Attributes!ClabEnable \in Attributes!Attributes /\ Attributes!ClabEnable.field = "all"
           /\ \A a \in Attributes!Attributes : a.word = Attributes!ImonOffsEnable.word => a = Attributes!ImonOffsEnable
  <1> DEFINE Gains == {Attributes!Gpio1DigScale, Attributes!CpDigScale}
             Rises == {Attributes!RiseDigScale(g) : g \in Gpios}
             Falls == {Attributes!FallDigScale(g) : g \in Gpios}
  <1>1. Attributes!Attributes = Single \cup Gains \cup Rises \cup Falls
    BY DEF Attributes!Attributes, Single
  <1>2. Gpios \subseteq 1 .. 4
    BY DEF Attributes!AttributesAssumption
  <1>3. Attributes!ImonOffsEnable \in Single /\ Attributes!ClabEnable \in Single
    BY DEF Single
  <1>4. \A c \in Single : c.word = Attributes!ImonOffsEnable.word => c = Attributes!ImonOffsEnable
    BY WordsOfSingle DEF Single
  <1>5. Attributes!ClabEnable.word # Attributes!ImonOffsEnable.word
    BY WordsOfSingle
  <1>6. \A c \in Gains : c.word # Attributes!ImonOffsEnable.word
    BY WordsOfSingle, FieldsOfGains
  <1>7. \A c \in Rises \cup Falls : c.word # Attributes!ImonOffsEnable.word
    BY <1>2, WordsOfSingle, FieldsOfEdges
  <1> HIDE DEF Gains, Rises, Falls
  <1>8. \A a \in Attributes!Attributes : a.word = Attributes!ImonOffsEnable.word => a = Attributes!ImonOffsEnable
    BY <1>1, <1>4, <1>6, <1>7
  <1>9. Attributes!ImonOffsEnable.field = "all" /\ Attributes!ClabEnable.field = "all"
    BY <1>3, FieldsOfSingle
  <1>10. Attributes!FieldsOf(Attributes!ImonOffsEnable.word) = {"all"}
    BY <1>1, <1>3, <1>8, <1>9 DEF Attributes!FieldsOf
  <1> QED BY <1>1, <1>3, <1>5, <1>8, <1>9, <1>10

(* A word changes in one field. *)
LEMMA OneField ==
    ASSUME NEW r, NEW F, r \in [F -> Nat], NEW f \in F, NEW v \in Nat
    PROVE  /\ [r EXCEPT ![f] = v] \in [F -> Nat] /\ [r EXCEPT ![f] = v][f] = v
           /\ \A g \in F \ {f} : [r EXCEPT ![f] = v][g] = r[g]
  OBVIOUS

Memories(m) ==
    /\ m = [w \in Attributes!Words |-> m[w]]
    /\ \A w \in Attributes!Words : m[w] \in [Attributes!FieldsOf(w) -> Nat]

Caches(c) ==
    /\ DOMAIN c \subseteq Attributes!Words /\ c = [w \in DOMAIN c |-> c[w]]
    /\ \A w \in DOMAIN c : c[w] \in [Attributes!FieldsOf(w) -> Nat]

InMemory(a) == wanted[a] # Attributes!None => memory[a.word][a.field] = wanted[a]
InCache(a) == a.kept /\ wanted[a] # Attributes!None =>
                 a.word \in DOMAIN dsp_cache /\ dsp_cache[a.word][a.field] = wanted[a]

(* What is wanted is in the chip while that has its state, and in the cache if it is to come
   back from there. *)
WordsInv ==
    /\ pair \in Pairs /\ lost \in BOOLEAN /\ blind \in BOOLEAN
    /\ Memories(memory) /\ Caches(dsp_cache)
    /\ wanted \in [pair -> Nat \cup {Attributes!None}]
    /\ ~lost /\ ~blind => \A a \in pair : InMemory(a)
    /\ ~blind => \A a \in pair : InCache(a)

LEMMA PairsKnown ==
    ASSUME Attributes!AttributesAssumption, pair \in Pairs
    PROVE  \A a \in pair : /\ a \in Attributes!Attributes /\ a.word \in Attributes!Words
                           /\ a.field \in Attributes!FieldsOf(a.word)
  <1>1. pair \subseteq Attributes!Attributes
    BY DEF Attributes!AttributesAssumption
  <1>2. \A a \in pair : a.word \in Attributes!Words
    BY DEF Attributes!Words
  <1> QED BY <1>1, <1>2 DEF Attributes!FieldsOf

LEMMA LoadedWords == Memories(Attributes!Loaded)
  BY DEF Memories, Attributes!Loaded

LEMMA NoneIsNoNumber == Attributes!None \notin Nat
  BY DEF Attributes!None

LEMMA WordsInit ==
    ASSUME Attributes!AttributesAssumption, Attributes!Init
    PROVE  WordsInv
  <1>1. Memories(memory)
    BY LoadedWords DEF Attributes!Init
  <1>2. dsp_cache = [w \in {} |-> 0]
    BY DEF Attributes!Init
  <1>3. Caches(dsp_cache)
    BY <1>2 DEF Caches
  <1>4. wanted = [a \in pair |-> Attributes!None]
    BY DEF Attributes!Init
  <1>5. \A a \in pair : wanted[a] = Attributes!None
    BY <1>4
  <1>6. wanted \in [pair -> Nat \cup {Attributes!None}]
    BY <1>4
  <1> QED BY <1>1, <1>3, <1>5, <1>6 DEF Attributes!Init, WordsInv, InMemory, InCache

(* A store's number, and what it makes of the word, of the memory and of the cache *)
LEMMA StandingNumber ==
    ASSUME NEW a, NEW v \in Attributes!Tried(a)
    PROVE  Attributes!Standing(a, v) \in Nat
  <1>1. v \in Nat
    BY DEF Attributes!Tried
  <1> QED BY <1>1 DEF Attributes!Standing

LEMMA StoredWord ==
    ASSUME Attributes!AttributesAssumption, WordsInv, NEW a \in pair, NEW n \in Nat
    PROVE  /\ Attributes!Changed(a, n) \in [Attributes!FieldsOf(a.word) -> Nat] /\ Attributes!Changed(a, n)[a.field] = n
           /\ \A f \in Attributes!FieldsOf(a.word) \ {a.field} : Attributes!Changed(a, n)[f] = memory[a.word][f]
  <1>1. a.word \in Attributes!Words /\ a.field \in Attributes!FieldsOf(a.word)
    BY PairsKnown DEF WordsInv
  <1>2. memory[a.word] \in [Attributes!FieldsOf(a.word) -> Nat]
    BY <1>1 DEF WordsInv, Memories
  <1> QED BY <1>1, <1>2, OneField DEF Attributes!Changed

LEMMA WordWritten ==
    ASSUME NEW m, Memories(m), NEW w \in Attributes!Words, NEW r \in [Attributes!FieldsOf(w) -> Nat]
    PROVE  /\ Memories([m EXCEPT ![w] = r]) /\ [m EXCEPT ![w] = r][w] = r
           /\ \A u \in Attributes!Words \ {w} : [m EXCEPT ![w] = r][u] = m[u]
  BY DEF Memories

LEMMA OffsetWritten ==
    ASSUME Attributes!AttributesAssumption, NEW m, Memories(m), NEW n \in Nat
    PROVE  /\ Memories(Attributes!ImonSynced(m, n))
           /\ \A u \in Attributes!Words \ {Attributes!ImonOffsEnable.word} : Attributes!ImonSynced(m, n)[u] = m[u]
  <1>1. Attributes!ImonOffsEnable.word \in Attributes!Words
    BY DEF Attributes!Words
  <1>2. [all |-> n] \in [Attributes!FieldsOf(Attributes!ImonOffsEnable.word) -> Nat]
    BY OffsetAlone
  <1> QED BY <1>1, <1>2, WordWritten DEF Attributes!ImonSynced

LEMMA WordCached ==
    ASSUME Caches(dsp_cache), NEW w \in Attributes!Words, NEW r \in [Attributes!FieldsOf(w) -> Nat]
    PROVE  /\ Caches(Attributes!Cached(w, r))
           /\ DOMAIN Attributes!Cached(w, r) = DOMAIN dsp_cache \cup {w} /\ Attributes!Cached(w, r)[w] = r
           /\ \A u \in DOMAIN dsp_cache \ {w} : Attributes!Cached(w, r)[u] = dsp_cache[u]
  BY DEF Caches, Attributes!Cached

(* A store keeps the words: whatever else is in the word was there and stays, or the chip had
   lost it. *)
LEMMA WordsOfStore ==
    ASSUME Attributes!AttributesAssumption, WordsInv, NEW a \in pair, NEW v \in Attributes!Tried(a), Attributes!Store(a, v)
    PROVE  WordsInv'
  <1> DEFINE n == Attributes!Standing(a, v)
             r == Attributes!Changed(a, n)
             m == [memory EXCEPT ![a.word] = r]
  <1>1. n \in Nat
    BY StandingNumber
  <1>2. /\ r \in [Attributes!FieldsOf(a.word) -> Nat] /\ r[a.field] = n
        /\ \A f \in Attributes!FieldsOf(a.word) \ {a.field} : r[f] = memory[a.word][f]
    BY <1>1, StoredWord
  <1>3. /\ memory' = IF a = Attributes!ClabEnable THEN Attributes!ImonSynced(m, r.all) ELSE m
        /\ dsp_cache' = IF a.kept THEN Attributes!Cached(a.word, r) ELSE dsp_cache
        /\ wanted' = [b \in pair |->
                        CASE b = a -> n
                          [] a = Attributes!ClabEnable /\ b = Attributes!ImonOffsEnable -> Attributes!None
                          [] OTHER -> wanted[b]]
        /\ blind' = (blind \/ (lost /\ Attributes!Shared(a)))
        /\ pair' = pair /\ lost' = lost
    BY Zenon DEF Attributes!Store
  <1>k. \A b \in pair : b \in Attributes!Attributes /\ b.word \in Attributes!Words /\ b.field \in Attributes!FieldsOf(b.word)
    BY PairsKnown DEF WordsInv
  <1>w. a.word \in Attributes!Words
    BY <1>k
  <1>t. /\ Memories(memory) /\ Caches(dsp_cache) /\ wanted \in [pair -> Nat \cup {Attributes!None}]
        /\ pair \in Pairs /\ lost \in BOOLEAN /\ blind \in BOOLEAN
    BY DEF WordsInv
  <1> HIDE DEF n, r
  <1>4. Memories(m) /\ m[a.word] = r /\ \A u \in Attributes!Words \ {a.word} : m[u] = memory[u]
    BY <1>2, <1>t, <1>w, WordWritten
  <1> HIDE DEF m
  <1>5. /\ Memories(memory')
        /\ memory'[a.word] = r
        /\ \A u \in Attributes!Words \ {a.word} :
              ~(a = Attributes!ClabEnable /\ u = Attributes!ImonOffsEnable.word) => memory'[u] = memory[u]
    <2>1. CASE a = Attributes!ClabEnable
      <3>1. r.all \in Nat /\ a.word # Attributes!ImonOffsEnable.word
        <4>1. a.word # Attributes!ImonOffsEnable.word /\ a.field = "all"
          BY <2>1, OffsetAlone
        <4> QED BY <1>1, <1>2, <4>1
      <3>2. /\ Memories(memory')
            /\ \A u \in Attributes!Words \ {Attributes!ImonOffsEnable.word} : memory'[u] = m[u]
        BY <1>3, <1>4, <2>1, <3>1, OffsetWritten
      <3> QED BY <1>4, <1>w, <2>1, <3>1, <3>2
    <2>2. CASE a # Attributes!ClabEnable
      BY <1>3, <1>4, <2>2
    <2> QED BY <2>1, <2>2
  <1>6. Caches(dsp_cache')
    BY <1>2, <1>3, <1>t, <1>w, WordCached
  <1>7. wanted' \in [pair' -> Nat \cup {Attributes!None}]
    <2>1. \A b \in pair : wanted[b] \in Nat \cup {Attributes!None}
      BY <1>t
    <2> QED BY <1>1, <1>3, <2>1
  <1>8. /\ wanted'[a] = n
        /\ \A b \in pair \ {a} : wanted'[b] # Attributes!None =>
              wanted'[b] = wanted[b] /\ wanted[b] # Attributes!None /\ ~(a = Attributes!ClabEnable /\ b = Attributes!ImonOffsEnable)
    <2>0. Attributes!ClabEnable # Attributes!ImonOffsEnable
      BY OffsetAlone
    <2>1. wanted'[a] = n
      BY <1>3, <2>0
    <2>2. ASSUME NEW b \in pair \ {a}, a = Attributes!ClabEnable /\ b = Attributes!ImonOffsEnable
          PROVE  wanted'[b] = Attributes!None
      BY <1>3, <2>2
    <2>3. ASSUME NEW b \in pair \ {a}, ~(a = Attributes!ClabEnable /\ b = Attributes!ImonOffsEnable)
          PROVE  wanted'[b] = wanted[b]
      BY <1>3, <2>3
    <2> QED BY <2>1, <2>2, <2>3
  <1>9. \A b \in pair : b # a /\ b.word = a.word => b.field # a.field /\ Attributes!Shared(a)
    <2>1. \A b \in pair : b \in Attributes!Attributes
      BY <1>k
    <2> QED BY <2>1, FieldOfOne DEF Attributes!Shared
  <1>10. ASSUME ~lost', ~blind', NEW b \in pair
         PROVE  InMemory(b)'
    <2> SUFFICES ASSUME wanted'[b] # Attributes!None PROVE memory'[b.word][b.field] = wanted'[b]
      BY DEF InMemory
    <2>0. ~lost /\ ~blind
      BY <1>3, <1>10, <1>t
    <2>1. CASE b = a
      BY <1>2, <1>5, <1>8, <2>1
    <2>2. CASE b # a /\ b.word = a.word
      <3>1. b.field \in Attributes!FieldsOf(a.word) \ {a.field}
        BY <1>9, <1>k, <2>2
      <3>2. memory'[b.word][b.field] = memory[b.word][b.field]
        BY <1>2, <1>5, <2>2, <3>1
      <3>3. memory[b.word][b.field] = wanted[b]
        BY <1>8, <2>0, <2>2 DEF WordsInv, InMemory
      <3> QED BY <1>8, <2>2, <3>2, <3>3
    <2>3. CASE b.word # a.word
      <3>1. wanted'[b] = wanted[b] /\ wanted[b] # Attributes!None /\ ~(a = Attributes!ClabEnable /\ b = Attributes!ImonOffsEnable)
        BY <1>8, <2>3
      <3>2. ~(a = Attributes!ClabEnable /\ b.word = Attributes!ImonOffsEnable.word)
        BY <1>k, <3>1, OffsetAlone
      <3>3. memory'[b.word] = memory[b.word]
        BY <1>5, <1>k, <2>3, <3>2
      <3>4. memory[b.word][b.field] = wanted[b]
        BY <2>0, <3>1 DEF WordsInv, InMemory
      <3> QED BY <3>1, <3>3, <3>4
    <2> QED BY <2>1, <2>2, <2>3
  <1>11. ASSUME ~blind', NEW b \in pair
         PROVE  InCache(b)'
    <2> SUFFICES ASSUME wanted'[b] # Attributes!None, b.kept
                 PROVE  b.word \in DOMAIN dsp_cache' /\ dsp_cache'[b.word][b.field] = wanted'[b]
      BY DEF InCache
    <2>0. ~blind /\ ~(lost /\ Attributes!Shared(a))
      BY <1>3, <1>11, <1>t
    <2>c. a.kept => /\ DOMAIN dsp_cache' = DOMAIN dsp_cache \cup {a.word} /\ dsp_cache'[a.word] = r
                    /\ \A u \in DOMAIN dsp_cache \ {a.word} : dsp_cache'[u] = dsp_cache[u]
      BY <1>2, <1>3, <1>t, <1>w, WordCached
    <2>d. ~a.kept => dsp_cache' = dsp_cache
      BY <1>3
    <2>1. CASE b = a
      BY <1>2, <1>8, <2>1, <2>c
    <2>2. CASE b # a
      <3>1. wanted'[b] = wanted[b] /\ wanted[b] # Attributes!None
        BY <1>8, <2>2
      <3>2. b.word \in DOMAIN dsp_cache /\ dsp_cache[b.word][b.field] = wanted[b]
        BY <2>0, <3>1 DEF WordsInv, InCache
      <3>3. CASE b.word # a.word
        BY <2>c, <2>d, <3>1, <3>2, <3>3
      <3>4. CASE b.word = a.word
        <4>1. b.field \in Attributes!FieldsOf(a.word) \ {a.field} /\ ~lost
          BY <1>9, <1>k, <2>0, <2>2, <3>4
        <4>2. memory[b.word][b.field] = wanted[b]
          BY <2>0, <3>1, <4>1 DEF WordsInv, InMemory
        <4>3. r[b.field] = wanted[b]
          BY <1>2, <3>4, <4>1, <4>2
        <4> QED BY <2>c, <2>d, <3>1, <3>2, <3>4, <4>3
      <3> QED BY <3>3, <3>4
    <2> QED BY <2>1, <2>2
  <1>12. blind' \in BOOLEAN
    BY <1>3, Zenon
  <1> QED BY <1>3, <1>5, <1>6, <1>7, <1>10, <1>11, <1>12, <1>t DEF WordsInv

(* So do losses, recoveries and swaps. *)
LEMMA WordsOfChip ==
    ASSUME Attributes!AttributesAssumption, WordsInv, Attributes!Lose \/ Attributes!Recover \/ Attributes!FwSwap
    PROVE  WordsInv'
  <1>t. /\ Memories(memory) /\ Caches(dsp_cache) /\ wanted \in [pair -> Nat \cup {Attributes!None}]
        /\ pair \in Pairs /\ lost \in BOOLEAN /\ blind \in BOOLEAN
    BY DEF WordsInv
  <1>k. \A b \in pair : b \in Attributes!Attributes /\ b.word \in Attributes!Words /\ b.field \in Attributes!FieldsOf(b.word)
    BY PairsKnown DEF WordsInv
  <1>1. CASE Attributes!Lose
    <2>1. /\ lost' = TRUE /\ memory' = Attributes!Loaded /\ pair' = pair /\ dsp_cache' = dsp_cache
          /\ blind' = blind /\ wanted' = wanted
      BY <1>1, Zenon DEF Attributes!Lose
    <2> QED BY <1>t, <2>1, LoadedWords DEF WordsInv, InCache
  <1>2. CASE Attributes!Recover
    <2>1. /\ lost' = FALSE /\ memory' = Attributes!Replayed /\ pair' = pair /\ dsp_cache' = dsp_cache
          /\ blind' = blind /\ wanted' = [a \in pair |-> IF a.kept THEN wanted[a] ELSE Attributes!None]
      BY <1>2, Zenon DEF Attributes!Recover
    <2>2. Memories(Attributes!Replayed)
      <3>1. /\ Attributes!Replayed = [w \in Attributes!Words |-> Attributes!Replayed[w]]
            /\ \A w \in Attributes!Words : Attributes!Replayed[w] = IF w \in DOMAIN dsp_cache THEN dsp_cache[w]
                                              ELSE Attributes!Loaded[w]
        BY DEF Attributes!Replayed
      <3>2. \A w \in Attributes!Words : Attributes!Loaded[w] \in [Attributes!FieldsOf(w) -> Nat]
        BY LoadedWords DEF Memories
      <3>3. \A w \in Attributes!Words : Attributes!Replayed[w] \in [Attributes!FieldsOf(w) -> Nat]
        BY <1>t, <3>1, <3>2 DEF Caches
      <3> QED BY <3>1, <3>3 DEF Memories
    <2>3. \A a \in pair : wanted'[a] # Attributes!None => a.kept /\ wanted'[a] = wanted[a]
      BY <2>1
    <2>4. wanted' \in [pair -> Nat \cup {Attributes!None}]
      <3>1. \A a \in pair : wanted[a] \in Nat \cup {Attributes!None}
        BY <1>t
      <3> QED BY <2>1, <3>1
    <2>5. ASSUME ~blind, NEW a \in pair
          PROVE  InMemory(a)' /\ InCache(a)'
      <3>1. InCache(a)
        BY <2>5 DEF WordsInv
      <3>2. a.word \in DOMAIN dsp_cache => memory'[a.word] = dsp_cache[a.word]
        BY <1>k, <2>1 DEF Attributes!Replayed
      <3> QED BY <2>1, <2>3, <3>1, <3>2 DEF InMemory, InCache
    <2> QED BY <1>t, <2>1, <2>2, <2>4, <2>5 DEF WordsInv
  <1>3. CASE Attributes!FwSwap
    <2>1. /\ lost' = lost /\ memory' = Attributes!Loaded /\ pair' = pair /\ dsp_cache' = [w \in {} |-> 0]
          /\ blind' = FALSE /\ wanted' = [a \in pair |-> Attributes!None]
      BY <1>3, Zenon DEF Attributes!FwSwap
    <2>2. Caches(dsp_cache')
      BY <2>1 DEF Caches
    <2>3. \A a \in pair : wanted'[a] = Attributes!None
      BY <2>1
    <2>4. wanted' \in [pair -> Nat \cup {Attributes!None}]
      BY <2>1
    <2> QED BY <1>t, <2>1, <2>2, <2>3, <2>4, LoadedWords DEF WordsInv, InMemory, InCache
  <1> QED BY <1>1, <1>2, <1>3

LEMMA WordsElsewhere ==
    ASSUME WordsInv, UNCHANGED Attributes!attr_vars
    PROVE  WordsInv'
  <1>1. /\ pair' = pair /\ memory' = memory /\ dsp_cache' = dsp_cache /\ lost' = lost
        /\ blind' = blind /\ wanted' = wanted
    BY DEF Attributes!attr_vars
  <1> QED BY <1>1 DEF WordsInv, InMemory, InCache

LEMMA WordsHeld ==
    ASSUME WordsInv
    PROVE  Attributes!InForce
  BY DEF WordsInv, InMemory, Attributes!InForce

--------------------------------------------------------------------------------
(* Cs40l2xAttributes: the table of resonances, and errors *)

LEMMA SameCardinality == ASSUME NEW S PROVE Attributes!Cardinality(S) = Cardinality(S)
  BY Zenon DEF Attributes!Cardinality, Cardinality

Entry == [index : Attributes!Slot \cup {Attributes!None}, f0 : Resonances \cup {0}]

(* A table without gaps that has each index once, and nothing where it has none *)
Tight(t) ==
    /\ \A i, j \in Attributes!Slot : i < j /\ t[j].index # Attributes!None => t[i].index # Attributes!None
    /\ \A i, j \in Attributes!Slot : t[i].index = t[j].index /\ t[i].index # Attributes!None => i = j
    /\ \A i \in Attributes!Slot : t[i].index = Attributes!None => t[i].f0 = 0

(* The driver's copy has what the table has, or had before the DSP went on, until a load
   empties the table. *)
TableInv ==
    /\ dynamic_f0 \in [Attributes!Slot -> Entry] /\ f0_table \in [Attributes!Slot -> Entry]
    /\ unread \in BOOLEAN /\ apart \in BOOLEAN
    /\ \A i \in Attributes!Slot : dynamic_f0[i].index = Attributes!None => dynamic_f0[i].f0 = 0
    /\ \A i \in Attributes!Slot : f0_table[i].index = Attributes!None => f0_table[i].f0 = 0
    /\ ~apart =>
          /\ Tight(f0_table)
          /\ \A i \in Attributes!Slot : dynamic_f0[i].index # Attributes!None =>
                f0_table[i].index = dynamic_f0[i].index
          /\ ~unread => dynamic_f0 = f0_table

LEMMA SlotsAreNumbers ==
    ASSUME Attributes!AttributesAssumption
    PROVE  /\ Entries \in Nat /\ \A i \in Attributes!Slot : i \in Nat /\ i >= 1 /\ i <= Entries
           /\ Attributes!None \notin Attributes!Slot
  BY DEF Attributes!AttributesAssumption, Attributes!Slot, Attributes!None

LEMMA EmptyTable ==
    ASSUME Attributes!AttributesAssumption
    PROVE  /\ Attributes!Empty \in [Attributes!Slot -> Entry] /\ Tight(Attributes!Empty)
           /\ \A i \in Attributes!Slot : Attributes!Empty[i].index = Attributes!None /\ Attributes!Empty[i].f0 = 0
  BY DEF Attributes!Empty, Entry, Tight

LEMMA FirstIsLeast ==
    ASSUME Attributes!AttributesAssumption, NEW S, S \subseteq Attributes!Slot, S # {}
    PROVE  Attributes!First(S) \in S /\ \A j \in S : Attributes!First(S) <= j
  <1>1. S \subseteq Nat
    BY SlotsAreNumbers
  <1>2. \E i \in S : \A j \in S : i <= j
    BY <1>1, LeastNatural
  <1> QED BY <1>2 DEF Attributes!First

(* Where an entry of a table goes *)
Goes(t, index) == IF Attributes!With(t, index) # {} THEN Attributes!With(t, index) ELSE Attributes!With(t, Attributes!None)

LEMMA GoesToSlot ==
    ASSUME Attributes!AttributesAssumption, NEW t, NEW index, Goes(t, index) # {}
    PROVE  /\ Attributes!First(Goes(t, index)) \in Attributes!Slot
           /\ \/ t[Attributes!First(Goes(t, index))].index = index
              \/ /\ t[Attributes!First(Goes(t, index))].index = Attributes!None /\ Attributes!With(t, index) = {}
                 /\ \A j \in Attributes!Slot : t[j].index = Attributes!None => Attributes!First(Goes(t, index)) <= j
  <1> DEFINE i == Attributes!First(Goes(t, index))
  <1>1. Goes(t, index) \subseteq Attributes!Slot
    BY DEF Goes, Attributes!With
  <1>2. i \in Goes(t, index) /\ \A j \in Goes(t, index) : i <= j
    BY <1>1, FirstIsLeast
  <1> HIDE DEF i
  <1>3. CASE Attributes!With(t, index) # {}
    <2>1. i \in Attributes!With(t, index)
      BY <1>2, <1>3 DEF Goes
    <2> QED BY <2>1 DEF Attributes!With, i
  <1>4. CASE Attributes!With(t, index) = {}
    <2>1. i \in Attributes!With(t, Attributes!None) /\ \A j \in Attributes!With(t, Attributes!None) : i <= j
      BY <1>2, <1>4 DEF Goes
    <2>2. i \in Attributes!Slot /\ t[i].index = Attributes!None /\ \A j \in Attributes!Slot : t[j].index = Attributes!None => i <= j
      BY <2>1 DEF Attributes!With
    <2> QED BY <1>4, <2>2 DEF i
  <1> QED BY <1>3, <1>4

LEMMA EntryChanged ==
    ASSUME NEW t \in [Attributes!Slot -> Entry], NEW i \in Attributes!Slot, NEW index \in Attributes!Slot, NEW f0 \in Resonances
    PROVE  /\ Attributes!Changes(t, i, index, f0) \in [Attributes!Slot -> Entry]
           /\ Attributes!Changes(t, i, index, f0)[i].index = index
           /\ \A j \in Attributes!Slot \ {i} : Attributes!Changes(t, i, index, f0)[j] = t[j]
  BY DEF Attributes!Changes, Entry

LEMMA NothingLeft ==
    ASSUME Attributes!AttributesAssumption, NEW t \in [Attributes!Slot -> Entry], NEW i \in Attributes!Slot, NEW index \in Attributes!Slot,
           NEW f0 \in Resonances, \A j \in Attributes!Slot : t[j].index = Attributes!None => t[j].f0 = 0
    PROVE  \A j \in Attributes!Slot : Attributes!Changes(t, i, index, f0)[j].index = Attributes!None =>
                Attributes!Changes(t, i, index, f0)[j].f0 = 0
  <1> DEFINE u == Attributes!Changes(t, i, index, f0)
  <1>1. u[i].index = index /\ \A j \in Attributes!Slot \ {i} : u[j] = t[j]
    BY EntryChanged
  <1>2. index # Attributes!None
    BY SlotsAreNumbers
  <1> HIDE DEF u
  <1>3. \A j \in Attributes!Slot : u[j].index = Attributes!None => u[j].f0 = 0
    BY <1>1, <1>2
  <1> QED BY <1>3 DEF u

LEMMA TightChanged ==
    ASSUME Attributes!AttributesAssumption, NEW t \in [Attributes!Slot -> Entry], NEW index \in Attributes!Slot,
           NEW f0 \in Resonances, Goes(t, index) # {}, Tight(t)
    PROVE  Tight(Attributes!Changes(t, Attributes!First(Goes(t, index)), index, f0))
  <1> DEFINE i == Attributes!First(Goes(t, index))
             u == Attributes!Changes(t, i, index, f0)
  <1>1. /\ i \in Attributes!Slot
        /\ \/ t[i].index = index
           \/ /\ t[i].index = Attributes!None /\ Attributes!With(t, index) = {}
              /\ \A j \in Attributes!Slot : t[j].index = Attributes!None => i <= j
    BY GoesToSlot
  <1> HIDE DEF i
  <1>2. u[i].index = index /\ \A j \in Attributes!Slot \ {i} : u[j] = t[j]
    BY <1>1, EntryChanged
  <1>3. index # Attributes!None
    BY SlotsAreNumbers
  <1>n. \A j \in Attributes!Slot : j \in Nat
    BY SlotsAreNumbers
  <1> HIDE DEF u
  <1>4. CASE t[i].index = index
    <2>1. \A j \in Attributes!Slot : u[j].index = t[j].index
      BY <1>2, <1>4
    <2>2. \A j \in Attributes!Slot : u[j].index = Attributes!None => u[j].f0 = 0
      BY <1>2, <1>3 DEF Tight
    <2>3. Tight(u)
      BY <2>1, <2>2 DEF Tight
    <2> QED BY <2>3 DEF u, i
  <1>5. CASE /\ t[i].index = Attributes!None /\ Attributes!With(t, index) = {}
             /\ \A j \in Attributes!Slot : t[j].index = Attributes!None => i <= j
    <2>1. \A j \in Attributes!Slot : t[j].index # index
      BY <1>5 DEF Attributes!With
    <2>2. ASSUME NEW j \in Attributes!Slot, NEW k \in Attributes!Slot, j < k, u[k].index # Attributes!None
          PROVE  u[j].index # Attributes!None
      <3>1. CASE j = i
        BY <1>2, <1>3, <3>1
      <3>2. CASE j # i /\ k = i
        BY <1>1, <1>2, <1>5, <1>n, <2>2, <3>2
      <3>3. CASE j # i /\ k # i
        BY <1>2, <2>2, <3>3 DEF Tight
      <3> QED BY <3>1, <3>2, <3>3
    <2>3. ASSUME NEW j \in Attributes!Slot, NEW k \in Attributes!Slot, u[j].index = u[k].index, u[j].index # Attributes!None
          PROVE  j = k
      BY <1>2, <2>1, <2>3 DEF Tight
    <2>4. \A j \in Attributes!Slot : u[j].index = Attributes!None => u[j].f0 = 0
      BY <1>2, <1>3 DEF Tight
    <2>5. Tight(u)
      BY <2>2, <2>3, <2>4 DEF Tight
    <2> QED BY <2>5 DEF u, i
  <1> QED BY <1>1, <1>4, <1>5

(* Of a set of slots with n or more members there is an n-th. *)
LEMMA NthThere ==
    ASSUME Attributes!AttributesAssumption, NEW S, S \subseteq Attributes!Slot, NEW n \in Nat, n # 0,
           n <= Cardinality(S)
    PROVE  \E i \in S : Cardinality({j \in S : j <= i}) = n
  <1> DEFINE Upto(i) == {j \in S : j <= i}
             T == {i \in 0..Entries : Cardinality(Upto(i)) >= n}
  <1>1. S \subseteq Nat /\ IsFiniteSet(S) /\ S \subseteq 1..Entries /\ Entries \in Nat
    <2>1. IsFiniteSet(Attributes!Slot) /\ Entries \in Nat
      BY SlotsAreNumbers, FS_Interval DEF Attributes!Slot
    <2>2. IsFiniteSet(S)
      BY <2>1, FS_Subset
    <2> QED BY <2>1, <2>2, SlotsAreNumbers DEF Attributes!Slot
  <1>2. \A i : IsFiniteSet(Upto(i)) /\ Cardinality(Upto(i)) \in Nat
    <2>1. \A i : Upto(i) \subseteq S
      OBVIOUS
    <2> HIDE DEF Upto
    <2> QED BY <1>1, <2>1, FS_Subset, FS_CardinalityType
  <1>0. \A j \in S : j \in Nat /\ j <= Entries /\ ~(j <= 0)
    BY SlotsAreNumbers
  <1>3. Upto(Entries) = S
    BY <1>0
  <1>4. Upto(0) = {}
    BY <1>0
  <1>5. T \subseteq Nat /\ Entries \in T
    <2>1. Cardinality(Upto(Entries)) >= n
      <3>1. Cardinality(S) \in Nat
        BY <1>1, FS_CardinalityType
      <3> HIDE DEF Upto
      <3> QED BY <1>3, <3>1
    <2>2. Entries \in 0..Entries
      BY <1>1
    <2>3. Entries \in T
      BY <2>1, <2>2, Zenon
    <2>4. T \subseteq 0..Entries /\ 0..Entries \subseteq Nat
      <3> HIDE DEF Upto
      <3> QED OBVIOUS
    <2> HIDE DEF T
    <2> QED BY <2>3, <2>4
  <1>6. PICK i \in T : \A j \in T : i <= j
    BY <1>5, LeastNatural
  <1>7. i \in Nat /\ i <= Entries /\ Cardinality(Upto(i)) >= n
    BY <1>1, <1>6
  <1>8. i # 0
    <2> SUFFICES ASSUME i = 0 PROVE FALSE
      OBVIOUS
    <2>1. Cardinality(Upto(0)) = 0
      BY <1>4, FS_EmptySet
    <2> QED BY <1>7, <2>1
  <1>9. Cardinality(Upto(i - 1)) < n
    <2>1. i - 1 \in 0..Entries /\ ~(i <= i - 1)
      BY <1>1, <1>7, <1>8
    <2>2. i - 1 \notin T
      BY <1>6, <2>1
    <2>3. Cardinality(Upto(i - 1)) \in Nat
      BY <1>2
    <2> HIDE DEF Upto
    <2> QED BY <2>1, <2>2, <2>3
  <1>10. \A j \in S : j <= i <=> j <= i - 1 \/ j = i
    BY <1>1, <1>7
  <1>11. i \in S
    <2> SUFFICES ASSUME i \notin S PROVE FALSE
      OBVIOUS
    <2>1. Upto(i) = Upto(i - 1)
      BY <1>10
    <2>2. Cardinality(Upto(i - 1)) \in Nat
      BY <1>2
    <2> HIDE DEF Upto
    <2> QED BY <1>7, <1>9, <2>1, <2>2
  <1>12. Cardinality(Upto(i)) = Cardinality(Upto(i - 1)) + 1
    <2>0. ~(i <= i - 1) /\ i <= i
      BY <1>7
    <2>1. Upto(i) = Upto(i - 1) \cup {i} /\ i \notin Upto(i - 1)
      BY <1>10, <1>11, <2>0, Zenon
    <2>2. IsFiniteSet(Upto(i - 1))
      BY <1>2
    <2> HIDE DEF Upto
    <2> QED BY <2>1, <2>2, FS_AddElement
  <1>13. Cardinality(Upto(i)) = n
    <2>1. Cardinality(Upto(i - 1)) \in Nat
      BY <1>2
    <2> HIDE DEF Upto
    <2> QED BY <1>7, <1>9, <1>12, <2>1
  <1> QED BY <1>11, <1>13

LEMMA NthFilled ==
    ASSUME Attributes!AttributesAssumption, NEW n \in Attributes!Slot, n <= Attributes!Cardinality(Attributes!Filled)
    PROVE  Attributes!Nth(n) \in Attributes!Filled /\ Attributes!Cardinality({j \in Attributes!Filled : j <= Attributes!Nth(n)}) = n
  <1>1. n \in Nat /\ n # 0
    BY SlotsAreNumbers
  <1>2. Attributes!Filled \subseteq Attributes!Slot
    BY DEF Attributes!Filled
  <1>3. n <= Cardinality(Attributes!Filled)
    BY SameCardinality
  <1>4. \E i \in Attributes!Filled : Cardinality({j \in Attributes!Filled : j <= i}) = n
    BY <1>1, <1>2, <1>3, NthThere
  <1>5. \E i \in Attributes!Filled : Attributes!Cardinality({j \in Attributes!Filled : j <= i}) = n
    <2>1. PICK i \in Attributes!Filled : Cardinality({j \in Attributes!Filled : j <= i}) = n
      BY <1>4
    <2> DEFINE U == {j \in Attributes!Filled : j <= i}
    <2>2. Attributes!Cardinality(U) = Cardinality(U)
      BY SameCardinality
    <2> QED BY <2>1, <2>2
  <1> QED BY <1>5 DEF Attributes!Nth

(* In a table without gaps the slots that are filled are the first ones, and the n-th of them
   is n. *)
LEMMA FilledFirst ==
    ASSUME Attributes!AttributesAssumption, Tight(f0_table)
    PROVE  /\ \A n \in Attributes!Slot : n \in Attributes!Filled <=> n <= Attributes!Cardinality(Attributes!Filled)
           /\ \A n \in Attributes!Slot : n <= Attributes!Cardinality(Attributes!Filled) => Attributes!Nth(n) = n
  <1> DEFINE S == {i \in 1..(Entries + 1) : i \notin Attributes!Filled}
  <1>1. Entries \in Nat /\ Attributes!Slot = 1..Entries /\ Attributes!Filled \subseteq Attributes!Slot
    BY SlotsAreNumbers DEF Attributes!Slot, Attributes!Filled
  <1>2. \E i \in S : \A j \in S : i <= j
    <2>1. S \subseteq Nat
      BY <1>1
    <2>2. Entries + 1 \in S
      BY <1>1
    <2> HIDE DEF S
    <2> QED BY <2>1, <2>2, LeastNatural
  <1>3. PICK m \in S : \A j \in S : m <= j
    BY <1>2
  <1>4. m \in Nat /\ m >= 1 /\ m <= Entries + 1 /\ m \notin Attributes!Filled
    BY <1>1, <1>3
  <1>5. ASSUME NEW i \in 1..(m - 1)
        PROVE  i \in Attributes!Filled
    <2>1. i \in 1..(Entries + 1) /\ ~(m <= i)
      BY <1>1, <1>4
    <2>2. i \notin S
      BY <1>3, <2>1
    <2> QED BY <2>1, <2>2
  <1>6. ASSUME NEW i \in Attributes!Filled
        PROVE  i \in 1..(m - 1)
    <2>1. i \in Attributes!Slot /\ f0_table[i].index # Attributes!None /\ i \in Nat /\ i >= 1 /\ i <= Entries
      BY <1>1 DEF Attributes!Filled
    <2>2. CASE m < i
      <3>1. m \in Attributes!Slot
        BY <1>1, <1>4, <2>1, <2>2
      <3>2. f0_table[m].index # Attributes!None
        BY <2>1, <2>2, <3>1 DEF Tight
      <3> QED BY <1>4, <3>1, <3>2 DEF Attributes!Filled
    <2>3. CASE m = i
      BY <1>4, <2>3
    <2> QED BY <1>4, <2>1, <2>2, <2>3
  <1>7. Attributes!Filled = 1..(m - 1)
    BY <1>5, <1>6
  <1>8. Attributes!Cardinality(Attributes!Filled) = m - 1
    <2>1. Cardinality(1..(m - 1)) = m - 1
      <3>1. m - 1 \in Int /\ 1 \in Int
        BY <1>4
      <3>2. Cardinality(1..(m - 1)) = IF 1 > m - 1 THEN 0 ELSE (m - 1) - 1 + 1
        BY <3>1, FS_Interval
      <3> QED BY <1>4, <3>2
    <2> QED BY <1>7, <2>1, SameCardinality
  <1>9. \A n \in Attributes!Slot : n \in Attributes!Filled <=> n <= Attributes!Cardinality(Attributes!Filled)
    BY <1>1, <1>4, <1>7, <1>8
  <1>10. ASSUME NEW n \in Attributes!Slot, n <= Attributes!Cardinality(Attributes!Filled)
         PROVE  Attributes!Nth(n) = n
    <2>1. Attributes!Nth(n) \in Attributes!Filled /\ Attributes!Cardinality({j \in Attributes!Filled : j <= Attributes!Nth(n)}) = n
      BY <1>10, NthFilled
    <2> DEFINE k == Attributes!Nth(n)
               U == {j \in Attributes!Filled : j <= k}
    <2>2. k \in 1..(m - 1) /\ Attributes!Cardinality(U) = n
      BY <1>7, <2>1
    <2> HIDE DEF k
    <2>3. U = 1..k
      BY <1>4, <1>7, <2>2
    <2>4. Cardinality(1..k) = k
      <3>1. k \in Int /\ 1 \in Int /\ k >= 1
        BY <1>4, <2>2
      <3>2. Cardinality(1..k) = IF 1 > k THEN 0 ELSE k - 1 + 1
        BY <3>1, FS_Interval
      <3> QED BY <3>1, <3>2
    <2>5. Attributes!Cardinality(U) = Cardinality(U)
      BY SameCardinality
    <2> QED BY <2>2, <2>3, <2>4, <2>5 DEF k
  <1> QED BY <1>9, <1>10

LEMMA TableInit ==
    ASSUME Attributes!AttributesAssumption, Attributes!Init
    PROVE  TableInv
  BY EmptyTable DEF Attributes!Init, TableInv

LEMMA TableStored ==
    ASSUME Attributes!AttributesAssumption, TableInv, NEW index \in Attributes!Slot, NEW f0 \in Resonances,
           Attributes!DynF0ValStore(index, f0)
    PROVE  TableInv'
  <1> DEFINE i == Attributes!First(Attributes!Place(index))
  <1>1. Attributes!Place(index) = Goes(dynamic_f0, index) /\ Attributes!Place(index) # {}
    BY DEF Attributes!DynF0ValStore, Attributes!Place, Goes
  <1>2. i \in Attributes!Slot
    BY <1>1, GoesToSlot
  <1>3. /\ dynamic_f0' = Attributes!Changes(dynamic_f0, i, index, f0)
        /\ f0_table' = Attributes!Changes(f0_table, i, index, f0)
        /\ apart' = (apart \/ unread) /\ unread' = unread
    BY Zenon DEF Attributes!DynF0ValStore
  <1>4. dynamic_f0 \in [Attributes!Slot -> Entry] /\ f0_table \in [Attributes!Slot -> Entry]
    BY DEF TableInv
  <1>5. dynamic_f0' \in [Attributes!Slot -> Entry] /\ f0_table' \in [Attributes!Slot -> Entry]
    BY <1>2, <1>3, <1>4, EntryChanged
  <1>6. /\ \A j \in Attributes!Slot : dynamic_f0'[j].index = Attributes!None => dynamic_f0'[j].f0 = 0
        /\ \A j \in Attributes!Slot : f0_table'[j].index = Attributes!None => f0_table'[j].f0 = 0
    BY <1>2, <1>3, <1>4, NothingLeft DEF TableInv
  <1>7. ASSUME ~apart'
        PROVE  Tight(f0_table') /\ dynamic_f0' = f0_table'
    <2>1. ~apart /\ ~unread
      BY <1>3, <1>7
    <2>2. dynamic_f0 = f0_table /\ Tight(f0_table)
      BY <2>1 DEF TableInv
    <2> QED BY <1>1, <1>3, <1>4, <2>2, TightChanged
  <1>8. unread' \in BOOLEAN /\ apart' \in BOOLEAN
    BY <1>3, Zenon DEF TableInv
  <1> QED BY <1>5, <1>6, <1>7, <1>8 DEF TableInv

LEMMA TableMeasured ==
    ASSUME Attributes!AttributesAssumption, TableInv, NEW index \in Attributes!Slot, NEW f0 \in Resonances,
           Attributes!DspMeasures(index, f0)
    PROVE  TableInv'
  <1> DEFINE i == Attributes!First(Goes(f0_table, index))
  <1>1. Goes(f0_table, index) # {}
    BY DEF Attributes!DspMeasures, Goes
  <1>2. i \in Attributes!Slot /\ (f0_table[i].index = index \/ f0_table[i].index = Attributes!None)
    BY <1>1, GoesToSlot
  <1>3. /\ f0_table' = Attributes!Changes(f0_table, i, index, f0)
        /\ apart' = apart /\ unread' = TRUE /\ dynamic_f0' = dynamic_f0
    BY Zenon DEF Attributes!DspMeasures, Goes
  <1>4. f0_table \in [Attributes!Slot -> Entry]
    BY DEF TableInv
  <1>5. f0_table' \in [Attributes!Slot -> Entry]
    BY <1>2, <1>3, <1>4, EntryChanged
  <1>6. \A j \in Attributes!Slot : f0_table'[j].index = Attributes!None => f0_table'[j].f0 = 0
    BY <1>2, <1>3, <1>4, NothingLeft DEF TableInv
  <1>7. ASSUME ~apart
        PROVE  /\ Tight(f0_table')
               /\ \A j \in Attributes!Slot : dynamic_f0[j].index # Attributes!None =>
                      f0_table'[j].index = dynamic_f0[j].index
    <2>1. Tight(f0_table')
      BY <1>1, <1>3, <1>4, <1>7, TightChanged DEF TableInv
    <2> HIDE DEF i
    <2>2. f0_table'[i].index = index /\ \A j \in Attributes!Slot \ {i} : f0_table'[j] = f0_table[j]
      BY <1>2, <1>3, <1>4, EntryChanged
    <2>3. \A j \in Attributes!Slot : dynamic_f0[j].index # Attributes!None => f0_table[j].index = dynamic_f0[j].index
      BY <1>7 DEF TableInv
    <2> QED BY <1>2, <2>1, <2>2, <2>3
  <1> QED BY <1>3, <1>5, <1>6, <1>7 DEF TableInv

LEMMA TableRead ==
    ASSUME Attributes!AttributesAssumption, TableInv, Attributes!ReadDynF0Table
    PROVE  TableInv'
  <1>1. /\ dynamic_f0' = [n \in Attributes!Slot |-> IF n <= Attributes!Cardinality(Attributes!Filled) THEN f0_table[Attributes!Nth(n)]
                                         ELSE dynamic_f0[n]]
        /\ unread' = FALSE /\ f0_table' = f0_table /\ apart' = apart
    BY Zenon DEF Attributes!ReadDynF0Table
  <1>2. dynamic_f0 \in [Attributes!Slot -> Entry] /\ f0_table \in [Attributes!Slot -> Entry]
    BY DEF TableInv
  <1>3. \A n \in Attributes!Slot : n <= Attributes!Cardinality(Attributes!Filled) => Attributes!Nth(n) \in Attributes!Slot
    BY NthFilled DEF Attributes!Filled
  <1>4. dynamic_f0' \in [Attributes!Slot -> Entry]
    BY <1>1, <1>2, <1>3
  <1>5. \A n \in Attributes!Slot : dynamic_f0'[n].index = Attributes!None => dynamic_f0'[n].f0 = 0
    <2> SUFFICES ASSUME NEW n \in Attributes!Slot, dynamic_f0'[n].index = Attributes!None
                 PROVE  dynamic_f0'[n].f0 = 0
      OBVIOUS
    <2>1. \E k \in Attributes!Slot : dynamic_f0'[n] = f0_table[k] \/ dynamic_f0'[n] = dynamic_f0[k]
      BY <1>1, <1>3
    <2> QED BY <2>1 DEF TableInv
  <1>6. ASSUME ~apart
        PROVE  dynamic_f0' = f0_table
    <2>1. /\ Tight(f0_table)
          /\ \A i \in Attributes!Slot : dynamic_f0[i].index # Attributes!None => f0_table[i].index = dynamic_f0[i].index
      BY <1>6 DEF TableInv
    <2>2. ASSUME NEW n \in Attributes!Slot
          PROVE  dynamic_f0'[n] = f0_table[n]
      <3>1. CASE n <= Attributes!Cardinality(Attributes!Filled)
        BY <1>1, <2>1, <3>1, FilledFirst
      <3>2. CASE ~(n <= Attributes!Cardinality(Attributes!Filled))
        <4>1. n \notin Attributes!Filled
          BY <2>1, <3>2, FilledFirst
        <4>2. f0_table[n].index = Attributes!None
          BY <4>1 DEF Attributes!Filled
        <4>3. dynamic_f0[n].index = Attributes!None
          BY <2>1, <4>2
        <4>4. f0_table[n].f0 = 0 /\ dynamic_f0[n].f0 = 0
          BY <4>2, <4>3 DEF TableInv
        <4>5. f0_table[n] \in Entry /\ dynamic_f0[n] \in Entry
          BY <1>2
        <4>6. f0_table[n] = dynamic_f0[n]
          BY <4>2, <4>3, <4>4, <4>5 DEF Entry
        <4> QED BY <1>1, <3>2, <4>6
      <3> QED BY <3>1, <3>2
    <2> QED BY <1>2, <1>4, <2>2
  <1> QED BY <1>1, <1>2, <1>4, <1>5, <1>6 DEF TableInv

LEMMA TableElsewhere ==
    ASSUME TableInv, UNCHANGED Attributes!f0_vars
    PROVE  TableInv'
  <1>1. dynamic_f0' = dynamic_f0 /\ f0_table' = f0_table /\ unread' = unread /\ apart' = apart
    BY DEF Attributes!f0_vars
  <1> QED BY <1>1 DEF TableInv

LEMMA TableLost ==
    ASSUME Attributes!AttributesAssumption, TableInv, Attributes!Lose \/ Attributes!FwSwap
    PROVE  TableInv'
  <1>1. f0_table' = Attributes!Empty /\ apart' = TRUE /\ dynamic_f0' = dynamic_f0 /\ unread' = unread
    BY Zenon DEF Attributes!Lose, Attributes!FwSwap
  <1> QED BY <1>1, EmptyTable DEF TableInv

LEMMA TableHeld ==
    ASSUME Attributes!AttributesAssumption, TableInv
    PROVE  Attributes!ResonancesShown
  <1> SUFFICES ASSUME ~unread, ~apart, NEW index \in Attributes!Slot
               PROVE  /\ Attributes!Cardinality(Attributes!With(dynamic_f0, index)) <= 1
                      /\ {dynamic_f0[i] : i \in Attributes!With(dynamic_f0, index)} =
                             {f0_table[i] : i \in Attributes!With(f0_table, index)}
    BY DEF Attributes!ResonancesShown
  <1>1. dynamic_f0 = f0_table /\ Tight(dynamic_f0)
    BY DEF TableInv
  <1>2. index # Attributes!None
    BY SlotsAreNumbers
  <1> DEFINE S == Attributes!With(dynamic_f0, index)
  <1>3. \A i, j \in S : i = j
    BY <1>1, <1>2 DEF Tight, Attributes!With
  <1> HIDE DEF S
  <1>4. S = {} \/ \E i : S = {i}
    BY <1>3
  <1>5. Cardinality(S) = 0 \/ Cardinality(S) = 1
    BY <1>4, FS_EmptySet, FS_Singleton
  <1>6. Attributes!Cardinality(S) <= 1
    <2>1. Attributes!Cardinality(S) = Cardinality(S)
      BY SameCardinality
    <2> QED BY <1>5, <2>1
  <1> QED BY <1>1, <1>6 DEF S

--------------------------------------------------------------------------------
(* An error that is left standing is counted as such, and no more is. *)
ErrorsInv ==
    /\ latched \in {"no", "new", "seen"} /\ stuck \in BOOLEAN
    /\ hw_err_count \in Nat /\ hw_err_count <= ErrorMax + 1
    /\ Attributes!Exhausted => latched = "seen"
    /\ latched = "seen" /\ ~stuck => Attributes!Exhausted

LEMMA ErrorsInit ==
    ASSUME Attributes!AttributesAssumption, Attributes!Init
    PROVE  ErrorsInv
  <1>1. latched = "no" /\ hw_err_count = 0 /\ stuck = FALSE
    BY DEF Attributes!Init
  <1>2. ErrorMax \in Nat
    BY DEF Attributes!AttributesAssumption
  <1>3. stuck \in BOOLEAN /\ ~stuck
    BY <1>1, Zenon
  <1>4. latched \in {"no", "new", "seen"} /\ latched # "seen"
    BY <1>1
  <1>5. hw_err_count \in Nat /\ hw_err_count <= ErrorMax + 1 /\ ~(hw_err_count > ErrorMax)
    BY <1>1, <1>2
  <1> QED BY <1>1, <1>3, <1>4, <1>5 DEF ErrorsInv, Attributes!Exhausted

LEMMA ErrorsStep ==
    ASSUME Attributes!AttributesAssumption, ErrorsInv,
           \/ Attributes!HwErrOccurs \/ Attributes!StartForgets
           \/ \E ok \in BOOLEAN : Attributes!HwErrChk(ok) \/ Attributes!HwErrCountStore(ok)
    PROVE  ErrorsInv'
  <1>c. ErrorMax \in Nat
    BY DEF Attributes!AttributesAssumption
  <1>1. CASE Attributes!HwErrOccurs
    BY <1>1 DEF Attributes!HwErrOccurs, ErrorsInv, Attributes!Exhausted
  <1>2. CASE Attributes!StartForgets
    BY <1>c, <1>2 DEF Attributes!StartForgets, Attributes!Forgotten, ErrorsInv,
         Attributes!Exhausted
  <1>3. ASSUME NEW ok \in BOOLEAN, Attributes!HwErrChk(ok)
        PROVE  ErrorsInv'
    <2>1. /\ latched = "new" /\ hw_err_count' = hw_err_count + 1 /\ hw_err_count <= ErrorMax
      BY <1>c, <1>3 DEF Attributes!HwErrChk, ErrorsInv, Attributes!Exhausted
    <2>2. CASE hw_err_count >= ErrorMax
      <3>1. latched' = "seen" /\ stuck' = stuck
        BY <1>3, <2>2 DEF Attributes!HwErrChk
      <3> QED BY <1>c, <2>1, <2>2, <3>1 DEF ErrorsInv, Attributes!Exhausted
    <2>3. CASE ~(hw_err_count >= ErrorMax)
      <3>1. latched' = (IF ok THEN "no" ELSE "seen") /\ stuck' = ~ok
        BY <1>3, <2>3 DEF Attributes!HwErrChk, Attributes!HwErrRls
      <3>2. ~(hw_err_count' > ErrorMax) /\ hw_err_count' \in Nat /\ hw_err_count' <= ErrorMax + 1
        BY <1>c, <2>1, <2>3 DEF ErrorsInv
      <3>3. CASE ok
        BY <3>1, <3>2, <3>3 DEF ErrorsInv, Attributes!Exhausted
      <3>4. CASE ~ok
        BY <3>1, <3>2, <3>4 DEF ErrorsInv, Attributes!Exhausted
      <3> QED BY <3>3, <3>4
    <2> QED BY <2>2, <2>3
  <1>4. ASSUME NEW ok \in BOOLEAN, Attributes!HwErrCountStore(ok)
        PROVE  ErrorsInv'
    <2>1. CASE Attributes!Exhausted
      <3>1. latched' = (IF ok THEN "no" ELSE "seen") /\ stuck' = ~ok
        BY <1>4, <2>1 DEF Attributes!HwErrCountStore, Attributes!HwErrRls
      <3>2. CASE ok
        <4>1. hw_err_count' = 0
          BY <1>4, <3>2 DEF Attributes!HwErrCountStore
        <4> QED BY <1>c, <3>1, <3>2, <4>1 DEF ErrorsInv, Attributes!Exhausted
      <3>3. CASE ~ok
        <4>1. hw_err_count' = hw_err_count
          BY <1>4, <2>1, <3>3 DEF Attributes!HwErrCountStore
        <4> QED BY <1>c, <2>1, <3>1, <3>3, <4>1 DEF ErrorsInv, Attributes!Exhausted
      <3> QED BY <3>2, <3>3
    <2>2. CASE ~Attributes!Exhausted
      <3>1. latched' = latched /\ stuck' = stuck /\ hw_err_count' = 0
        BY <1>4, <2>2 DEF Attributes!HwErrCountStore
      <3> QED BY <1>c, <2>2, <3>1 DEF ErrorsInv, Attributes!Exhausted
    <2> QED BY <2>1, <2>2
  <1> QED BY <1>1, <1>2, <1>3, <1>4

LEMMA ErrorsElsewhere ==
    ASSUME ErrorsInv, UNCHANGED Attributes!error_vars
    PROVE  ErrorsInv'
  <1>1. latched' = latched /\ hw_err_count' = hw_err_count /\ stuck' = stuck
    BY DEF Attributes!error_vars
  <1> QED BY <1>1 DEF ErrorsInv, Attributes!Exhausted

--------------------------------------------------------------------------------
AttributesInv == WordsInv /\ TableInv /\ ErrorsInv

LEMMA AttributesInit ==
    ASSUME Attributes!AttributesAssumption, Attributes!Init
    PROVE  AttributesInv
  BY WordsInit, TableInit, ErrorsInit, Zenon DEF AttributesInv

LEMMA AttributesStep ==
    ASSUME Attributes!AttributesAssumption, AttributesInv, [Attributes!Next]_attribute_vars
    PROVE  AttributesInv'
  <1> USE DEF AttributesInv
  <1>1. ASSUME NEW a \in pair, NEW v \in Attributes!Tried(a), Attributes!Store(a, v)
        PROVE  AttributesInv'
    <2>1. UNCHANGED Attributes!f0_vars /\ UNCHANGED Attributes!error_vars
      BY <1>1, Zenon DEF Attributes!Store
    <2> QED BY <1>1, <2>1, WordsOfStore, TableElsewhere, ErrorsElsewhere
  <1>2. CASE Attributes!Lose \/ Attributes!FwSwap
    <2>1. UNCHANGED Attributes!error_vars
      BY <1>2, Zenon DEF Attributes!Lose, Attributes!FwSwap
    <2> QED BY <1>2, <2>1, WordsOfChip, TableLost, ErrorsElsewhere
  <1>3. CASE Attributes!Recover
    <2>1. UNCHANGED Attributes!f0_vars /\ UNCHANGED Attributes!error_vars
      BY <1>3, Zenon DEF Attributes!Recover
    <2> QED BY <1>3, <2>1, WordsOfChip, TableElsewhere, ErrorsElsewhere
  <1>4. ASSUME NEW i \in Attributes!Slot, NEW f0 \in Resonances, Attributes!DynF0ValStore(i, f0) \/ Attributes!DspMeasures(i, f0)
        PROVE  AttributesInv'
    <2>1. UNCHANGED Attributes!attr_vars /\ UNCHANGED Attributes!error_vars
      BY <1>4, Zenon DEF Attributes!DynF0ValStore, Attributes!DspMeasures
    <2> QED BY <1>4, <2>1, WordsElsewhere, TableStored, TableMeasured, ErrorsElsewhere
  <1>5. CASE Attributes!ReadDynF0Table
    <2>1. UNCHANGED Attributes!attr_vars /\ UNCHANGED Attributes!error_vars
      BY <1>5, Zenon DEF Attributes!ReadDynF0Table
    <2> QED BY <1>5, <2>1, WordsElsewhere, TableRead, ErrorsElsewhere
  <1>6. CASE \/ Attributes!HwErrOccurs \/ Attributes!StartForgets
             \/ \E ok \in BOOLEAN : Attributes!HwErrChk(ok) \/ Attributes!HwErrCountStore(ok)
    <2>1. UNCHANGED Attributes!attr_vars /\ UNCHANGED Attributes!f0_vars
      BY <1>6, Zenon DEF Attributes!HwErrOccurs, Attributes!StartForgets, Attributes!HwErrChk,
           Attributes!HwErrCountStore
    <2> QED BY <1>6, <2>1, WordsElsewhere, TableElsewhere, ErrorsStep
  <1>7. CASE UNCHANGED attribute_vars
    <2>1. UNCHANGED Attributes!attr_vars /\ UNCHANGED Attributes!f0_vars /\ UNCHANGED Attributes!error_vars
      BY <1>7, Zenon DEF attribute_vars, Attributes!attr_vars, Attributes!f0_vars,
           Attributes!error_vars
    <2> QED BY <2>1, WordsElsewhere, TableElsewhere, ErrorsElsewhere
  <1> QED BY <1>1, <1>2, <1>3, <1>4, <1>5, <1>6, <1>7, Zenon DEF Attributes!Next,
       Attributes!TableOrErrors

LEMMA AttributesSafe ==
    ASSUME Attributes!AttributesAssumption, AttributesInv
    PROVE  Attributes!TypeOK /\ Attributes!InForce /\ Attributes!ResonancesShown /\ Attributes!GivenUpShown
  <1> USE DEF AttributesInv
  <1>1. Attributes!TypeOK
    <2>1. /\ \A w \in Attributes!Words : memory[w] \in [Attributes!FieldsOf(w) -> Nat]
          /\ \A w \in DOMAIN dsp_cache : dsp_cache[w] \in [Attributes!FieldsOf(w) -> Nat]
      BY DEF WordsInv, Memories, Caches
    <2>2. /\ pair \in Pairs /\ lost \in BOOLEAN /\ blind \in BOOLEAN
          /\ wanted \in [pair -> Nat \cup {Attributes!None}]
      BY DEF WordsInv
    <2>3. /\ dynamic_f0 \in [Attributes!Slot -> [index : Attributes!Slot \cup {Attributes!None}, f0 : Resonances \cup {0}]]
          /\ f0_table \in [Attributes!Slot -> [index : Attributes!Slot \cup {Attributes!None}, f0 : Resonances \cup {0}]]
          /\ unread \in BOOLEAN /\ apart \in BOOLEAN
      BY DEF TableInv, Entry
    <2>4. /\ latched \in {"no", "new", "seen"} /\ stuck \in BOOLEAN
      BY DEF ErrorsInv
    <2>5. hw_err_count \in 0 .. ErrorMax + 1
      BY DEF ErrorsInv, Attributes!AttributesAssumption
    <2> QED BY <2>1, <2>2, <2>3, <2>4, <2>5, Zenon DEF Attributes!TypeOK
  <1>2. Attributes!InForce /\ Attributes!ResonancesShown
    BY WordsHeld, TableHeld
  <1>3. Attributes!GivenUpShown
    BY DEF ErrorsInv, Attributes!GivenUpShown
  <1> QED BY <1>1, <1>2, <1>3, Zenon

(* The initial functions and the places of the works are of their types. *)
LEMMA InitialTyped ==
    /\ Calib!All(0) \in Calib!Levels /\ Calib!All(FALSE) \in Calib!Flags /\ Calib!All("none") \in Calib!Outcomes
    /\ 1 \in Calib!Speakers /\ 2 \in Calib!Speakers
    /\ "idle" \in Calib!CalibSteps /\ "init" \in Calib!CalibSteps /\ "measure" \in Calib!CalibSteps
    /\ "deinit" \in Calib!CalibSteps /\ "save" \in Calib!CalibSteps /\ "finish" \in Calib!CalibSteps
    /\ "restore" \in Calib!CalibSteps
  BY DEF Calib!All, Calib!Levels, Calib!Flags, Calib!Outcomes, Calib!Results, Calib!Speakers,
       Calib!MAX_CHANNELS, Calib!CalibSteps

(* One speaker's entry may change. *)
LEMMA CalibEntry ==
    ASSUME NEW c \in Calib!CalibStates, NEW s \in Calib!Speakers
    PROVE  /\ \A r \in Calib!Results, p \in Calib!CalibSteps :
                [c EXCEPT !.result[s] = r, !.at = p] \in Calib!CalibStates
           /\ \A n \in Nat, p \in Calib!CalibSteps, r \in Calib!Results :
                [c EXCEPT !.re[s] = n, !.at = p, !.result[s] = r] \in Calib!CalibStates
  BY DEF Calib!CalibStates, Calib!Outcomes, Calib!Levels

LEMMA DspEntry ==
    ASSUME NEW d \in Calib!DspStates, NEW s \in Calib!Speakers
    PROVE  /\ \A b \in BOOLEAN : [d EXCEPT !.calib[s] = b] \in Calib!DspStates
           /\ \A b \in BOOLEAN : [d EXCEPT !.valid[s] = b] \in Calib!DspStates
           /\ \A n \in Nat : [d EXCEPT !.re[s] = n] \in Calib!DspStates
           /\ \A n \in Nat : [d EXCEPT !.temp[s] = n] \in Calib!DspStates
  BY DEF Calib!DspStates, Calib!Levels, Calib!Flags

LEMMA StoredEntry ==
    ASSUME NEW u \in Calib!Stored, NEW s \in Calib!Speakers, NEW n \in Nat
    PROVE  /\ [u EXCEPT !.re[s] = n, !.since = @ \cup {s}] \in Calib!Stored
           /\ [u EXCEPT !.temp[s] = n, !.update[s] = TRUE, !.since = @ \cup {s}] \in Calib!Stored
           /\ u.re[s] \in Nat /\ u.temp[s] \in Nat
  BY DEF Calib!Stored, Calib!Levels, Calib!Flags

LEMMA NextSpeakerTyped ==
    ASSUME NEW w \in Calib!CalibStates
    PROVE  Calib!NextSpeaker(w) \in Calib!CalibStates
  <1>1. CASE w.ch < Calib!MAX_CHANNELS
    <2>1. w.ch + 1 \in Calib!Speakers
      BY <1>1 DEF Calib!CalibStates, Calib!Speakers, Calib!MAX_CHANNELS
    <2> QED BY <1>1, <2>1, InitialTyped DEF Calib!NextSpeaker, Calib!CalibStates
  <1>2. CASE ~(w.ch < Calib!MAX_CHANNELS)
    <2>1. [w EXCEPT !.round = w.round + 1, !.ch = 1, !.at = "init"] \in Calib!CalibStates
      <3>1. w.round + 1 \in Nat
        BY DEF Calib!CalibStates
      <3>2. \A n \in Nat, c \in Calib!Speakers, p \in Calib!CalibSteps :
              [w EXCEPT !.round = n, !.ch = c, !.at = p] \in Calib!CalibStates
        BY DEF Calib!CalibStates
      <3> QED BY <3>1, <3>2, InitialTyped
    <2>2. [w EXCEPT !.at = "save"] \in Calib!CalibStates
      BY InitialTyped DEF Calib!CalibStates
    <2> QED BY <1>2, <2>1, <2>2 DEF Calib!NextSpeaker
  <1> QED BY <1>1, <1>2

(* What each kind of action changes keeps its type. *)
LEMMA CalibrationTyped ==
    ASSUME Calib!CalibAssumption, Calib!SharedTyped,
           \/ Calib!CalibrationStore \/ Calib!UpdateCalibrationLimits \/ Calib!CalibInit \/ Calib!GetRe
           \/ Calib!CalibDeinit \/ Calib!SaveCalibData \/ Calib!FinishCalib
    PROVE  calib' \in Calib!CalibStates /\ dsp' \in Calib!DspStates
  <1> USE DEF Calib!SharedTyped
  <1>1. CASE Calib!CalibrationStore
    BY <1>1 DEF Calib!CalibrationStore, Calib!CalibStates
  <1>2. CASE Calib!UpdateCalibrationLimits
    <2>1. PICK ok \in BOOLEAN :
            calib' = [calib EXCEPT !.pending = FALSE, !.result = Calib!All("none"), !.re = Calib!All(0),
                                   !.round = 1, !.ch = 1, !.at = IF ok THEN "init" ELSE "idle"]
      BY <1>2 DEF Calib!UpdateCalibrationLimits
    <2> DEFINE c == [calib EXCEPT !.pending = FALSE, !.result = Calib!All("none"), !.re = Calib!All(0)]
    <2>2. c \in Calib!CalibStates
      BY InitialTyped DEF Calib!CalibStates
    <2>3. calib' = [c EXCEPT !.round = 1, !.ch = 1, !.at = IF ok THEN "init" ELSE "idle"]
      BY <2>1
    <2> HIDE DEF c
    <2>4. calib' \in Calib!CalibStates
      BY <2>2, <2>3, InitialTyped DEF Calib!CalibStates
    <2> QED BY <1>2, <2>4 DEF Calib!UpdateCalibrationLimits
  <1>3. CASE Calib!CalibInit
    <2>1. calib' \in Calib!CalibStates
      BY <1>3, NextSpeakerTyped, InitialTyped DEF Calib!CalibInit, Calib!CalibStates
    <2>2. calib.ch \in Calib!Speakers
      BY DEF Calib!CalibStates
    <2>3. dsp' = dsp \/ \E b \in BOOLEAN : dsp' = [dsp EXCEPT !.calib[calib.ch] = b]
      BY <1>3, Zenon DEF Calib!CalibInit
    <2>4. dsp' \in Calib!DspStates
      BY <2>2, <2>3, DspEntry
    <2> QED BY <2>1, <2>4
  <1>4. CASE Calib!GetRe
    <2>1. \A rdc \in Measured : Calib!CheckLimits(rdc) \in Calib!Results
      BY DEF Calib!CheckLimits, Calib!Results
    <2>2. "fail" \in Calib!Results /\ Measured \subseteq Nat
      BY DEF Calib!Results, Calib!CalibAssumption
    <2>3. calib.ch \in Calib!Speakers
      BY DEF Calib!CalibStates
    <2>4. \/ calib' = [calib EXCEPT !.result[calib.ch] = "fail", !.at = "idle"]
          \/ \E rdc \in Measured :
                calib' = [calib EXCEPT !.re[calib.ch] = rdc, !.at = "deinit",
                                       !.result[calib.ch] = Calib!CheckLimits(rdc)]
      BY <1>4, Zenon DEF Calib!GetRe
    <2>5. calib \in Calib!CalibStates
      OBVIOUS
    <2>6. \A r \in Calib!Results : [calib EXCEPT !.result[calib.ch] = r, !.at = "idle"] \in Calib!CalibStates
      BY ONLY <2>3, <2>5, CalibEntry, InitialTyped
    <2>7. ASSUME NEW n \in Nat, NEW r \in Calib!Results
          PROVE  [calib EXCEPT !.re[calib.ch] = n, !.at = "deinit", !.result[calib.ch] = r]
                    \in Calib!CalibStates
      BY ONLY <2>3, <2>5, CalibEntry, InitialTyped
    <2>8. calib' \in Calib!CalibStates
      <3>1. CASE calib' = [calib EXCEPT !.result[calib.ch] = "fail", !.at = "idle"]
        BY ONLY <2>2, <2>6, <3>1, Zenon
      <3>2. ASSUME NEW rdc \in Measured,
                   calib' = [calib EXCEPT !.re[calib.ch] = rdc, !.at = "deinit",
                                          !.result[calib.ch] = Calib!CheckLimits(rdc)]
            PROVE  calib' \in Calib!CalibStates
        <4>1. rdc \in Nat /\ Calib!CheckLimits(rdc) \in Calib!Results
          BY <2>1, <2>2
        <4> QED BY ONLY <2>7, <3>2, <4>1, Zenon
      <3> QED BY ONLY <2>4, <3>1, <3>2, Zenon
    <2> QED BY <1>4, <2>8 DEF Calib!GetRe
  <1>5. CASE Calib!CalibDeinit
    <2>1. calib' \in Calib!CalibStates
      BY <1>5, NextSpeakerTyped, InitialTyped DEF Calib!CalibDeinit, Calib!CalibStates
    <2>2. calib.ch \in Calib!Speakers
      BY DEF Calib!CalibStates
    <2>3. \E b \in BOOLEAN : dsp' = [dsp EXCEPT !.calib[calib.ch] = b]
      BY <1>5, Zenon DEF Calib!CalibDeinit
    <2>4. dsp' \in Calib!DspStates
      BY <2>2, <2>3, DspEntry
    <2> QED BY <2>1, <2>4
  <1>6. CASE Calib!SaveCalibData \/ Calib!FinishCalib
    BY <1>6, InitialTyped DEF Calib!SaveCalibData, Calib!FinishCalib, Calib!CalibStates
  <1> QED BY <1>1, <1>2, <1>3, <1>4, <1>5, <1>6

LEMMA ValidationTyped ==
    ASSUME Calib!SharedTyped, Calib!ValidationStore \/ Calib!ValidWorkStart \/ Calib!GetValidStatus \/ Calib!ValidDeinit
    PROVE  valid' \in Calib!ValidStates /\ dsp' \in Calib!DspStates
  <1> USE DEF Calib!SharedTyped
  <1>1. CASE Calib!ValidationStore
    <2>1. valid.store + 1 \in Calib!Speakers
      BY DEF Calib!ValidStates, Calib!Speakers, Calib!MAX_CHANNELS
    <2>2. PICK ok \in BOOLEAN :
            /\ dsp' = [dsp EXCEPT !.valid[valid.store + 1] = @ \/ ok]
            /\ valid' = CASE ~ok -> [valid EXCEPT !.store = 0]
                          [] ok /\ valid.store + 1 = Calib!MAX_CHANNELS ->
                                [valid EXCEPT !.store = 0, !.running = TRUE, !.pending = TRUE]
                          [] OTHER -> [valid EXCEPT !.store = valid.store + 1]
      BY <1>1, Zenon DEF Calib!ValidationStore
    <2>3. dsp' \in Calib!DspStates
      <3>1. \E b \in BOOLEAN : dsp' = [dsp EXCEPT !.valid[valid.store + 1] = b]
        BY <2>2, Zenon
      <3> QED BY <2>1, <3>1, DspEntry
    <2>4. \/ valid' = [valid EXCEPT !.store = 0]
          \/ valid' = [valid EXCEPT !.store = 0, !.running = TRUE, !.pending = TRUE]
          \/ valid' = [valid EXCEPT !.store = valid.store + 1]
             /\ valid.store + 1 # Calib!MAX_CHANNELS
      BY <2>2, Zenon
    <2>5. valid.store + 1 # Calib!MAX_CHANNELS => valid.store + 1 \in {0, 1}
      BY DEF Calib!ValidStates, Calib!MAX_CHANNELS
    <2>6. valid' \in Calib!ValidStates
      BY <2>4, <2>5 DEF Calib!ValidStates
    <2> QED BY <2>3, <2>6
  <1>2. CASE Calib!ValidWorkStart
    BY <1>2, InitialTyped DEF Calib!ValidWorkStart, Calib!ValidStates
  <1>3. CASE Calib!GetValidStatus
    <2>1. "success" \in Calib!Results /\ "fail" \in Calib!Results
      BY DEF Calib!Results
    <2>2. valid.ch \in Calib!Speakers
      BY DEF Calib!ValidStates
    <2>3. \A r \in Calib!Results : [valid EXCEPT !.result[valid.ch] = r, !.at = "deinit"] \in Calib!ValidStates
      BY <2>2 DEF Calib!ValidStates, Calib!Outcomes
    <2> QED BY <1>3, <2>1, <2>3 DEF Calib!GetValidStatus
  <1>4. CASE Calib!ValidDeinit
    <2>1. valid.ch < Calib!MAX_CHANNELS => valid.ch + 1 \in Calib!Speakers
      BY DEF Calib!ValidStates, Calib!Speakers, Calib!MAX_CHANNELS
    <2>2. valid' \in Calib!ValidStates
      BY <1>4, <2>1 DEF Calib!ValidDeinit, Calib!ValidStates
    <2>3. valid.ch \in Calib!Speakers
      BY DEF Calib!ValidStates
    <2>4. \E b \in BOOLEAN : dsp' = [dsp EXCEPT !.valid[valid.ch] = b]
      BY <1>4, Zenon DEF Calib!ValidDeinit
    <2>5. dsp' \in Calib!DspStates
      BY <2>3, <2>4, DspEntry
    <2> QED BY <2>2, <2>5
  <1> QED BY <1>1, <1>2, <1>3, <1>4

LEMMA StreamTyped ==
    ASSUME Calib!SharedTyped,
           \/ Calib!RdcStore \/ Calib!AmbTempStore \/ Calib!StartAlgoProcessing \/ Calib!SendAlgoCalibration
           \/ Calib!StopAlgoProcessing
    PROVE  user' \in Calib!Stored /\ stream' \in Calib!StreamStates /\ dsp' \in Calib!DspStates
  <1> USE DEF Calib!SharedTyped
  <1>1. CASE Calib!RdcStore \/ Calib!AmbTempStore
    <2>1. PICK s \in Calib!Speakers :
            \/ user' = [user EXCEPT !.re[s] = requests', !.since = @ \cup {s}]
            \/ user' = [user EXCEPT !.temp[s] = requests', !.update[s] = TRUE,
                                    !.since = @ \cup {s}]
      BY <1>1 DEF Calib!RdcStore, Calib!AmbTempStore
    <2>2. requests' \in Nat
      <3>1. Calib!Ask
        BY <1>1, Zenon DEF Calib!RdcStore, Calib!AmbTempStore
      <3> QED BY <3>1 DEF Calib!Ask
    <2>3. user' \in Calib!Stored
      <3> DEFINE n == requests'
      <3>1. \/ user' = [user EXCEPT !.re[s] = n, !.since = @ \cup {s}]
            \/ user' = [user EXCEPT !.temp[s] = n, !.update[s] = TRUE,
                                    !.since = @ \cup {s}]
        BY <2>1, Zenon
      <3>2. n \in Nat
        BY <2>2
      <3> HIDE DEF n
      <3>3. user \in Calib!Stored
        OBVIOUS
      <3> QED BY ONLY <3>1, <3>2, <3>3, s \in Calib!Speakers, StoredEntry
    <2> QED BY <1>1, <2>3 DEF Calib!RdcStore, Calib!AmbTempStore
  <1>2. CASE Calib!StartAlgoProcessing \/ Calib!StopAlgoProcessing
    BY <1>2, InitialTyped DEF Calib!StartAlgoProcessing, Calib!StopAlgoProcessing,
         Calib!Stored, Calib!StreamStates
  <1>3. CASE Calib!SendAlgoCalibration
    <2>1. stream.ch < Calib!MAX_CHANNELS => stream.ch + 1 \in Calib!Speakers
      BY DEF Calib!StreamStates, Calib!Speakers, Calib!MAX_CHANNELS
    <2>2. Calib!NextSent \in Calib!StreamStates
      BY <2>1 DEF Calib!NextSent, Calib!StreamStates
    <2>3. stream' \in Calib!StreamStates
      BY <1>3, <2>2 DEF Calib!SendAlgoCalibration, Calib!StreamStates
    <2>4. stream.ch \in Calib!Speakers
      BY DEF Calib!StreamStates
    <2>5. user.re[stream.ch] \in Nat /\ user.temp[stream.ch] \in Nat
      BY <2>4, StoredEntry
    <2>6. \/ dsp' = dsp
          \/ dsp' = [dsp EXCEPT !.temp[stream.ch] = user.temp[stream.ch]]
          \/ dsp' = [dsp EXCEPT !.re[stream.ch] = user.re[stream.ch]]
      BY <1>3, Zenon DEF Calib!SendAlgoCalibration
    <2>7. dsp' \in Calib!DspStates
      BY <2>4, <2>5, <2>6, DspEntry
    <2> QED BY <1>3, <2>3, <2>7 DEF Calib!SendAlgoCalibration
  <1> QED BY <1>1, <1>2, <1>3

(* The state starts with its types and keeps them, for all constants the algorithm may
   have. *)
LEMMA SpeakersTypedInit ==
    ASSUME Calib!Init
    PROVE  Calib!SharedTyped
  <1>1. calib \in Calib!CalibStates
    BY InitialTyped DEF Calib!Init, Calib!CalibStates
  <1>2. valid \in Calib!ValidStates /\ user \in Calib!Stored /\ stream \in Calib!StreamStates
    BY InitialTyped DEF Calib!Init, Calib!ValidStates, Calib!Stored, Calib!StreamStates
  <1>3. dsp \in Calib!DspStates
    BY InitialTyped DEF Calib!Init, Calib!DspStates
  <1> QED BY <1>1, <1>2, <1>3 DEF Calib!Init, Calib!SharedTyped

LEMMA SpeakersTypedStep ==
    ASSUME Calib!CalibAssumption, Calib!SharedTyped, [Calib!Next]_calib_vars
    PROVE  Calib!SharedTyped'
  <1> USE DEF Calib!SharedTyped
  <1>1. calib' \in Calib!CalibStates
    <2>1. \/ \/ Calib!CalibrationStore \/ Calib!UpdateCalibrationLimits \/ Calib!CalibInit \/ Calib!GetRe
             \/ Calib!CalibDeinit \/ Calib!SaveCalibData \/ Calib!FinishCalib
          \/ calib' = calib
      BY Zenon DEF Calib!Next, calib_vars, Calib!ValidationStore, Calib!ValidWorkStart,
           Calib!GetValidStatus, Calib!ValidDeinit,
                   Calib!RdcStore, Calib!AmbTempStore, Calib!StartAlgoProcessing,
                   Calib!SendAlgoCalibration,
                   Calib!StopAlgoProcessing, Calib!ExcMaxShow, Calib!Rounding
    <2> QED BY <2>1, CalibrationTyped
  <1>2. valid' \in Calib!ValidStates
    <2>1. \/ Calib!ValidationStore \/ Calib!ValidWorkStart \/ Calib!GetValidStatus \/ Calib!ValidDeinit
          \/ valid' = valid
      BY Zenon DEF Calib!Next, calib_vars, Calib!CalibrationStore,
           Calib!UpdateCalibrationLimits, Calib!CalibInit, Calib!GetRe,
                   Calib!CalibDeinit, Calib!SaveCalibData, Calib!FinishCalib, Calib!RdcStore,
                   Calib!AmbTempStore,
                   Calib!StartAlgoProcessing, Calib!SendAlgoCalibration,
                   Calib!StopAlgoProcessing, Calib!ExcMaxShow,
                   Calib!Rounding
    <2> QED BY <2>1, ValidationTyped
  <1>3. stream' \in Calib!StreamStates /\ user' \in Calib!Stored
    <2>1. \/ \/ Calib!RdcStore \/ Calib!AmbTempStore \/ Calib!StartAlgoProcessing \/ Calib!SendAlgoCalibration
             \/ Calib!StopAlgoProcessing
          \/ stream' = stream /\ user' = user
      BY Zenon DEF Calib!Next, calib_vars, Calib!CalibrationStore,
           Calib!UpdateCalibrationLimits, Calib!CalibInit, Calib!GetRe,
                   Calib!CalibDeinit, Calib!SaveCalibData, Calib!FinishCalib,
                   Calib!ValidationStore, Calib!ValidWorkStart,
                   Calib!GetValidStatus, Calib!ValidDeinit, Calib!ExcMaxShow, Calib!Rounding
    <2> QED BY <2>1, StreamTyped
  <1>4. dsp' \in Calib!DspStates
    <2>1. dsp' = dsp \/ ~(Calib!ExcMaxShow \/ Calib!Rounding \/ UNCHANGED calib_vars)
      BY Zenon DEF calib_vars, Calib!ExcMaxShow, Calib!Rounding
    <2> QED BY <2>1, CalibrationTyped, ValidationTyped, StreamTyped DEF Calib!Next
  <1>5. prepared' \in BOOLEAN /\ again' \in BOOLEAN
    BY Zenon DEF Calib!Next, calib_vars, Calib!CalibrationStore,
         Calib!UpdateCalibrationLimits, Calib!CalibInit, Calib!GetRe,
                 Calib!CalibDeinit, Calib!SaveCalibData, Calib!FinishCalib,
                 Calib!ValidationStore, Calib!ValidWorkStart,
                 Calib!GetValidStatus, Calib!ValidDeinit, Calib!RdcStore, Calib!AmbTempStore,
                 Calib!StartAlgoProcessing,
                 Calib!SendAlgoCalibration, Calib!StopAlgoProcessing, Calib!ExcMaxShow,
                 Calib!Rounding
  <1>6. requests' \in Nat
    <2>1. requests' = requests \/ requests' = requests + 1 \/ requests' = 1
      BY Zenon DEF Calib!Next, calib_vars, Calib!CalibrationStore,
           Calib!UpdateCalibrationLimits, Calib!CalibInit, Calib!GetRe,
                   Calib!CalibDeinit, Calib!SaveCalibData, Calib!FinishCalib,
                   Calib!ValidationStore, Calib!ValidWorkStart,
                   Calib!GetValidStatus, Calib!ValidDeinit, Calib!RdcStore,
                   Calib!AmbTempStore, Calib!StartAlgoProcessing,
                   Calib!SendAlgoCalibration, Calib!StopAlgoProcessing, Calib!ExcMaxShow,
                   Calib!Rounding, Calib!Ask
    <2> QED BY <2>1
  <1>7. failed' \in Nat
    <2>1. failed' = failed \/ \E ok \in BOOLEAN : Calib!Access(ok)
      BY Zenon DEF Calib!Next, calib_vars, Calib!CalibrationStore,
           Calib!UpdateCalibrationLimits, Calib!CalibInit, Calib!GetRe,
                   Calib!CalibDeinit, Calib!SaveCalibData, Calib!FinishCalib,
                   Calib!ValidationStore, Calib!ValidWorkStart,
                   Calib!GetValidStatus, Calib!ValidDeinit, Calib!RdcStore,
                   Calib!AmbTempStore, Calib!StartAlgoProcessing,
                   Calib!SendAlgoCalibration, Calib!StopAlgoProcessing, Calib!ExcMaxShow,
                   Calib!Rounding
    <2> QED BY <2>1 DEF Calib!Access
  <1> QED BY <1>1, <1>2, <1>3, <1>4, <1>5, <1>6, <1>7

CalibClean(S) == \A s \in S : ~dsp.calib[s]
ValidClean(S) == \A s \in S : ~dsp.valid[s]
Below(c) == {s \in Calib!Speakers : s < c}
Above(c) == {s \in Calib!Speakers : s > c}
Measuring == {"measure", "deinit"}

(* The calibration work shows as enabled until it is about to end, and a speaker is in
   calibration only while it is measured, or after a failure that leaves the status
   enabled: the first round measures each, because its results are forgotten. *)
CalibInv ==
    ~again =>
        /\ calib.pending => calib.at = "idle" /\ calib.status
        /\ calib.at \in Measuring \cup {"init", "save", "finish"} => calib.status
        /\ calib.at = "restore" => ~calib.status
        /\ prepared /\ ~calib.status => calib.at = "restore"
        /\ failed = 0 /\ calib.status => calib.pending \/ calib.at # "idle"
        /\ calib.round >= 1
        /\ calib.at \in Measuring \cup {"init"} =>
            CalibClean(IF calib.round = 1 THEN Below(calib.ch) ELSE Calib!Speakers \ {calib.ch})
        /\ calib.at = "init" =>
            IF calib.round = 1 THEN calib.result[calib.ch] = "none" ELSE CalibClean(Calib!Speakers)
        /\ calib.at \in Measuring \cup {"init"} /\ calib.round = 1 =>
            \A s \in Above(calib.ch) : calib.result[s] = "none"
        /\ calib.at \in {"save", "finish", "restore"} \/ ~calib.status => CalibClean(Calib!Speakers)

(* The validation work is under way as long as validation shows as running, and without a
   failure leaves one speaker clean after the other. *)
ValidInv ==
    ~again =>
        /\ ~(valid.pending /\ valid.at # "idle")
        /\ failed = 0 =>
            /\ valid.pending \/ valid.at # "idle" => valid.running /\ valid.store = 0
            /\ valid.running => valid.pending \/ valid.at # "idle"
            /\ valid.at # "idle" => ValidClean(Below(valid.ch))
            /\ ~valid.running /\ valid.store = 0 => ValidClean(Calib!Speakers)

(* What leaves the calibration work alone, and asks for it no more. *)
LEMMA CalibElsewhere ==
    ASSUME Calib!SharedTyped, CalibInv, calib' = calib, prepared' = prepared, dsp'.calib = dsp.calib,
           again => again', failed' = 0 => failed = 0
    PROVE  CalibInv'
  BY DEF CalibInv, CalibClean, Below, Above, Calib!Speakers, Calib!MAX_CHANNELS

LEMMA ValidElsewhere ==
    ASSUME ValidInv, valid' = valid, dsp'.valid = dsp.valid,
           again => again', failed' = 0 => failed = 0
    PROVE  ValidInv'
  BY DEF ValidInv, ValidClean, Below, Calib!Speakers, Calib!MAX_CHANNELS

(* A failure is never forgotten. *)
LEMMA FailuresCount ==
    ASSUME Calib!SharedTyped, NEW ok \in BOOLEAN, Calib!Access(ok)
    PROVE  failed' = 0 => failed = 0 /\ ok
  BY DEF Calib!SharedTyped, Calib!Access

(* The calibration work and its requests keep CalibInv. *)
LEMMA CalibrationKept ==
    ASSUME Calib!SharedTyped, CalibInv,
           \/ Calib!CalibrationStore \/ Calib!UpdateCalibrationLimits \/ Calib!CalibInit \/ Calib!GetRe
           \/ Calib!CalibDeinit \/ Calib!SaveCalibData \/ Calib!FinishCalib
    PROVE  CalibInv'
  <1> SUFFICES ASSUME ~again' PROVE CalibInv'
    BY DEF CalibInv
  <1>0. ~again
    BY Zenon DEF Calib!CalibrationStore, Calib!UpdateCalibrationLimits, Calib!CalibInit,
         Calib!GetRe, Calib!CalibDeinit,
                 Calib!SaveCalibData, Calib!FinishCalib
  <1> USE <1>0 DEF CalibInv, CalibClean, Below, Above, Calib!Speakers, Calib!MAX_CHANNELS,
       Measuring
  <1>t. calib \in Calib!CalibStates /\ dsp \in Calib!DspStates
    BY DEF Calib!SharedTyped
  <1>1. CASE Calib!CalibrationStore
    <2>1. calib.at = "idle" /\ dsp' = dsp /\ failed' = failed /\ prepared'
      BY <1>1 DEF Calib!CalibrationStore
    <2>2. /\ calib'.status /\ calib'.pending /\ calib'.at = calib.at
          /\ calib'.round = calib.round
      BY <1>1, <1>t DEF Calib!CalibrationStore, Calib!CalibStates
    <2> QED BY <2>1, <2>2
  <1>2. CASE Calib!UpdateCalibrationLimits
    <2>1. PICK ok \in BOOLEAN :
            /\ Calib!Access(ok)
            /\ calib' = [calib EXCEPT !.pending = FALSE, !.result = Calib!All("none"), !.re = Calib!All(0),
                                      !.round = 1, !.ch = 1,
                                      !.at = IF ok THEN "init" ELSE "idle"]
      BY <1>2, Zenon DEF Calib!UpdateCalibrationLimits
    <2>2. /\ calib.pending /\ calib.at = "idle" /\ dsp' = dsp /\ prepared' = prepared
          /\ failed' = 0 => failed = 0 /\ ok
      BY <1>2, <2>1, FailuresCount DEF Calib!UpdateCalibrationLimits
    <2> DEFINE c == [calib EXCEPT !.pending = FALSE, !.result = Calib!All("none"), !.re = Calib!All(0)]
    <2>3. /\ c \in Calib!CalibStates /\ ~c.pending /\ c.status = calib.status
          /\ \A s \in Calib!Speakers : c.result[s] = "none"
      BY <1>t, InitialTyped DEF Calib!CalibStates, Calib!All
    <2>4. calib' = [c EXCEPT !.round = 1, !.ch = 1, !.at = IF ok THEN "init" ELSE "idle"]
      BY <2>1, Zenon
    <2> HIDE DEF c
    <2>5. /\ calib'.pending = c.pending /\ calib'.status = c.status /\ calib'.result = c.result
          /\ calib'.round = 1 /\ calib'.ch = 1 /\ calib'.at = IF ok THEN "init" ELSE "idle"
      BY <2>3, <2>4 DEF Calib!CalibStates
    <2> QED BY <2>2, <2>3, <2>5
  <1>n. ASSUME NEW w \in Calib!CalibStates
        PROVE  LET v == Calib!NextSpeaker(w)
               IN  /\ v.pending = w.pending /\ v.status = w.status /\ v.result = w.result
                   /\ \/ w.ch = 1 /\ v.ch = 2 /\ v.round = w.round /\ v.at = "init"
                      \/ w.ch = 2 /\ v.ch = 1 /\ v.round = w.round + 1 /\ v.at = "init"
                      \/ w.ch = 2 /\ v.ch = 2 /\ v.round = w.round /\ v.at = "save"
    <2>1. CASE w.ch < Calib!MAX_CHANNELS
      BY <2>1 DEF Calib!NextSpeaker, Calib!CalibStates
    <2>2. CASE ~(w.ch < Calib!MAX_CHANNELS) /\ w.round < Rounds
      <3> DEFINE n == w.round + 1
      <3>1. n \in Nat /\ Calib!NextSpeaker(w) = [w EXCEPT !.round = n, !.ch = 1, !.at = "init"]
        BY <2>2 DEF Calib!NextSpeaker, Calib!CalibStates
      <3> HIDE DEF n
      <3>2. /\ Calib!NextSpeaker(w).round = n /\ Calib!NextSpeaker(w).ch = 1
            /\ Calib!NextSpeaker(w).at = "init" /\ w.ch = 2
            /\ Calib!NextSpeaker(w).pending = w.pending /\ Calib!NextSpeaker(w).status = w.status
            /\ Calib!NextSpeaker(w).result = w.result
        BY <2>2, <3>1 DEF Calib!CalibStates
      <3> QED BY <3>2 DEF n
    <2>3. CASE ~(w.ch < Calib!MAX_CHANNELS) /\ ~(w.round < Rounds)
      BY <2>3 DEF Calib!NextSpeaker, Calib!CalibStates
    <2> QED BY <2>1, <2>2, <2>3
  <1>3. CASE Calib!CalibInit
    <2>1. /\ calib.at = "init" /\ prepared' = prepared
      BY <1>3 DEF Calib!CalibInit
    <2>2. CASE calib.result[calib.ch] = "success"
      <3>1. calib' = Calib!NextSpeaker(calib) /\ dsp' = dsp /\ failed' = failed
        BY <1>3, <2>2 DEF Calib!CalibInit
      <3>2. calib.round # 1
        BY <2>1, <2>2
      <3> QED BY <1>t, <1>n, <2>1, <3>1, <3>2 DEF Calib!CalibStates
    <2>3. CASE calib.result[calib.ch] # "success"
      <3>1. PICK ok \in BOOLEAN :
              /\ Calib!Access(ok)
              /\ calib' = [calib EXCEPT !.at = IF ok THEN "measure" ELSE "idle"]
              /\ dsp' = [dsp EXCEPT !.calib[calib.ch] = @ \/ ok]
        BY <1>3, <2>3, Zenon DEF Calib!CalibInit
      <3>2. failed' = 0 => failed = 0 /\ ok
        BY <3>1, FailuresCount
      <3>3. /\ calib'.pending = calib.pending /\ calib'.status = calib.status
            /\ calib'.result = calib.result /\ calib'.ch = calib.ch
            /\ calib'.round = calib.round /\ calib'.at = IF ok THEN "measure" ELSE "idle"
        BY <1>t, <3>1 DEF Calib!CalibStates
      <3>4. \A s \in Calib!Speakers \ {calib.ch} : dsp'.calib[s] = dsp.calib[s]
        BY <1>t, <3>1 DEF Calib!DspStates, Calib!Flags, Calib!CalibStates
      <3> QED BY <1>t, <2>1, <3>2, <3>3, <3>4 DEF Calib!CalibStates
    <2> QED BY <2>2, <2>3
  <1>4. CASE Calib!GetRe
    <2>1. /\ calib.at = "measure" /\ dsp' = dsp /\ prepared' = prepared
      BY <1>4, Zenon DEF Calib!GetRe
    <2>2. \/ /\ Calib!Access(FALSE)
             /\ calib' = [calib EXCEPT !.result[calib.ch] = "fail", !.at = "idle"]
          \/ \E rdc \in Measured :
                /\ Calib!Access(TRUE)
                /\ calib' = [calib EXCEPT !.re[calib.ch] = rdc, !.at = "deinit",
                                          !.result[calib.ch] = Calib!CheckLimits(rdc)]
      BY <1>4, Zenon DEF Calib!GetRe
    <2>3. \/ calib'.at = "idle" /\ failed' # 0
          \/ calib'.at = "deinit" /\ (failed' = 0 => failed = 0)
      BY <1>t, <2>2, FailuresCount DEF Calib!CalibStates
    <2>4. /\ calib'.pending = calib.pending /\ calib'.status = calib.status
          /\ calib'.ch = calib.ch /\ calib'.round = calib.round
          /\ \A s \in Calib!Speakers \ {calib.ch} : calib'.result[s] = calib.result[s]
      <3>1. CASE calib' = [calib EXCEPT !.result[calib.ch] = "fail", !.at = "idle"]
        BY <1>t, <3>1 DEF Calib!CalibStates, Calib!Outcomes
      <3>2. ASSUME NEW rdc, NEW r,
                   calib' = [calib EXCEPT !.re[calib.ch] = rdc, !.at = "deinit",
                                          !.result[calib.ch] = r]
            PROVE  /\ calib'.pending = calib.pending /\ calib'.status = calib.status
                   /\ calib'.ch = calib.ch /\ calib'.round = calib.round
                   /\ \A s \in Calib!Speakers \ {calib.ch} : calib'.result[s] = calib.result[s]
        BY <1>t, <3>2 DEF Calib!CalibStates, Calib!Outcomes
      <3> QED BY <2>2, <3>1, <3>2, Zenon
    <2> QED BY <1>t, <2>1, <2>3, <2>4 DEF Calib!CalibStates
  <1>5. CASE Calib!CalibDeinit
    <2>1. PICK ok \in BOOLEAN :
            /\ Calib!Access(ok)
            /\ calib' = IF ok THEN Calib!NextSpeaker(calib) ELSE [calib EXCEPT !.at = "idle"]
            /\ dsp' = [dsp EXCEPT !.calib[calib.ch] = @ /\ ~ok]
      BY <1>5, Zenon DEF Calib!CalibDeinit
    <2>2. calib.at = "deinit" /\ prepared' = prepared /\ (failed' = 0 => failed = 0 /\ ok)
      BY <1>5, <2>1, FailuresCount DEF Calib!CalibDeinit
    <2>3. \A s \in Calib!Speakers \ {calib.ch} : dsp'.calib[s] = dsp.calib[s]
      BY <1>t, <2>1 DEF Calib!DspStates, Calib!Flags, Calib!CalibStates
    <2>4. CASE ok
      <3>1. ~dsp'.calib[calib.ch]
        BY <1>t, <2>1, <2>4 DEF Calib!DspStates, Calib!Flags, Calib!CalibStates
      <3>2. calib' = Calib!NextSpeaker(calib)
        BY <2>1, <2>4
      <3> QED BY <1>t, <1>n, <2>2, <2>3, <3>1, <3>2 DEF Calib!CalibStates
    <2>5. CASE ~ok
      <3>1. /\ calib'.pending = calib.pending /\ calib'.status = calib.status
            /\ calib'.at = "idle" /\ calib'.round = calib.round
        BY <1>t, <2>1, <2>5 DEF Calib!CalibStates
      <3> QED BY <1>t, <2>2, <2>5, <3>1 DEF Calib!CalibStates
    <2> QED BY <2>4, <2>5
  <1>6. CASE Calib!SaveCalibData
    <2>1. /\ calib.at = "save" /\ calib'.at = "finish" /\ calib'.status = calib.status
          /\ calib'.pending = calib.pending /\ calib'.round = calib.round
      BY <1>6, <1>t DEF Calib!SaveCalibData, Calib!CalibStates
    <2>2. dsp' = dsp /\ failed' = failed /\ prepared' = prepared
      BY <1>6 DEF Calib!SaveCalibData
    <2> QED BY <2>1, <2>2
  <1>7. CASE Calib!FinishCalib
    <2>1. \/ /\ calib.at = "finish" /\ calib'.at = "restore" /\ ~calib'.status
          \/ /\ calib.at = "restore" /\ calib'.at = "idle" /\ calib'.status = calib.status
             /\ ~prepared'
      BY <1>7, <1>t DEF Calib!FinishCalib, Calib!CalibStates
    <2>2. calib'.pending = calib.pending /\ calib'.round = calib.round
      BY <1>7, <1>t DEF Calib!FinishCalib, Calib!CalibStates
    <2>3. dsp' = dsp /\ failed' = failed
      BY <1>7 DEF Calib!FinishCalib
    <2> QED BY <2>1, <2>2, <2>3
  <1> QED BY <1>1, <1>2, <1>3, <1>4, <1>5, <1>6, <1>7

(* So do the validation work and its requests with ValidInv. *)
LEMMA ValidationKept ==
    ASSUME Calib!SharedTyped, ValidInv,
           Calib!ValidationStore \/ Calib!ValidWorkStart \/ Calib!GetValidStatus \/ Calib!ValidDeinit
    PROVE  ValidInv'
  <1> SUFFICES ASSUME ~again' PROVE ValidInv'
    BY DEF ValidInv
  <1>0. ~again
    BY Zenon DEF Calib!ValidationStore, Calib!ValidWorkStart, Calib!GetValidStatus,
         Calib!ValidDeinit
  <1> USE <1>0 DEF ValidInv, ValidClean, Below, Calib!Speakers, Calib!MAX_CHANNELS
  <1>t. valid \in Calib!ValidStates /\ dsp \in Calib!DspStates
    BY DEF Calib!SharedTyped
  <1>1. CASE Calib!ValidationStore
    <2> DEFINE s == valid.store + 1
    <2>1. PICK ok \in BOOLEAN :
            /\ Calib!Access(ok)
            /\ dsp' = [dsp EXCEPT !.valid[s] = @ \/ ok]
            /\ valid' = CASE ~ok -> [valid EXCEPT !.store = 0]
                          [] ok /\ s = Calib!MAX_CHANNELS ->
                                [valid EXCEPT !.store = 0, !.running = TRUE, !.pending = TRUE]
                          [] OTHER -> [valid EXCEPT !.store = s]
      BY <1>1, Zenon DEF Calib!ValidationStore
    <2>2. valid.at = "idle" /\ ~valid.pending
      BY <1>1, <1>t, Zenon DEF Calib!ValidationStore, Calib!ValidStates
    <2>3. failed' = 0 => failed = 0 /\ ok
      BY <2>1, FailuresCount
    <2>4. CASE ~ok
      <3>1. valid' = [valid EXCEPT !.store = 0]
        BY <2>1, <2>4, Zenon
      <3>2. valid'.at = valid.at /\ valid'.pending = valid.pending
        BY <1>t, <3>1 DEF Calib!ValidStates
      <3> QED BY <2>2, <2>3, <2>4, <3>2
    <2>5. CASE ok /\ s = Calib!MAX_CHANNELS
      <3>1. valid' = [valid EXCEPT !.store = 0, !.running = TRUE, !.pending = TRUE]
        BY <2>1, <2>5, Zenon
      <3>2. /\ valid'.at = "idle" /\ valid'.running /\ valid'.pending /\ valid'.store = 0
        BY <1>t, <2>2, <3>1 DEF Calib!ValidStates
      <3> QED BY <3>2
    <2>6. CASE ok /\ s # Calib!MAX_CHANNELS
      <3>1. valid' = [valid EXCEPT !.store = s]
        BY <2>1, <2>6, Zenon
      <3>2. /\ valid'.at = valid.at /\ valid'.running = valid.running
            /\ valid'.pending = valid.pending /\ valid'.store = 1
        BY <1>t, <2>6, <3>1 DEF Calib!ValidStates
      <3> QED BY <2>2, <2>3, <3>2
    <2> QED BY <2>4, <2>5, <2>6
  <1>2. CASE Calib!ValidWorkStart
    <2>1. /\ valid.pending /\ valid.at = "idle" /\ dsp' = dsp /\ failed' = failed
          /\ valid' = [valid EXCEPT !.pending = FALSE, !.at = "status", !.ch = 1]
      BY <1>2 DEF Calib!ValidWorkStart
    <2>2. /\ ~valid'.pending /\ valid'.at = "status" /\ valid'.ch = 1
          /\ valid'.running = valid.running /\ valid'.store = valid.store
      BY <1>t, <2>1 DEF Calib!ValidStates
    <2> QED BY <2>1, <2>2
  <1>3. CASE Calib!GetValidStatus
    <2>1. PICK ok \in BOOLEAN, r \in Calib!Results :
            /\ Calib!Access(ok)
            /\ valid' = [valid EXCEPT !.result[valid.ch] = r, !.at = "deinit"]
      BY <1>3 DEF Calib!GetValidStatus, Calib!Results
    <2>2. valid.at = "status" /\ dsp' = dsp /\ (failed' = 0 => failed = 0)
      BY <1>3, <2>1, FailuresCount DEF Calib!GetValidStatus
    <2>3. /\ valid'.pending = valid.pending /\ valid'.running = valid.running
          /\ valid'.ch = valid.ch /\ valid'.store = valid.store /\ valid'.at = "deinit"
      BY <1>t, <2>1 DEF Calib!ValidStates
    <2> QED BY <2>2, <2>3
  <1>4. CASE Calib!ValidDeinit
    <2>1. PICK ok \in BOOLEAN : Calib!Access(ok) /\ dsp' = [dsp EXCEPT !.valid[valid.ch] = @ /\ ~ok]
      BY <1>4, Zenon DEF Calib!ValidDeinit
    <2>2. /\ valid.at = "deinit" /\ ~valid.pending /\ (failed' = 0 => failed = 0 /\ ok)
      BY <1>4, <1>t, <2>1, FailuresCount DEF Calib!ValidDeinit, Calib!ValidStates
    <2>3. \A s \in Calib!Speakers \ {valid.ch} : dsp'.valid[s] = dsp.valid[s]
      BY <1>t, <2>1 DEF Calib!DspStates, Calib!Flags, Calib!ValidStates
    <2>4. ok => ~dsp'.valid[valid.ch]
      BY <1>t, <2>1 DEF Calib!DspStates, Calib!Flags, Calib!ValidStates
    <2>5. CASE valid.ch < Calib!MAX_CHANNELS
      <3>1. valid' = [valid EXCEPT !.ch = valid.ch + 1, !.at = "status"]
        BY <1>4, <2>5 DEF Calib!ValidDeinit
      <3>2. /\ valid'.ch = 2 /\ valid'.at = "status" /\ valid'.pending = valid.pending
            /\ valid'.running = valid.running /\ valid'.store = valid.store /\ valid.ch = 1
        BY <1>t, <2>5, <3>1 DEF Calib!ValidStates
      <3> QED BY <2>2, <2>3, <2>4, <3>2
    <2>6. CASE ~(valid.ch < Calib!MAX_CHANNELS)
      <3>1. valid' = [valid EXCEPT !.at = "idle", !.running = FALSE]
        BY <1>4, <2>6 DEF Calib!ValidDeinit
      <3>2. /\ valid'.at = "idle" /\ ~valid'.running /\ valid'.pending = valid.pending
            /\ valid.ch = 2
        BY <1>t, <2>6, <3>1 DEF Calib!ValidStates
      <3> QED BY <2>2, <2>3, <2>4, <3>2
    <2> QED BY <2>5, <2>6
  <1> QED BY <1>1, <1>2, <1>3, <1>4

LEMMA CalibrationInvInit ==
    ASSUME Calib!Init
    PROVE  CalibInv /\ ValidInv
  <1>1. /\ ~calib.status /\ ~calib.pending /\ calib.at = "idle" /\ calib.round = 1
        /\ ~valid.running /\ ~valid.pending /\ valid.at = "idle" /\ ~prepared
    BY DEF Calib!Init
  <1>2. CalibClean(Calib!Speakers) /\ ValidClean(Calib!Speakers)
    BY DEF Calib!Init, CalibClean, ValidClean, Calib!All
  <1> QED BY <1>1, <1>2 DEF CalibInv, ValidInv, Measuring

LEMMA CalibrationInvStep ==
    ASSUME Calib!SharedTyped, CalibInv, ValidInv, [Calib!Next]_calib_vars
    PROVE  CalibInv' /\ ValidInv'
  <1>1. again => again'
    BY Zenon DEF Calib!Next, calib_vars, Calib!CalibrationStore,
         Calib!UpdateCalibrationLimits, Calib!CalibInit, Calib!GetRe,
                 Calib!CalibDeinit, Calib!SaveCalibData, Calib!FinishCalib,
                 Calib!ValidationStore, Calib!ValidWorkStart,
                 Calib!GetValidStatus, Calib!ValidDeinit, Calib!RdcStore, Calib!AmbTempStore,
                 Calib!StartAlgoProcessing,
                 Calib!SendAlgoCalibration, Calib!StopAlgoProcessing, Calib!ExcMaxShow,
                 Calib!Rounding
  <1>2. failed' = 0 => failed = 0
    <2>1. failed' = failed \/ \E ok \in BOOLEAN : Calib!Access(ok)
      BY Zenon DEF Calib!Next, calib_vars, Calib!CalibrationStore,
           Calib!UpdateCalibrationLimits, Calib!CalibInit, Calib!GetRe,
                   Calib!CalibDeinit, Calib!SaveCalibData, Calib!FinishCalib,
                   Calib!ValidationStore, Calib!ValidWorkStart,
                   Calib!GetValidStatus, Calib!ValidDeinit, Calib!RdcStore,
                   Calib!AmbTempStore, Calib!StartAlgoProcessing,
                   Calib!SendAlgoCalibration, Calib!StopAlgoProcessing, Calib!ExcMaxShow,
                   Calib!Rounding
    <2> QED BY <2>1, FailuresCount
  <1>3. CASE Calib!CalibrationStore \/ Calib!UpdateCalibrationLimits \/ Calib!CalibInit \/ Calib!GetRe
               \/ Calib!CalibDeinit \/ Calib!SaveCalibData \/ Calib!FinishCalib
    <2>1. valid' = valid
      BY <1>3, Zenon DEF Calib!CalibrationStore, Calib!UpdateCalibrationLimits,
           Calib!CalibInit, Calib!GetRe,
                         Calib!CalibDeinit, Calib!SaveCalibData, Calib!FinishCalib
    <2>2. dsp' = dsp \/ \E b : dsp' = [dsp EXCEPT !.calib[calib.ch] = b]
      BY <1>3, Zenon DEF Calib!CalibrationStore, Calib!UpdateCalibrationLimits,
           Calib!CalibInit, Calib!GetRe,
                         Calib!CalibDeinit, Calib!SaveCalibData, Calib!FinishCalib
    <2>3. dsp'.valid = dsp.valid
      BY <2>2 DEF Calib!SharedTyped, Calib!DspStates
    <2> QED BY <1>1, <1>2, <1>3, <2>1, <2>3, CalibrationKept, ValidElsewhere
  <1>4. CASE Calib!ValidationStore \/ Calib!ValidWorkStart \/ Calib!GetValidStatus \/ Calib!ValidDeinit
    <2>1. calib' = calib /\ prepared' = prepared
      BY <1>4, Zenon DEF Calib!ValidationStore, Calib!ValidWorkStart, Calib!GetValidStatus,
           Calib!ValidDeinit
    <2>2. dsp' = dsp \/ \E s, b : dsp' = [dsp EXCEPT !.valid[s] = b]
      BY <1>4, Zenon DEF Calib!ValidationStore, Calib!ValidWorkStart, Calib!GetValidStatus,
           Calib!ValidDeinit
    <2>3. dsp'.calib = dsp.calib
      BY <2>2 DEF Calib!SharedTyped, Calib!DspStates
    <2> QED BY <1>1, <1>2, <1>4, <2>1, <2>3, ValidationKept, CalibElsewhere
  <1>5. CASE Calib!RdcStore \/ Calib!AmbTempStore \/ Calib!StartAlgoProcessing \/ Calib!SendAlgoCalibration
               \/ Calib!StopAlgoProcessing \/ Calib!ExcMaxShow \/ Calib!Rounding \/ UNCHANGED calib_vars
    <2>1. calib' = calib /\ valid' = valid /\ prepared' = prepared
      BY <1>5, Zenon DEF calib_vars, Calib!RdcStore, Calib!AmbTempStore,
           Calib!StartAlgoProcessing,
                         Calib!SendAlgoCalibration, Calib!StopAlgoProcessing,
                         Calib!ExcMaxShow, Calib!Rounding
    <2>2. \/ dsp' = dsp
          \/ \E s, n : \/ dsp' = [dsp EXCEPT !.temp[s] = n]
                       \/ dsp' = [dsp EXCEPT !.re[s] = n]
      BY <1>5, Zenon DEF calib_vars, Calib!RdcStore, Calib!AmbTempStore,
           Calib!StartAlgoProcessing,
                         Calib!SendAlgoCalibration, Calib!StopAlgoProcessing,
                         Calib!ExcMaxShow, Calib!Rounding
    <2>3. dsp'.calib = dsp.calib /\ dsp'.valid = dsp.valid
      BY <2>2 DEF Calib!SharedTyped, Calib!DspStates
    <2> QED BY <1>1, <1>2, <2>1, <2>3, CalibElsewhere, ValidElsewhere
  <1> QED BY <1>3, <1>4, <1>5 DEF Calib!Next

(* Whatever fails, temperatures are read and set only in speakers that are not in
   calibration, and without a failure nothing that shows as disabled is left behind. *)
LEMMA CleanHeld ==
    ASSUME Calib!SharedTyped, CalibInv, ValidInv
    PROVE  Calib!LeftClean
  <1> SUFFICES ASSUME ~again PROVE Calib!LeftClean
    BY DEF Calib!LeftClean
  <1>1. ~calib.status => CalibClean(Calib!Speakers)
    BY DEF CalibInv
  <1>2. failed = 0 /\ ~valid.running /\ valid.store = 0 => ValidClean(Calib!Speakers)
    BY DEF ValidInv
  <1> QED BY <1>1, <1>2 DEF Calib!LeftClean, Calib!TemperatureAllowed, CalibInv, CalibClean,
       ValidClean

--------------------------------------------------------------------------------
(* What the DSP answered, and what is kept of it. *)
SeenStates ==
    [re : Calib!Levels, valid : Calib!Outcomes, top : Measured \cup {0}, unread : SUBSET Measured,
     raced : BOOLEAN, rdc : SUBSET (Nat \X Nat)]
StatStates ==
    [max : Measured \cup {0}, persist : Measured \cup {0}, reading : SUBSET (Measured \cup {0})]

(* A speaker whose measurement succeeded has its answer and no other, in its range, and the
   resistances that are shown are those of the last work that came to its end. *)
AnswersInv ==
    /\ seen \in SeenStates
    /\ \A s \in Calib!Speakers : calib.result[s] = "success" =>
            calib.re[s] = seen.re[s] /\ calib.re[s] \in RdcRange
    /\ ~again /\ (~calib.status \/ calib.at = "finish") => calib.hold = calib.re
    /\ \A s \in Calib!Speakers : seen.valid[s] = "none" \/ valid.result[s] = seen.valid[s]

LEMMA NextSpeakerSame ==
    ASSUME NEW w \in Calib!CalibStates
    PROVE  /\ Calib!NextSpeaker(w).result = w.result /\ Calib!NextSpeaker(w).re = w.re
           /\ Calib!NextSpeaker(w).hold = w.hold /\ Calib!NextSpeaker(w).status = w.status
           /\ Calib!NextSpeaker(w).at # "finish"
           /\ Calib!NextSpeaker(w).round = w.round
              \/ (w.round < Rounds /\ Calib!NextSpeaker(w).round = w.round + 1)
  <1>1. CASE w.ch < Calib!MAX_CHANNELS
    <2> DEFINE n == w.ch + 1
    <2>1. Calib!NextSpeaker(w) = [w EXCEPT !.ch = n, !.at = "init"]
      BY <1>1 DEF Calib!NextSpeaker
    <2> HIDE DEF n
    <2>2. /\ Calib!NextSpeaker(w).result = w.result /\ Calib!NextSpeaker(w).re = w.re
          /\ Calib!NextSpeaker(w).hold = w.hold /\ Calib!NextSpeaker(w).status = w.status
          /\ Calib!NextSpeaker(w).at = "init" /\ Calib!NextSpeaker(w).round = w.round
      BY <2>1 DEF Calib!CalibStates
    <2> QED BY <2>2, Zenon
  <1>2. CASE ~(w.ch < Calib!MAX_CHANNELS) /\ w.round < Rounds
    <2> DEFINE n == w.round + 1
    <2>1. Calib!NextSpeaker(w) = [w EXCEPT !.round = n, !.ch = 1, !.at = "init"]
      BY <1>2 DEF Calib!NextSpeaker
    <2> HIDE DEF n
    <2>2. /\ Calib!NextSpeaker(w).result = w.result /\ Calib!NextSpeaker(w).re = w.re
          /\ Calib!NextSpeaker(w).hold = w.hold /\ Calib!NextSpeaker(w).status = w.status
          /\ Calib!NextSpeaker(w).at = "init" /\ Calib!NextSpeaker(w).round = n
      BY <2>1 DEF Calib!CalibStates
    <2> QED BY <1>2, <2>2 DEF n
  <1>3. CASE ~(w.ch < Calib!MAX_CHANNELS) /\ ~(w.round < Rounds)
    <2>1. Calib!NextSpeaker(w) = [w EXCEPT !.at = "save"]
      BY <1>3 DEF Calib!NextSpeaker
    <2>2. /\ Calib!NextSpeaker(w).result = w.result /\ Calib!NextSpeaker(w).re = w.re
          /\ Calib!NextSpeaker(w).hold = w.hold /\ Calib!NextSpeaker(w).status = w.status
          /\ Calib!NextSpeaker(w).at = "save" /\ Calib!NextSpeaker(w).round = w.round
      BY <2>1 DEF Calib!CalibStates
    <2> QED BY <2>2, Zenon
  <1> QED BY <1>1, <1>2, <1>3

LEMMA AnswersInit ==
    ASSUME Calib!Init
    PROVE  AnswersInv /\ stats \in StatStates
  <1>1. seen \in SeenStates
    BY InitialTyped DEF Calib!Init, SeenStates
  <1>2. \A s \in Calib!Speakers : calib.result[s] = "none" /\ seen.valid[s] = "none"
    BY DEF Calib!Init, Calib!All
  <1>3. calib.hold = calib.re
    BY DEF Calib!Init
  <1>4. stats \in StatStates
    BY DEF Calib!Init, StatStates
  <1> QED BY <1>1, <1>2, <1>3, <1>4 DEF AnswersInv

(* The works keep that, *)
LEMMA AnswersOfWorks ==
    ASSUME Calib!CalibAssumption, Calib!SharedTyped, CalibInv, AnswersInv,
           \/ Calib!CalibrationStore \/ Calib!UpdateCalibrationLimits \/ Calib!CalibInit \/ Calib!GetRe
           \/ Calib!CalibDeinit \/ Calib!SaveCalibData \/ Calib!FinishCalib
    PROVE  AnswersInv'
  <1>t. calib \in Calib!CalibStates /\ seen \in SeenStates
    BY DEF Calib!SharedTyped, AnswersInv
  <1>v. valid' = valid
    BY Zenon DEF Calib!CalibrationStore, Calib!UpdateCalibrationLimits, Calib!CalibInit,
         Calib!GetRe, Calib!CalibDeinit,
                 Calib!SaveCalibData, Calib!FinishCalib
  <1>a. ~again' => ~again
    BY Zenon DEF Calib!CalibrationStore, Calib!UpdateCalibrationLimits, Calib!CalibInit,
         Calib!GetRe, Calib!CalibDeinit,
                 Calib!SaveCalibData, Calib!FinishCalib
  <1>m. ~again => /\ calib.pending => calib.status
                  /\ calib.at \in {"init", "measure", "deinit", "save", "finish"} => calib.status
    BY DEF CalibInv, Measuring
  <1>s. ~Calib!GetRe => seen' = seen
    BY Zenon DEF Calib!CalibrationStore, Calib!UpdateCalibrationLimits, Calib!CalibInit,
         Calib!GetRe, Calib!CalibDeinit,
                 Calib!SaveCalibData, Calib!FinishCalib
  <1>1. CASE Calib!CalibrationStore
    <2>1. calib' = [calib EXCEPT !.status = TRUE, !.pending = TRUE]
          /\ (~again' => calib.at = "idle")
      BY <1>1 DEF Calib!CalibrationStore
    <2>2. /\ calib'.result = calib.result /\ calib'.re = calib.re /\ calib'.status = TRUE
          /\ calib'.at = calib.at
      BY <1>t, <2>1 DEF Calib!CalibStates
    <2>3. seen' = seen
      BY <1>1, Zenon DEF Calib!CalibrationStore
    <2> QED BY <1>a, <1>v, <2>1, <2>2, <2>3 DEF AnswersInv
  <1>2. CASE Calib!UpdateCalibrationLimits
    <2>1. PICK ok \in BOOLEAN :
            calib' = [calib EXCEPT !.pending = FALSE, !.result = Calib!All("none"), !.re = Calib!All(0),
                                   !.round = 1, !.ch = 1, !.at = IF ok THEN "init" ELSE "idle"]
      BY <1>2 DEF Calib!UpdateCalibrationLimits
    <2>2. /\ calib'.result = Calib!All("none") /\ calib'.status = calib.status
          /\ calib'.at # "finish"
      BY <1>t, <2>1 DEF Calib!CalibStates
    <2>3. \A s \in Calib!Speakers : calib'.result[s] = "none"
      BY <2>2 DEF Calib!All
    <2>4. seen' = seen /\ calib.pending
      BY <1>2, Zenon DEF Calib!UpdateCalibrationLimits
    <2> QED BY <1>a, <1>m, <1>v, <2>2, <2>3, <2>4 DEF AnswersInv
  <1>3. CASE Calib!CalibInit \/ Calib!CalibDeinit
    <2>1. \/ calib' = Calib!NextSpeaker(calib)
          \/ \E p \in {"measure", "idle"} : calib' = [calib EXCEPT !.at = p]
      BY <1>3 DEF Calib!CalibInit, Calib!CalibDeinit
    <2>2. /\ calib'.result = calib.result /\ calib'.re = calib.re
          /\ calib'.status = calib.status /\ calib'.at # "finish"
      <3>1. CASE calib' = Calib!NextSpeaker(calib)
        BY <1>t, <3>1, NextSpeakerSame
      <3>2. CASE \E p \in {"measure", "idle"} : calib' = [calib EXCEPT !.at = p]
        BY <1>t, <3>2 DEF Calib!CalibStates
      <3> QED BY <2>1, <3>1, <3>2
    <2>3. calib.at \in {"init", "deinit"} /\ seen' = seen
      BY <1>3 DEF Calib!CalibInit, Calib!CalibDeinit
    <2> QED BY <1>a, <1>m, <1>v, <2>2, <2>3 DEF AnswersInv
  <1>4. CASE Calib!GetRe
    <2>1. calib.at = "measure" /\ calib.ch \in Calib!Speakers
      BY <1>4, <1>t DEF Calib!GetRe, Calib!CalibStates
    <2>2. CASE calib' = [calib EXCEPT !.result[calib.ch] = "fail", !.at = "idle"] /\ seen' = seen
      <3>1. calib'.status = calib.status /\ calib'.at = "idle" /\ calib'.re = calib.re
        BY <1>t, <2>2 DEF Calib!CalibStates
      <3>2. \A s \in Calib!Speakers : calib'.result[s] = "success" => calib.result[s] = "success"
        BY <1>t, <2>1, <2>2 DEF Calib!CalibStates, Calib!Outcomes
      <3> QED BY <1>a, <1>m, <1>v, <2>1, <2>2, <3>1, <3>2 DEF AnswersInv
    <2>3. ASSUME NEW rdc \in Measured,
                 calib' = [calib EXCEPT !.re[calib.ch] = rdc, !.at = "deinit",
                                        !.result[calib.ch] = Calib!CheckLimits(rdc)],
                 seen' = [seen EXCEPT !.re[calib.ch] = rdc]
          PROVE  AnswersInv'
      <3>1. calib'.status = calib.status /\ calib'.at = "deinit"
        BY <1>t, <2>3 DEF Calib!CalibStates
      <3>2. /\ calib'.re[calib.ch] = rdc /\ calib'.result[calib.ch] = Calib!CheckLimits(rdc)
            /\ seen'.re[calib.ch] = rdc
        BY <1>t, <2>1, <2>3 DEF Calib!CalibStates, SeenStates, Calib!Outcomes, Calib!Levels
      <3>3. \A s \in Calib!Speakers \ {calib.ch} :
                /\ calib'.re[s] = calib.re[s] /\ calib'.result[s] = calib.result[s]
                /\ seen'.re[s] = seen.re[s]
        BY <1>t, <2>1, <2>3 DEF Calib!CalibStates, SeenStates, Calib!Outcomes, Calib!Levels
      <3>4. Calib!CheckLimits(rdc) = "success" => rdc \in RdcRange
        BY DEF Calib!CheckLimits
      <3>5. seen'.valid = seen.valid
        BY <1>t, <2>3 DEF SeenStates
      <3>6. rdc \in Nat
        BY DEF Calib!CalibAssumption
      <3>7. seen' \in SeenStates
        BY <1>t, <2>1, <2>3, <3>6 DEF SeenStates, Calib!Levels
      <3>8. \A s \in Calib!Speakers : calib'.result[s] = "success" =>
                calib'.re[s] = seen'.re[s] /\ calib'.re[s] \in RdcRange
        BY <3>2, <3>3, <3>4 DEF AnswersInv
      <3>9. ~again' /\ (~calib'.status \/ calib'.at = "finish") => calib'.hold = calib'.re
        BY <1>a, <1>m, <2>1, <3>1
      <3> QED BY <1>v, <3>5, <3>7, <3>8, <3>9 DEF AnswersInv
    <2> QED BY <1>4, <2>2, <2>3, Zenon DEF Calib!GetRe
  <1>5. CASE Calib!SaveCalibData
    <2>1. calib' = [calib EXCEPT !.hold = calib.re, !.at = "finish"] /\ seen' = seen
      BY <1>5 DEF Calib!SaveCalibData
    <2>2. /\ calib'.result = calib.result /\ calib'.re = calib.re /\ calib'.hold = calib.re
      BY <1>t, <2>1 DEF Calib!CalibStates
    <2> QED BY <1>v, <2>1, <2>2 DEF AnswersInv
  <1>6. CASE Calib!FinishCalib
    <2>1. \/ calib.at = "finish" /\ calib' = [calib EXCEPT !.status = FALSE, !.at = "restore"]
          \/ calib.at = "restore" /\ calib' = [calib EXCEPT !.at = "idle"]
      BY <1>6, Zenon DEF Calib!FinishCalib
    <2>2. /\ calib'.result = calib.result /\ calib'.re = calib.re /\ calib'.hold = calib.hold
          /\ calib'.at # "finish"
          /\ calib.at = "finish" \/ calib'.status = calib.status
      BY <1>t, <2>1 DEF Calib!CalibStates
    <2>3. seen' = seen
      BY <1>6, Zenon DEF Calib!FinishCalib
    <2> QED BY <1>a, <1>v, <2>2, <2>3 DEF AnswersInv
  <1> QED BY <1>1, <1>2, <1>3, <1>4, <1>5, <1>6

LEMMA AnswersOfValidation ==
    ASSUME Calib!SharedTyped, AnswersInv,
           Calib!ValidationStore \/ Calib!ValidWorkStart \/ Calib!GetValidStatus \/ Calib!ValidDeinit
    PROVE  AnswersInv'
  <1>t. valid \in Calib!ValidStates /\ seen \in SeenStates
    BY DEF Calib!SharedTyped, AnswersInv
  <1>b. calib' = calib
    BY Zenon DEF Calib!ValidationStore, Calib!ValidWorkStart, Calib!GetValidStatus,
         Calib!ValidDeinit
  <1>d. ~again' => ~again
    <2>1. CASE Calib!ValidationStore
      <3>1. again' = (again \/ valid.at # "idle" \/ valid.pending)
        BY <2>1, Zenon DEF Calib!ValidationStore
      <3> QED BY <3>1
    <2>2. CASE Calib!ValidWorkStart \/ Calib!GetValidStatus \/ Calib!ValidDeinit
      BY <2>2, Zenon DEF Calib!ValidWorkStart, Calib!GetValidStatus, Calib!ValidDeinit
    <2> QED BY <2>1, <2>2
  <1>c. calib' = calib /\ (~again' => ~again)
    BY <1>b, <1>d
  <1>1. CASE Calib!ValidationStore \/ Calib!ValidDeinit
    <2>1. seen' = seen
      BY <1>1, Zenon DEF Calib!ValidationStore, Calib!ValidDeinit
    <2>2. valid'.result = valid.result
      <3>1. CASE Calib!ValidationStore
        <4>1. \/ valid' = [valid EXCEPT !.store = 0]
              \/ valid' = [valid EXCEPT !.store = 0, !.running = TRUE, !.pending = TRUE]
              \/ valid' = [valid EXCEPT !.store = valid.store + 1]
          BY <3>1, Zenon DEF Calib!ValidationStore
        <4> QED BY <1>t, <4>1 DEF Calib!ValidStates
      <3>2. CASE Calib!ValidDeinit
        BY <1>t, <3>2 DEF Calib!ValidDeinit, Calib!ValidStates
      <3> QED BY <1>1, <3>1, <3>2
    <2> QED BY <1>c, <2>1, <2>2 DEF AnswersInv
  <1>2. CASE Calib!ValidWorkStart
    <2>1. seen' = [seen EXCEPT !.valid = Calib!All("none")]
      BY <1>2 DEF Calib!ValidWorkStart
    <2>2. seen'.valid = Calib!All("none") /\ seen'.re = seen.re /\ seen' \in SeenStates
      BY <1>t, <2>1, InitialTyped DEF SeenStates
    <2>3. \A s \in Calib!Speakers : seen'.valid[s] = "none"
      BY <2>2 DEF Calib!All
    <2> QED BY <1>c, <2>2, <2>3 DEF AnswersInv
  <1>3. CASE Calib!GetValidStatus
    <2>1. PICK r \in Calib!Results :
            /\ valid' = [valid EXCEPT !.result[valid.ch] = r, !.at = "deinit"]
            /\ seen' = [seen EXCEPT !.valid[valid.ch] = r]
      BY <1>3 DEF Calib!GetValidStatus, Calib!Results
    <2>2. valid.ch \in Calib!Speakers
      BY <1>t DEF Calib!ValidStates
    <2>3. seen'.re = seen.re /\ seen' \in SeenStates
      BY <1>t, <2>1, <2>2 DEF SeenStates, Calib!Outcomes
    <2>4. \A s \in Calib!Speakers : IF s = valid.ch THEN seen'.valid[s] = r /\ valid'.result[s] = r
                              ELSE /\ seen'.valid[s] = seen.valid[s]
                                   /\ valid'.result[s] = valid.result[s]
      BY <1>t, <2>1, <2>2 DEF SeenStates, Calib!Outcomes, Calib!ValidStates
    <2> QED BY <1>c, <2>3, <2>4 DEF AnswersInv
  <1> QED BY <1>1, <1>2, <1>3

(* and what else happens does not touch it. *)
LEMMA AnswersElsewhere ==
    ASSUME AnswersInv, calib' = calib, valid' = valid, again' = again, seen' \in SeenStates,
           seen'.re = seen.re, seen'.valid = seen.valid
    PROVE  AnswersInv'
  BY DEF AnswersInv

LEMMA ResultsHeld ==
    ASSUME AnswersInv
    PROVE  Calib!ResultsShown
  BY DEF AnswersInv, Calib!ResultsShown, Calib!RdcShown

--------------------------------------------------------------------------------
(* What a stream's start has sent: the speakers before the one it is at, and the temperature
   of that one. *)
Sent(s) == dsp.re[s] = user.re[s] /\ dsp.temp[s] = user.temp[s]

SentInv ==
    /\ \A s \in Calib!Speakers : user.update[s] => use = "streams"
    /\ failed = 0 => \A s \in Calib!Speakers \ user.since : user.update[s] =>
          /\ stream.at = "started" => Sent(s)
          /\ stream.at \in {"temp", "re"} /\ s < stream.ch => Sent(s)
          /\ stream.at = "re" /\ s = stream.ch => dsp.temp[s] = user.temp[s]

LEMMA SentInit ==
    ASSUME Calib!Init
    PROVE  SentInv
  BY DEF Calib!Init, SentInv, Calib!All

LEMMA SentElsewhere ==
    ASSUME SentInv, user' = user, stream' = stream, use' = use, failed' = 0 => failed = 0,
           dsp'.re = dsp.re, dsp'.temp = dsp.temp
    PROVE  SentInv'
  BY DEF SentInv, Sent

LEMMA SentStep ==
    ASSUME Calib!SharedTyped, SentInv,
           \/ Calib!RdcStore \/ Calib!AmbTempStore \/ Calib!StartAlgoProcessing \/ Calib!SendAlgoCalibration
           \/ Calib!StopAlgoProcessing
    PROVE  SentInv'
  <1>t. user \in Calib!Stored /\ stream \in Calib!StreamStates /\ dsp \in Calib!DspStates
    BY DEF Calib!SharedTyped
  <1>u. use' = use
    BY Zenon DEF Calib!RdcStore, Calib!AmbTempStore, Calib!StartAlgoProcessing,
         Calib!SendAlgoCalibration,
                 Calib!StopAlgoProcessing
  <1>1. CASE Calib!RdcStore \/ Calib!AmbTempStore
    <2> DEFINE n == requests'
    <2>1. PICK s \in Calib!Speakers :
            \/ user' = [user EXCEPT !.re[s] = n, !.since = @ \cup {s}]
            \/ user' = [user EXCEPT !.temp[s] = n, !.update[s] = TRUE, !.since = @ \cup {s}]
      BY <1>1, Zenon DEF Calib!RdcStore, Calib!AmbTempStore
    <2>2. use = "streams" /\ stream' = stream /\ dsp' = dsp /\ failed' = failed
      BY <1>1, Zenon DEF Calib!RdcStore, Calib!AmbTempStore
    <2> HIDE DEF n
    <2>3. /\ user'.since = user.since \cup {s}
          /\ \A o \in Calib!Speakers \ {s} : /\ user'.re[o] = user.re[o] /\ user'.temp[o] = user.temp[o]
                                       /\ user'.update[o] = user.update[o]
      BY <1>t, <2>1 DEF Calib!Stored, Calib!Levels, Calib!Flags
    <2> QED BY <1>u, <2>2, <2>3 DEF SentInv, Sent
  <1>2. CASE Calib!StartAlgoProcessing
    <2>1. /\ stream' = [stream EXCEPT !.running = TRUE, !.ch = 1,
                                      !.at = IF use = "streams" THEN "temp" ELSE "started"]
          /\ user' = [user EXCEPT !.since = {}]
      BY <1>2, Zenon DEF Calib!StartAlgoProcessing
    <2>2. stream'.ch = 1 /\ stream'.at = IF use = "streams" THEN "temp" ELSE "started"
      BY <1>t, <2>1 DEF Calib!StreamStates
    <2>3. user'.update = user.update
      BY <1>t, <2>1 DEF Calib!Stored
    <2>4. \A s \in Calib!Speakers : ~(s < 1)
      BY DEF Calib!Speakers, Calib!MAX_CHANNELS
    <2> QED BY <1>u, <2>2, <2>3, <2>4 DEF SentInv
  <1>3. CASE Calib!StopAlgoProcessing
    <2>1. stream' = [stream EXCEPT !.running = FALSE, !.at = "stopped"] /\ user' = user
      BY <1>3, Zenon DEF Calib!StopAlgoProcessing
    <2>2. stream'.at = "stopped"
      BY <1>t, <2>1 DEF Calib!StreamStates
    <2> QED BY <1>u, <2>1, <2>2 DEF SentInv
  <1>4. CASE Calib!SendAlgoCalibration
    <2> DEFINE s == stream.ch
    <2>1. s \in Calib!Speakers /\ stream.at \in {"temp", "re"} /\ user' = user
      BY <1>4, <1>t, Zenon DEF Calib!SendAlgoCalibration, Calib!StreamStates
    <2>n. /\ Calib!NextSent.at \in {"temp", "started"}
          /\ Calib!NextSent.at = "temp" => s = 1 /\ Calib!NextSent.ch = 2
      BY <1>t, <2>1 DEF Calib!NextSent, Calib!StreamStates, Calib!Speakers, Calib!MAX_CHANNELS
    <2>2. CASE ~user.update[s] /\ stream.at = "temp"
      <3>1. stream' = Calib!NextSent /\ dsp' = dsp /\ failed' = failed
        BY <1>4, <2>2, Zenon DEF Calib!SendAlgoCalibration
      <3>2. \A o \in Calib!Speakers : o < 2 => o = 1
        BY DEF Calib!Speakers, Calib!MAX_CHANNELS
      <3>3. \A o \in Calib!Speakers : Calib!NextSent.at = "started" => o < s \/ o = s
        BY <1>t, <2>1 DEF Calib!NextSent, Calib!StreamStates, Calib!Speakers, Calib!MAX_CHANNELS
      <3> QED BY <1>u, <2>1, <2>2, <2>n, <3>1, <3>2, <3>3 DEF SentInv, Sent
    <2>3. CASE ~(~user.update[s] /\ stream.at = "temp")
      <3>1. PICK ok \in BOOLEAN :
              /\ Calib!Access(ok)
              /\ IF stream.at = "temp"
                 THEN /\ stream' = [stream EXCEPT !.at = "re"]
                      /\ dsp' = IF ok THEN [dsp EXCEPT !.temp[s] = user.temp[s]] ELSE dsp
                 ELSE /\ stream' = Calib!NextSent
                      /\ dsp' = IF ok THEN [dsp EXCEPT !.re[s] = user.re[s]] ELSE dsp
        BY <1>4, <2>3, Zenon DEF Calib!SendAlgoCalibration
      <3>2. failed' = 0 => failed = 0 /\ ok
        BY <3>1, FailuresCount
      <3>3. CASE stream.at = "temp"
        <4>1. stream'.at = "re" /\ stream'.ch = s
          BY <1>t, <3>1, <3>3 DEF Calib!StreamStates
        <4>2. ok => dsp'.re = dsp.re /\ dsp'.temp[s] = user.temp[s]
                    /\ \A o \in Calib!Speakers \ {s} : dsp'.temp[o] = dsp.temp[o]
          BY <1>t, <2>1, <3>1, <3>3 DEF Calib!DspStates, Calib!Levels
        <4>3. \A o \in Calib!Speakers : o < s => o # s
          BY <2>1 DEF Calib!Speakers, Calib!MAX_CHANNELS
        <4> QED BY <1>u, <2>1, <3>2, <3>3, <4>1, <4>2, <4>3 DEF SentInv, Sent
      <3>4. CASE stream.at = "re"
        <4>1. stream' = Calib!NextSent
          BY <3>1, <3>4
        <4>2. ok => dsp'.temp = dsp.temp /\ dsp'.re[s] = user.re[s]
                    /\ \A o \in Calib!Speakers \ {s} : dsp'.re[o] = dsp.re[o]
          BY <1>t, <2>1, <3>1, <3>4 DEF Calib!DspStates, Calib!Levels
        <4>3. \A o \in Calib!Speakers : o < 2 => o = 1
          BY DEF Calib!Speakers, Calib!MAX_CHANNELS
        <4>4. \A o \in Calib!Speakers : Calib!NextSent.at = "started" => o < s \/ o = s
          BY <1>t, <2>1 DEF Calib!NextSent, Calib!StreamStates, Calib!Speakers,
               Calib!MAX_CHANNELS
        <4>5. \A o \in Calib!Speakers : o < s => o # s
          BY <2>1 DEF Calib!Speakers, Calib!MAX_CHANNELS
        <4> QED BY <1>u, <2>1, <2>n, <3>2, <3>4, <4>1, <4>2, <4>3, <4>4, <4>5 DEF SentInv, Sent
      <3> QED BY <2>1, <3>3, <3>4
    <2> QED BY <2>2, <2>3
  <1> QED BY <1>1, <1>2, <1>3, <1>4

LEMMA SentHeld ==
    ASSUME SentInv
    PROVE  Calib!CalibrationSent
  BY DEF SentInv, Calib!CalibrationSent, Sent

--------------------------------------------------------------------------------
(* The greatest of two excursions. *)
LEMMA GreaterOfTwo ==
    ASSUME NEW a \in Nat, NEW b \in Nat
    PROVE  Calib!Max({a, b}) = IF a >= b THEN a ELSE b
  <1>1. \A m \in {a, b} : (\A n \in {a, b} : m >= n) => m = IF a >= b THEN a ELSE b
    OBVIOUS
  <1>2. \E m \in {a, b} : \A n \in {a, b} : m >= n
    OBVIOUS
  <1> QED BY <1>1, <1>2 DEF Calib!Max

(* What a show has covered is forgotten by its second step; unless a stream ended in between,
   there is nothing else to forget. *)
StatsInv ==
    /\ stats \in StatStates
    /\ stats.persist = seen.top
    /\ use = "statistics" /\ ~seen.raced =>
          /\ \A e \in seen.unread : e <= stats.max
          /\ stats.reading # {} => seen.unread = {}

LEMMA StatsInit ==
    ASSUME Calib!Init
    PROVE  StatsInv
  BY AnswersInit DEF Calib!Init, StatsInv

LEMMA StatsStep ==
    ASSUME Calib!CalibAssumption, AnswersInv, StatsInv, Calib!StopAlgoProcessing \/ Calib!ExcMaxShow
    PROVE  /\ StatsInv' /\ seen' \in SeenStates
           /\ seen'.re = seen.re /\ seen'.valid = seen.valid
  <1>t. seen \in SeenStates /\ stats \in StatStates
    BY DEF AnswersInv, StatsInv
  <1>m. Measured \subseteq Nat /\ Measured \cup {0} \subseteq Nat
    <2>1. Measured \subseteq Nat
      BY DEF Calib!CalibAssumption
    <2>2. \A n \in Measured \cup {0} : n \in Nat
      BY <2>1
    <2> QED BY <2>1, <2>2
  <1>u. use' = use
    BY Zenon DEF Calib!StopAlgoProcessing, Calib!ExcMaxShow
  <1>1. CASE UNCHANGED <<stats, seen>>
    BY <1>1, <1>t, <1>u DEF StatsInv
  <1>2. ASSUME NEW exc \in Measured,
               stats' = [stats EXCEPT !.max = Calib!Max({exc, @}), !.persist = Calib!Max({exc, @})],
               seen' = [seen EXCEPT !.top = Calib!Max({exc, @}), !.unread = @ \cup {exc},
                                    !.raced = @ \/ stats.reading # {}]
        PROVE  /\ StatsInv' /\ seen' \in SeenStates
               /\ seen'.re = seen.re /\ seen'.valid = seen.valid
    <2> DEFINE m == Calib!Max({exc, stats.max})
               p == Calib!Max({exc, stats.persist})
               r == seen.raced \/ stats.reading # {}
    <2>0. stats.max \in Measured \cup {0} /\ stats.persist \in Measured \cup {0}
      BY <1>t DEF StatStates
    <2>1. exc \in Nat /\ stats.max \in Nat /\ stats.persist \in Nat
      BY <1>m, <2>0, Zenon
    <2>2. /\ m \in {exc, stats.max} /\ m >= exc /\ m >= stats.max /\ m \in Nat
          /\ p \in {exc, stats.persist}
      BY <2>1, GreaterOfTwo
    <2>3. seen.top = stats.persist /\ r \in BOOLEAN
      BY DEF StatsInv
    <2>4. /\ stats' = [stats EXCEPT !.max = m, !.persist = p]
          /\ seen' = [seen EXCEPT !.top = p, !.unread = @ \cup {exc}, !.raced = r]
      BY <1>2, <2>3, Zenon
    <2> HIDE DEF m, p
    <2>5. /\ stats' \in StatStates /\ stats'.max = m /\ stats'.persist = p
          /\ stats'.reading = stats.reading
      BY <1>t, <2>2, <2>4 DEF StatStates
    <2>6. /\ seen' \in SeenStates /\ seen'.top = p /\ seen'.unread = seen.unread \cup {exc}
          /\ seen'.re = seen.re /\ seen'.valid = seen.valid
      <3> HIDE DEF r
      <3> QED BY <1>t, <2>2, <2>3, <2>4 DEF StatStates, SeenStates
    <2>7. ~seen'.raced => ~seen.raced /\ stats.reading = {}
      <3>1. seen'.raced = r
        <4> HIDE DEF r
        <4> QED BY <1>t, <2>4 DEF SeenStates
      <3> QED BY <3>1
    <2>8. use' = "statistics" /\ ~seen'.raced => \A e \in seen'.unread : e <= stats'.max
      <3> SUFFICES ASSUME use' = "statistics", ~seen'.raced, NEW e \in seen'.unread
                   PROVE  e <= m
        BY <2>5
      <3>1. CASE e = exc
        BY <2>1, <2>2, <3>1
      <3>2. CASE e \in seen.unread
        <4>0. seen.unread \subseteq Measured
          BY <1>t DEF SeenStates
        <4>1. e <= stats.max /\ e \in Nat
          BY <1>m, <1>u, <2>7, <3>2, <4>0 DEF StatsInv
        <4> QED BY <2>1, <2>2, <4>1
      <3> QED BY <2>6, <3>1, <3>2
    <2> QED BY <2>5, <2>6, <2>7, <2>8 DEF StatsInv
  <1>3. ASSUME stats.reading = {}, stats' = [stats EXCEPT !.reading = {stats.max}],
               seen' = [seen EXCEPT !.unread = {e \in @ : e > stats.max}]
        PROVE  /\ StatsInv' /\ seen' \in SeenStates
               /\ seen'.re = seen.re /\ seen'.valid = seen.valid
    <2>1. /\ stats' \in StatStates /\ stats'.max = stats.max /\ stats'.persist = stats.persist
      BY <1>t, <1>3 DEF StatStates
    <2>2. /\ seen' \in SeenStates /\ seen'.top = seen.top
          /\ seen'.unread = {e \in seen.unread : e > stats.max}
          /\ seen'.re = seen.re /\ seen'.valid = seen.valid /\ seen'.raced = seen.raced
      BY <1>t, <1>3 DEF SeenStates
    <2>3. use' = "statistics" /\ ~seen'.raced => seen'.unread = {}
      <3> SUFFICES ASSUME use' = "statistics", ~seen'.raced, NEW e \in seen'.unread
                   PROVE  FALSE
        OBVIOUS
      <3>1. e \in seen.unread /\ e > stats.max
        BY <2>2
      <3>2. seen.unread \subseteq Measured /\ stats.max \in Measured \cup {0}
        BY <1>t DEF SeenStates, StatStates
      <3>3. e \in Nat /\ stats.max \in Nat
        BY <1>m, <3>1, <3>2, Zenon
      <3>4. e <= stats.max
        BY <1>u, <2>2, <3>1 DEF StatsInv
      <3> QED BY <3>1, <3>3, <3>4
    <2> QED BY <2>1, <2>2, <2>3 DEF StatsInv
  <1>4. ASSUME stats.reading # {}, stats' = [stats EXCEPT !.reading = {}, !.max = 0],
               seen' = seen
        PROVE  /\ StatsInv' /\ seen' \in SeenStates
               /\ seen'.re = seen.re /\ seen'.valid = seen.valid
    <2>1. /\ stats' \in StatStates /\ stats'.reading = {} /\ stats'.persist = stats.persist
      BY <1>t, <1>4 DEF StatStates
    <2> QED BY <1>t, <1>u, <1>4, <2>1 DEF StatsInv
  <1>5. CASE Calib!StopAlgoProcessing
    BY <1>1, <1>2, <1>5, Zenon DEF Calib!StopAlgoProcessing
  <1>6. CASE Calib!ExcMaxShow
    BY <1>3, <1>4, <1>6, Zenon DEF Calib!ExcMaxShow
  <1> QED BY <1>5, <1>6

LEMMA ExcursionsHeld ==
    ASSUME StatsInv
    PROVE  Calib!ExcursionsKept
  BY DEF StatsInv, Calib!ExcursionsKept

--------------------------------------------------------------------------------
(* A resistance of less than 81 ohms, in the code's fixed point and back: the first quotient
   loses less than a hundredth of what the second divides by. *)
LEMMA ConvertedBack ==
    ASSUME NEW x \in 0..80, NEW y \in 0..99
    PROVE  LET v == Calib!TransfUserToImped(x, y)
           IN  /\ Calib!TransValToUserI(v) = x
               /\ Calib!TransValToUserM(v) \in {y, y - 1} /\ Calib!TransValToUserM(v) \in Nat
  <1> DEFINE r == (y * 524288) \div 100
             d == (100 * r) \div 524288
             e == (1000 * r) \div 524288
  <1>1. x \in Nat /\ x <= 80 /\ y \in Nat /\ y <= 99
    OBVIOUS
  <1>2. r \in Nat /\ 100 * r <= y * 524288 /\ y * 524288 < 100 * r + 100
    BY <1>1
  <1>v. Calib!TransfUserToImped(x, y) = [ohm |-> x, rest |-> r]
    BY DEF Calib!TransfUserToImped, Calib!Q19
  <1> HIDE DEF r
  <1>3. d \in Nat /\ 524288 * d <= 100 * r
    BY <1>2
  <1>4. e \in Nat /\ 524288 * e <= 1000 * r /\ 1000 * r < 524288 * e + 524288
    BY <1>2
  <1>d. Calib!TransValToUserI([ohm |-> x, rest |-> r]) = (((100 * x + d) % 8192) \div 100) % 256
    BY DEF Calib!TransValToUserI, Calib!Q19
  <1>e. Calib!TransValToUserM([ohm |-> x, rest |-> r]) = (e % 1000) \div 10
    BY DEF Calib!TransValToUserM, Calib!Q19
  <1> HIDE DEF d, e
  <1>5. d <= y
    BY <1>1, <1>2, <1>3
  <1>6. e = 10 * y \/ e = 10 * y - 1
    BY <1>1, <1>2, <1>4
  <1>7. (((100 * x + d) % 8192) \div 100) % 256 = x
    <2>1. (100 * x + d) % 8192 = 100 * x + d
      BY <1>1, <1>3, <1>5
    <2>2. (100 * x + d) \div 100 = x
      BY <1>1, <1>3, <1>5
    <2>3. x % 256 = x
      BY <1>1
    <2> QED BY <2>1, <2>2, <2>3
  <1>8. (e % 1000) \div 10 \in {y, y - 1} /\ (e % 1000) \div 10 \in Nat
    <2>1. e % 1000 = e
      BY <1>1, <1>4, <1>6
    <2>2. e \div 10 \in {y, y - 1} /\ e \div 10 \in Nat
      BY <1>1, <1>4, <1>6
    <2> QED BY <2>1, <2>2
  <1> QED BY <1>v, <1>d, <1>e, <1>7, <1>8

LEMMA RoundingStep ==
    ASSUME Calib!CalibAssumption, AnswersInv, Calib!Rounding
    PROVE  /\ Calib!Rounded' /\ seen' \in SeenStates
           /\ seen'.re = seen.re /\ seen'.valid = seen.valid
           /\ seen'.top = seen.top /\ seen'.unread = seen.unread /\ seen'.raced = seen.raced
  <1>t. seen \in SeenStates
    BY DEF AnswersInv
  <1>1. PICK x \in Ohms, y \in 0..99 :
          LET v == Calib!TransfUserToImped(x, y)
          IN  seen' = [seen EXCEPT !.rdc =
                    {<<100 * x + y, 100 * Calib!TransValToUserI(v) + Calib!TransValToUserM(v)>>}]
    BY Zenon DEF Calib!Rounding
  <1>2. x \in 0..80
    BY DEF Calib!CalibAssumption
  <1> DEFINE v == Calib!TransfUserToImped(x, y)
             a == 100 * x + y
             b == 100 * Calib!TransValToUserI(v) + Calib!TransValToUserM(v)
  <1>3. a \in Nat /\ b \in Nat /\ b \in {a, a - 1}
    <2>1. Calib!TransValToUserI(v) = x /\ Calib!TransValToUserM(v) \in {y, y - 1} /\ Calib!TransValToUserM(v) \in Nat
      BY <1>2, ConvertedBack
    <2>2. x \in Nat /\ y \in Nat
      BY <1>2
    <2> HIDE DEF v
    <2> QED BY <2>1, <2>2
  <1>4. seen' = [seen EXCEPT !.rdc = {<<a, b>>}]
    BY <1>1, Zenon
  <1> HIDE DEF a, b
  <1>5. /\ seen' \in SeenStates /\ seen'.rdc = {<<a, b>>}
        /\ seen'.re = seen.re /\ seen'.valid = seen.valid
        /\ seen'.top = seen.top /\ seen'.unread = seen.unread /\ seen'.raced = seen.raced
    BY <1>t, <1>3, <1>4 DEF SeenStates
  <1>6. Calib!Rounded'
    BY <1>3, <1>5 DEF Calib!Rounded
  <1> QED BY <1>5, <1>6

--------------------------------------------------------------------------------
(* Counts within their bounds, and resistances among those the DSP answers. *)
CalibBounds ==
    /\ calib.round <= Rounds /\ requests <= Calib!Max({1, Requests}) /\ failed <= AccessFaults
    /\ calib.re \in [Calib!Speakers -> Measured \cup {0}]

LEMMA BoundsInit ==
    ASSUME Calib!CalibAssumption, Calib!Init
    PROVE  CalibBounds
  <1>1. 0 <= Calib!Max({1, Requests}) /\ 0 <= AccessFaults /\ 1 <= Rounds
    BY GreaterOfTwo DEF Calib!CalibAssumption
  <1>2. Calib!All(0) \in [Calib!Speakers -> Measured \cup {0}]
    BY DEF Calib!All
  <1> QED BY <1>1, <1>2 DEF Calib!Init, CalibBounds

LEMMA BoundsStep ==
    ASSUME Calib!CalibAssumption, Calib!SharedTyped, CalibBounds, [Calib!Next]_calib_vars
    PROVE  CalibBounds'
  <1>t. calib \in Calib!CalibStates /\ requests \in Nat /\ failed \in Nat
    BY DEF Calib!SharedTyped
  <1>c. Rounds \in Nat \ {0} /\ Requests \in Nat /\ AccessFaults \in Nat
    BY DEF Calib!CalibAssumption
  <1>1. failed' <= AccessFaults
    <2>1. failed' = failed \/ \E ok \in BOOLEAN : Calib!Access(ok)
      BY Zenon DEF Calib!Next, calib_vars, Calib!CalibrationStore,
           Calib!UpdateCalibrationLimits, Calib!CalibInit, Calib!GetRe,
                   Calib!CalibDeinit, Calib!SaveCalibData, Calib!FinishCalib,
                   Calib!ValidationStore, Calib!ValidWorkStart,
                   Calib!GetValidStatus, Calib!ValidDeinit, Calib!RdcStore,
                   Calib!AmbTempStore, Calib!StartAlgoProcessing,
                   Calib!SendAlgoCalibration, Calib!StopAlgoProcessing, Calib!ExcMaxShow,
                   Calib!Rounding
    <2> QED BY <1>t, <1>c, <2>1 DEF Calib!Access, CalibBounds
  <1>2. requests' <= Calib!Max({1, Requests})
    <2>1. Calib!Max({1, Requests}) \in Nat /\ Requests <= Calib!Max({1, Requests}) /\ 1 <= Calib!Max({1, Requests})
      BY <1>c, GreaterOfTwo
    <2>2. requests' = requests \/ requests' = 1 \/ (requests < Requests /\ requests' = requests + 1)
      BY Zenon DEF Calib!Next, calib_vars, Calib!CalibrationStore,
           Calib!UpdateCalibrationLimits, Calib!CalibInit, Calib!GetRe,
                   Calib!CalibDeinit, Calib!SaveCalibData, Calib!FinishCalib,
                   Calib!ValidationStore, Calib!ValidWorkStart,
                   Calib!GetValidStatus, Calib!ValidDeinit, Calib!RdcStore,
                   Calib!AmbTempStore, Calib!StartAlgoProcessing,
                   Calib!SendAlgoCalibration, Calib!StopAlgoProcessing, Calib!ExcMaxShow,
                   Calib!Rounding, Calib!Ask
    <2> QED BY <1>t, <1>c, <2>1, <2>2 DEF CalibBounds
  <1>3. calib'.round <= Rounds /\ calib'.re \in [Calib!Speakers -> Measured \cup {0}]
    <2>0. calib.round <= Rounds /\ calib.re \in [Calib!Speakers -> Measured \cup {0}]
      BY DEF CalibBounds
    <2>1. CASE calib' = calib
      BY <2>0, <2>1
    <2>2. CASE Calib!CalibrationStore
      BY <1>t, <2>0, <2>2 DEF Calib!CalibrationStore, Calib!CalibStates
    <2>3. CASE Calib!UpdateCalibrationLimits
      <3>1. PICK ok \in BOOLEAN :
              calib' = [calib EXCEPT !.pending = FALSE, !.result = Calib!All("none"), !.re = Calib!All(0),
                                     !.round = 1, !.ch = 1, !.at = IF ok THEN "init" ELSE "idle"]
        BY <2>3 DEF Calib!UpdateCalibrationLimits
      <3>2. calib'.re = Calib!All(0) /\ calib'.round = 1
        BY <1>t, <3>1 DEF Calib!CalibStates
      <3> QED BY <1>c, <3>2 DEF Calib!All
    <2>4. CASE Calib!CalibInit \/ Calib!CalibDeinit
      <3>1. \/ calib' = Calib!NextSpeaker(calib)
            \/ \E p \in {"measure", "idle"} : calib' = [calib EXCEPT !.at = p]
        BY <2>4 DEF Calib!CalibInit, Calib!CalibDeinit
      <3>2. CASE calib' = Calib!NextSpeaker(calib)
        <4>1. /\ calib'.re = calib.re
              /\ (calib'.round = calib.round
                  \/ (calib.round < Rounds /\ calib'.round = calib.round + 1))
          BY <1>t, <3>2, NextSpeakerSame
        <4>2. calib.round \in Nat
          BY <1>t DEF Calib!CalibStates
        <4> QED BY <1>c, <2>0, <4>1, <4>2
      <3>3. CASE \E p \in {"measure", "idle"} : calib' = [calib EXCEPT !.at = p]
        BY <1>t, <2>0, <3>3 DEF Calib!CalibStates
      <3> QED BY <3>1, <3>2, <3>3
    <2>5. CASE Calib!GetRe
      <3>1. \/ calib' = [calib EXCEPT !.result[calib.ch] = "fail", !.at = "idle"]
            \/ \E rdc \in Measured :
                  calib' = [calib EXCEPT !.re[calib.ch] = rdc, !.at = "deinit",
                                         !.result[calib.ch] = Calib!CheckLimits(rdc)]
        BY <2>5, Zenon DEF Calib!GetRe
      <3>2. CASE calib' = [calib EXCEPT !.result[calib.ch] = "fail", !.at = "idle"]
        BY <1>t, <2>0, <3>2 DEF Calib!CalibStates
      <3>3. ASSUME NEW rdc \in Measured,
                   calib' = [calib EXCEPT !.re[calib.ch] = rdc, !.at = "deinit",
                                          !.result[calib.ch] = Calib!CheckLimits(rdc)]
            PROVE  calib'.round <= Rounds /\ calib'.re \in [Calib!Speakers -> Measured \cup {0}]
        <4>1. calib'.round = calib.round /\ calib'.re = [calib.re EXCEPT ![calib.ch] = rdc]
          BY <1>t, <3>3 DEF Calib!CalibStates
        <4> QED BY <2>0, <4>1
      <3> QED BY <3>1, <3>2, <3>3
    <2>6. CASE Calib!SaveCalibData \/ Calib!FinishCalib
      BY <1>t, <2>0, <2>6 DEF Calib!SaveCalibData, Calib!FinishCalib, Calib!CalibStates
    <2>7. \/ Calib!CalibrationStore \/ Calib!UpdateCalibrationLimits \/ Calib!CalibInit \/ Calib!GetRe
          \/ Calib!CalibDeinit \/ Calib!SaveCalibData \/ Calib!FinishCalib \/ calib' = calib
      BY Zenon DEF Calib!Next, calib_vars, Calib!ValidationStore, Calib!ValidWorkStart,
           Calib!GetValidStatus, Calib!ValidDeinit,
                   Calib!RdcStore, Calib!AmbTempStore, Calib!StartAlgoProcessing,
                   Calib!SendAlgoCalibration,
                   Calib!StopAlgoProcessing, Calib!ExcMaxShow, Calib!Rounding
    <2> QED BY <2>1, <2>2, <2>3, <2>4, <2>5, <2>6, <2>7
  <1> QED BY <1>1, <1>2, <1>3 DEF CalibBounds

--------------------------------------------------------------------------------
(* The speakers, together. *)
SpeakersInv ==
    /\ Calib!SharedTyped /\ CalibBounds
    /\ CalibInv /\ ValidInv /\ AnswersInv /\ SentInv /\ StatsInv /\ Calib!Rounded

LEMMA SpeakersInit ==
    ASSUME Calib!CalibAssumption, Calib!Init
    PROVE  SpeakersInv
  <1>1. Calib!Rounded
    BY DEF Calib!Init, Calib!Rounded
  <1> QED BY <1>1, SpeakersTypedInit, BoundsInit, CalibrationInvInit, AnswersInit, SentInit,
             StatsInit, Zenon DEF SpeakersInv

LEMMA SpeakersStep ==
    ASSUME Calib!CalibAssumption, SpeakersInv, [Calib!Next]_calib_vars
    PROVE  SpeakersInv'
  <1> USE DEF SpeakersInv
  <1>1. Calib!SharedTyped'
    BY SpeakersTypedStep
  <1>2. CalibBounds'
    BY BoundsStep
  <1>3. CalibInv' /\ ValidInv'
    BY CalibrationInvStep
  <1>f. failed' = 0 => failed = 0
    <2>1. failed' = failed \/ \E ok \in BOOLEAN : Calib!Access(ok)
      BY Zenon DEF Calib!Next, calib_vars, Calib!CalibrationStore,
           Calib!UpdateCalibrationLimits, Calib!CalibInit, Calib!GetRe,
                   Calib!CalibDeinit, Calib!SaveCalibData, Calib!FinishCalib,
                   Calib!ValidationStore, Calib!ValidWorkStart,
                   Calib!GetValidStatus, Calib!ValidDeinit, Calib!RdcStore,
                   Calib!AmbTempStore, Calib!StartAlgoProcessing,
                   Calib!SendAlgoCalibration, Calib!StopAlgoProcessing, Calib!ExcMaxShow,
                   Calib!Rounding
    <2> QED BY <2>1, FailuresCount
  <1>s. seen \in SeenStates
    BY DEF AnswersInv
  <1>4. CASE \/ Calib!CalibrationStore \/ Calib!UpdateCalibrationLimits \/ Calib!CalibInit \/ Calib!GetRe
             \/ Calib!CalibDeinit \/ Calib!SaveCalibData \/ Calib!FinishCalib
    <2>1. user' = user /\ stream' = stream /\ use' = use /\ stats' = stats
      BY <1>4, Zenon DEF Calib!CalibrationStore, Calib!UpdateCalibrationLimits,
           Calib!CalibInit, Calib!GetRe,
                         Calib!CalibDeinit, Calib!SaveCalibData, Calib!FinishCalib
    <2>2. dsp' = dsp \/ \E b : dsp' = [dsp EXCEPT !.calib[calib.ch] = b]
      BY <1>4, Zenon DEF Calib!CalibrationStore, Calib!UpdateCalibrationLimits,
           Calib!CalibInit, Calib!GetRe,
                         Calib!CalibDeinit, Calib!SaveCalibData, Calib!FinishCalib
    <2>3. dsp'.re = dsp.re /\ dsp'.temp = dsp.temp
      BY <2>2 DEF Calib!SharedTyped, Calib!DspStates
    <2>4. seen' = seen \/ \E rdc : seen' = [seen EXCEPT !.re[calib.ch] = rdc]
      BY <1>4, Zenon DEF Calib!CalibrationStore, Calib!UpdateCalibrationLimits,
           Calib!CalibInit, Calib!GetRe,
                         Calib!CalibDeinit, Calib!SaveCalibData, Calib!FinishCalib
    <2>5. /\ seen'.top = seen.top /\ seen'.unread = seen.unread /\ seen'.raced = seen.raced
          /\ seen'.rdc = seen.rdc
      BY <1>s, <2>4 DEF SeenStates
    <2>6. AnswersInv'
      BY <1>4, AnswersOfWorks
    <2>7. SentInv'
      BY <1>f, <2>1, <2>3, SentElsewhere
    <2>8. StatsInv' /\ Calib!Rounded'
      BY <2>1, <2>5 DEF StatsInv, Calib!Rounded
    <2> QED BY <1>1, <1>2, <1>3, <2>6, <2>7, <2>8
  <1>5. CASE Calib!ValidationStore \/ Calib!ValidWorkStart \/ Calib!GetValidStatus \/ Calib!ValidDeinit
    <2>1. user' = user /\ stream' = stream /\ use' = use /\ stats' = stats
      BY <1>5, Zenon DEF Calib!ValidationStore, Calib!ValidWorkStart, Calib!GetValidStatus,
           Calib!ValidDeinit
    <2>2. dsp' = dsp \/ \E s, b : dsp' = [dsp EXCEPT !.valid[s] = b]
      BY <1>5, Zenon DEF Calib!ValidationStore, Calib!ValidWorkStart, Calib!GetValidStatus,
           Calib!ValidDeinit
    <2>3. dsp'.re = dsp.re /\ dsp'.temp = dsp.temp
      BY <2>2 DEF Calib!SharedTyped, Calib!DspStates
    <2>4. \/ seen' = seen \/ seen' = [seen EXCEPT !.valid = Calib!All("none")]
          \/ \E r : seen' = [seen EXCEPT !.valid[valid.ch] = r]
      BY <1>5, Zenon DEF Calib!ValidationStore, Calib!ValidWorkStart, Calib!GetValidStatus,
           Calib!ValidDeinit
    <2>5. /\ seen'.top = seen.top /\ seen'.unread = seen.unread /\ seen'.raced = seen.raced
          /\ seen'.rdc = seen.rdc
      BY <1>s, <2>4 DEF SeenStates
    <2>6. AnswersInv'
      BY <1>5, AnswersOfValidation
    <2>7. SentInv'
      BY <1>f, <2>1, <2>3, SentElsewhere
    <2>8. StatsInv' /\ Calib!Rounded'
      BY <2>1, <2>5 DEF StatsInv, Calib!Rounded
    <2> QED BY <1>1, <1>2, <1>3, <2>6, <2>7, <2>8
  <1>6. CASE Calib!RdcStore \/ Calib!AmbTempStore \/ Calib!StartAlgoProcessing \/ Calib!SendAlgoCalibration
    <2>1. calib' = calib /\ valid' = valid /\ again' = again
      BY <1>6, Zenon DEF Calib!RdcStore, Calib!AmbTempStore, Calib!StartAlgoProcessing,
           Calib!SendAlgoCalibration
    <2>2. seen' = seen /\ stats' = stats /\ use' = use
      BY <1>6, Zenon DEF Calib!RdcStore, Calib!AmbTempStore, Calib!StartAlgoProcessing,
           Calib!SendAlgoCalibration
    <2>3. AnswersInv'
      BY <1>s, <2>1, <2>2, AnswersElsewhere
    <2>4. SentInv'
      BY <1>6, SentStep
    <2>5. StatsInv' /\ Calib!Rounded'
      BY <2>2 DEF StatsInv, Calib!Rounded
    <2> QED BY <1>1, <1>2, <1>3, <2>3, <2>4, <2>5
  <1>7. CASE Calib!StopAlgoProcessing \/ Calib!ExcMaxShow
    <2>1. calib' = calib /\ valid' = valid /\ again' = again /\ use' = use
      BY <1>7, Zenon DEF Calib!StopAlgoProcessing, Calib!ExcMaxShow
    <2>2. StatsInv' /\ seen' \in SeenStates /\ seen'.re = seen.re /\ seen'.valid = seen.valid
      BY <1>7, StatsStep
    <2>3. AnswersInv'
      BY <2>1, <2>2, AnswersElsewhere
    <2>4. SentInv'
      <3>1. CASE Calib!StopAlgoProcessing
        BY <3>1, SentStep
      <3>2. CASE Calib!ExcMaxShow
        <4>1. user' = user /\ stream' = stream /\ dsp' = dsp
          BY <3>2, Zenon DEF Calib!ExcMaxShow
        <4> QED BY <1>f, <2>1, <4>1, SentElsewhere
      <3> QED BY <1>7, <3>1, <3>2
    <2>5. Calib!Rounded'
      <3>1. CASE seen' = seen
        BY <3>1 DEF Calib!Rounded
      <3>2. ASSUME NEW u, seen' = [seen EXCEPT !.unread = u]
            PROVE  seen'.rdc = seen.rdc
        BY <1>s, <3>2 DEF SeenStates
      <3>3. ASSUME NEW t, NEW u, NEW r, seen' = [seen EXCEPT !.top = t, !.unread = u, !.raced = r]
            PROVE  seen'.rdc = seen.rdc
        BY <1>s, <3>3 DEF SeenStates
      <3>4. CASE Calib!StopAlgoProcessing
        <4> SUFFICES seen'.rdc = seen.rdc
          BY DEF Calib!Rounded
        <4>1. \/ seen' = seen
              \/ \E exc \in Measured :
                    seen' = [seen EXCEPT !.top = Calib!Max({exc, seen.top}),
                                         !.unread = seen.unread \cup {exc},
                                         !.raced = (seen.raced \/ stats.reading # {})]
          BY <3>4, Zenon DEF Calib!StopAlgoProcessing
        <4> QED BY <3>1, <3>3, <4>1, Zenon
      <3>5. CASE Calib!ExcMaxShow
        <4> SUFFICES seen'.rdc = seen.rdc
          BY DEF Calib!Rounded
        <4>1. seen' = seen \/ \E u : seen' = [seen EXCEPT !.unread = u]
          BY <3>5, Zenon DEF Calib!ExcMaxShow
        <4> QED BY <3>1, <3>2, <4>1, Zenon
      <3> QED BY <1>7, <3>4, <3>5
    <2> QED BY <1>1, <1>2, <1>3, <2>2, <2>3, <2>4, <2>5
  <1>8. CASE Calib!Rounding
    <2>1. calib' = calib /\ valid' = valid /\ again' = again /\ use' = use /\ stats' = stats
      BY <1>8, Zenon DEF Calib!Rounding
    <2>2. user' = user /\ stream' = stream /\ dsp' = dsp
      BY <1>8, Zenon DEF Calib!Rounding
    <2>3. AnswersInv' /\ Calib!Rounded'
      BY <1>8, <2>1, RoundingStep, AnswersElsewhere
    <2>4. SentInv'
      BY <1>f, <2>1, <2>2, SentElsewhere
    <2>5. StatsInv'
      BY <1>8, <2>1, RoundingStep DEF StatsInv
    <2> QED BY <1>1, <1>2, <1>3, <2>3, <2>4, <2>5
  <1>9. CASE UNCHANGED calib_vars
    <2>1. calib' = calib /\ valid' = valid /\ again' = again /\ use' = use /\ stats' = stats
      BY <1>9, Zenon DEF calib_vars
    <2>2. user' = user /\ stream' = stream /\ dsp' = dsp /\ seen' = seen
      BY <1>9, Zenon DEF calib_vars
    <2>3. AnswersInv'
      BY <1>s, <2>1, <2>2, AnswersElsewhere
    <2>4. SentInv'
      BY <1>f, <2>1, <2>2, SentElsewhere
    <2>5. StatsInv' /\ Calib!Rounded'
      BY <2>1, <2>2 DEF StatsInv, Calib!Rounded
    <2> QED BY <1>1, <1>2, <1>3, <2>3, <2>4, <2>5
  <1> QED BY <1>4, <1>5, <1>6, <1>7, <1>8, <1>9 DEF Calib!Next

LEMMA SpeakersSafe ==
    ASSUME SpeakersInv
    PROVE  /\ Calib!TypeOK
           /\ Calib!ResultsShown /\ Calib!ExcursionsKept /\ Calib!Rounded
           /\ Calib!LeftClean /\ Calib!CalibrationSent
  <1>1. Calib!TypeOK
    BY DEF SpeakersInv, Calib!TypeOK, CalibBounds, StatsInv, StatStates, AnswersInv, SeenStates
  <1>2. Calib!ResultsShown /\ Calib!ExcursionsKept /\ Calib!Rounded /\ Calib!LeftClean /\ Calib!CalibrationSent
    BY ResultsHeld, ExcursionsHeld, CleanHeld, SentHeld, Zenon DEF SpeakersInv
  <1> QED BY <1>1, <1>2, Zenon

--------------------------------------------------------------------------------
(* The TAS25xx: what its operations do to the state of the driver and of a chip *)

Kinds == {"clock", "other"}
ChipStates == [power : {"off", "on", "muted"}, intr : BOOLEAN, set : Nat]

TasStates ==
    [fw_state : {"LOAD_FAIL", "OK"}, m_power_state : {"active", "mute", "shutdown"},
     mn_fmt : Nat, mn_fmt_mode : {0, 1, 2}, mn_rx_width : Nat, mn_tx_slot_width : Nat,
     sample_rate : Nat, curr_val : Nat,
     chip : [Tas!Channels -> ChipStates], latched : [Tas!Channels -> SUBSET Kinds],
     detected : [Tas!Channels -> SUBSET Kinds], irq_count : [Tas!Channels -> Nat],
     init_work : [Tas!Channels -> SUBSET {"pending", "started"}], irq_work : BOOLEAN,
     lost : BOOLEAN, stray : SUBSET Tas!Channels, disarmed : SUBSET Tas!Channels,
     missed : SUBSET Tas!Channels]

Params(t) ==
    <<t.fw_state, t.mn_fmt, t.mn_fmt_mode, t.mn_rx_width, t.mn_tx_slot_width, t.curr_val>>

(* The works and what they go by, but for those that end a power-up *)
Faults(t) == <<t.latched, t.detected, t.irq_count, t.irq_work>>

LEMMA ChipPart ==
    ASSUME NEW q \in [Tas!Channels -> ChipStates], NEW c \in Tas!Channels
    PROVE  /\ q[c] = [power |-> q[c].power, intr |-> q[c].intr, set |-> q[c].set]
           /\ q[c].power \in {"off", "on", "muted"}
           /\ q[c].intr \in BOOLEAN
           /\ q[c].set \in Nat
  <1>1. q[c] \in ChipStates
    OBVIOUS
  <1> QED BY <1>1 DEF ChipStates

LEMMA ChipPower ==
    ASSUME NEW q \in [Tas!Channels -> ChipStates], NEW c \in Tas!Channels,
           NEW p \in {"off", "on", "muted"}
    PROVE  LET n == [q EXCEPT ![c].power = p]
           IN  /\ n \in [Tas!Channels -> ChipStates]
               /\ n[c].power = p /\ n[c].intr = q[c].intr /\ n[c].set = q[c].set
               /\ \A d \in Tas!Channels \ {c} : n[d] = q[d]
  BY ChipPart DEF ChipStates

LEMMA ChipIntr ==
    ASSUME NEW q \in [Tas!Channels -> ChipStates], NEW c \in Tas!Channels, NEW b \in BOOLEAN
    PROVE  LET n == [q EXCEPT ![c].intr = b]
           IN  /\ n \in [Tas!Channels -> ChipStates]
               /\ n[c].power = q[c].power /\ n[c].intr = b /\ n[c].set = q[c].set
               /\ \A d \in Tas!Channels \ {c} : n[d] = q[d]
  BY ChipPart DEF ChipStates

LEMMA ChipSet ==
    ASSUME NEW q \in [Tas!Channels -> ChipStates], NEW c \in Tas!Channels, NEW v \in Nat
    PROVE  LET n == [q EXCEPT ![c].set = v]
           IN  /\ n \in [Tas!Channels -> ChipStates]
               /\ n[c].power = q[c].power /\ n[c].intr = q[c].intr /\ n[c].set = v
               /\ \A d \in Tas!Channels \ {c} : n[d] = q[d]
  BY ChipPart DEF ChipStates

LEMMA WithMode ==
    ASSUME NEW t \in TasStates, NEW s \in {"active", "mute", "shutdown"}
    PROVE  LET r == [t EXCEPT !.m_power_state = s]
           IN  /\ r \in TasStates /\ r.m_power_state = s
               /\ Params(r) = Params(t) /\ r.chip = t.chip /\ r.latched = t.latched
               /\ r.detected = t.detected /\ r.irq_count = t.irq_count
               /\ r.irq_work = t.irq_work /\ r.init_work = t.init_work /\ r.lost = t.lost
               /\ r.stray = t.stray /\ r.disarmed = t.disarmed /\ r.missed = t.missed
  BY DEF TasStates, Params

LEMMA WithChip ==
    ASSUME NEW t \in TasStates, NEW q \in [Tas!Channels -> ChipStates]
    PROVE  LET r == [t EXCEPT !.chip = q]
           IN  /\ r \in TasStates /\ r.chip = q
               /\ Params(r) = Params(t) /\ r.m_power_state = t.m_power_state
               /\ r.latched = t.latched /\ r.detected = t.detected
               /\ r.irq_count = t.irq_count /\ r.irq_work = t.irq_work
               /\ r.init_work = t.init_work /\ r.lost = t.lost /\ r.stray = t.stray
               /\ r.disarmed = t.disarmed /\ r.missed = t.missed
  BY DEF TasStates, Params

LEMMA WithLatched ==
    ASSUME NEW t \in TasStates, NEW q \in [Tas!Channels -> SUBSET Kinds]
    PROVE  LET r == [t EXCEPT !.latched = q]
           IN  /\ r \in TasStates /\ r.latched = q
               /\ Params(r) = Params(t) /\ r.m_power_state = t.m_power_state
               /\ r.chip = t.chip /\ r.detected = t.detected /\ r.irq_count = t.irq_count
               /\ r.irq_work = t.irq_work /\ r.init_work = t.init_work /\ r.lost = t.lost
               /\ r.stray = t.stray /\ r.disarmed = t.disarmed /\ r.missed = t.missed
  BY DEF TasStates, Params

LEMMA WithDetected ==
    ASSUME NEW t \in TasStates, NEW q \in [Tas!Channels -> SUBSET Kinds]
    PROVE  LET r == [t EXCEPT !.detected = q]
           IN  /\ r \in TasStates /\ r.detected = q
               /\ Params(r) = Params(t) /\ r.m_power_state = t.m_power_state
               /\ r.chip = t.chip /\ r.latched = t.latched /\ r.irq_count = t.irq_count
               /\ r.irq_work = t.irq_work /\ r.init_work = t.init_work /\ r.lost = t.lost
               /\ r.stray = t.stray /\ r.disarmed = t.disarmed /\ r.missed = t.missed
  BY DEF TasStates, Params

LEMMA WithCount ==
    ASSUME NEW t \in TasStates, NEW q \in [Tas!Channels -> Nat]
    PROVE  LET r == [t EXCEPT !.irq_count = q]
           IN  /\ r \in TasStates /\ r.irq_count = q
               /\ Params(r) = Params(t) /\ r.m_power_state = t.m_power_state
               /\ r.chip = t.chip /\ r.latched = t.latched /\ r.detected = t.detected
               /\ r.irq_work = t.irq_work /\ r.init_work = t.init_work /\ r.lost = t.lost
               /\ r.stray = t.stray /\ r.disarmed = t.disarmed /\ r.missed = t.missed
  BY DEF TasStates, Params

LEMMA WithWork ==
    ASSUME NEW t \in TasStates, NEW b \in BOOLEAN
    PROVE  LET r == [t EXCEPT !.irq_work = b]
           IN  /\ r \in TasStates /\ r.irq_work = b
               /\ Params(r) = Params(t) /\ r.m_power_state = t.m_power_state
               /\ r.chip = t.chip /\ r.latched = t.latched /\ r.detected = t.detected
               /\ r.irq_count = t.irq_count /\ r.init_work = t.init_work /\ r.lost = t.lost
               /\ r.stray = t.stray /\ r.disarmed = t.disarmed /\ r.missed = t.missed
  BY DEF TasStates, Params

LEMMA WithInit ==
    ASSUME NEW t \in TasStates, NEW q \in [Tas!Channels -> SUBSET {"pending", "started"}]
    PROVE  LET r == [t EXCEPT !.init_work = q]
           IN  /\ r \in TasStates /\ r.init_work = q
               /\ Params(r) = Params(t) /\ r.m_power_state = t.m_power_state
               /\ r.chip = t.chip /\ r.latched = t.latched /\ r.detected = t.detected
               /\ r.irq_count = t.irq_count /\ r.irq_work = t.irq_work /\ r.lost = t.lost
               /\ r.stray = t.stray /\ r.disarmed = t.disarmed /\ r.missed = t.missed
  BY DEF TasStates, Params

LEMMA WithLost ==
    ASSUME NEW t \in TasStates, NEW b \in BOOLEAN
    PROVE  LET r == [t EXCEPT !.lost = b]
           IN  /\ r \in TasStates /\ r.lost = b
               /\ Params(r) = Params(t) /\ r.m_power_state = t.m_power_state
               /\ r.chip = t.chip /\ r.latched = t.latched /\ r.detected = t.detected
               /\ r.irq_count = t.irq_count /\ r.irq_work = t.irq_work
               /\ r.init_work = t.init_work /\ r.stray = t.stray /\ r.disarmed = t.disarmed
               /\ r.missed = t.missed
  BY DEF TasStates, Params

LEMMA WithStray ==
    ASSUME NEW t \in TasStates, NEW s \in SUBSET Tas!Channels
    PROVE  LET r == [t EXCEPT !.stray = s]
           IN  /\ r \in TasStates /\ r.stray = s
               /\ Params(r) = Params(t) /\ r.m_power_state = t.m_power_state
               /\ r.chip = t.chip /\ r.latched = t.latched /\ r.detected = t.detected
               /\ r.irq_count = t.irq_count /\ r.irq_work = t.irq_work
               /\ r.init_work = t.init_work /\ r.lost = t.lost /\ r.disarmed = t.disarmed
               /\ r.missed = t.missed
  BY DEF TasStates, Params

LEMMA WithDisarmed ==
    ASSUME NEW t \in TasStates, NEW s \in SUBSET Tas!Channels
    PROVE  LET r == [t EXCEPT !.disarmed = s]
           IN  /\ r \in TasStates /\ r.disarmed = s
               /\ Params(r) = Params(t) /\ r.m_power_state = t.m_power_state
               /\ r.chip = t.chip /\ r.latched = t.latched /\ r.detected = t.detected
               /\ r.irq_count = t.irq_count /\ r.irq_work = t.irq_work
               /\ r.init_work = t.init_work /\ r.lost = t.lost /\ r.stray = t.stray
               /\ r.missed = t.missed
  BY DEF TasStates, Params

LEMMA WithMissed ==
    ASSUME NEW t \in TasStates, NEW s \in SUBSET Tas!Channels
    PROVE  LET r == [t EXCEPT !.missed = s]
           IN  /\ r \in TasStates /\ r.missed = s
               /\ Params(r) = Params(t) /\ r.m_power_state = t.m_power_state
               /\ r.chip = t.chip /\ r.latched = t.latched /\ r.detected = t.detected
               /\ r.irq_count = t.irq_count /\ r.irq_work = t.irq_work
               /\ r.init_work = t.init_work /\ r.lost = t.lost /\ r.stray = t.stray
               /\ r.disarmed = t.disarmed
  BY DEF TasStates, Params

LEMMA ClearEffect ==
    ASSUME NEW t \in TasStates, NEW c \in Tas!Channels
    PROVE  LET r == Tas!InterruptClear(t, c)
           IN  /\ r \in TasStates
               /\ r.latched[c] = {}
               /\ \A d \in Tas!Channels \ {c} : r.latched[d] = t.latched[d]
               /\ r.missed = t.missed \ {c}
               /\ Params(r) = Params(t) /\ r.m_power_state = t.m_power_state
               /\ r.chip = t.chip /\ r.detected = t.detected /\ r.irq_count = t.irq_count
               /\ r.irq_work = t.irq_work /\ r.init_work = t.init_work /\ r.lost = t.lost
               /\ r.stray = t.stray /\ r.disarmed = t.disarmed
  BY DEF Tas!InterruptClear, TasStates, Params

LEMMA DisableEffect ==
    ASSUME NEW t \in TasStates, NEW c \in Tas!Channels
    PROVE  LET r == Tas!InterruptDisable(t, c)
           IN  /\ r \in TasStates
               /\ r.chip[c].power = t.chip[c].power /\ r.chip[c].set = t.chip[c].set
               /\ r.chip[c].intr = FALSE
               /\ \A d \in Tas!Channels \ {c} : r.chip[d] = t.chip[d]
               /\ Params(r) = Params(t) /\ r.m_power_state = t.m_power_state
               /\ r.latched = t.latched /\ r.detected = t.detected
               /\ r.irq_count = t.irq_count /\ r.irq_work = t.irq_work
               /\ r.init_work = t.init_work /\ r.lost = t.lost /\ r.stray = t.stray
               /\ r.disarmed = t.disarmed /\ r.missed = t.missed
  <1>1. t.chip \in [Tas!Channels -> ChipStates]
    BY DEF TasStates
  <1> DEFINE q == [t.chip EXCEPT ![c].intr = FALSE]
  <1>2. /\ q \in [Tas!Channels -> ChipStates]
        /\ q[c].power = t.chip[c].power /\ q[c].intr = FALSE /\ q[c].set = t.chip[c].set
        /\ \A d \in Tas!Channels \ {c} : q[d] = t.chip[d]
    BY <1>1, ChipIntr
  <1>3. Tas!InterruptDisable(t, c) = [t EXCEPT !.chip = q]
    BY DEF Tas!InterruptDisable
  <1> HIDE DEF q
  <1> QED BY <1>2, <1>3, WithChip

LEMMA DetectEffect ==
    ASSUME NEW t \in TasStates, NEW c \in Tas!Channels
    PROVE  LET r == Tas!Detect(t, c)
           IN  /\ r \in TasStates
               /\ r.detected[c] = t.detected[c] \cup Tas!InterruptRead(t, c)
               /\ \A d \in Tas!Channels \ {c} : r.detected[d] = t.detected[d]
               /\ Params(r) = Params(t) /\ r.m_power_state = t.m_power_state
               /\ r.chip = t.chip /\ r.latched = t.latched /\ r.irq_count = t.irq_count
               /\ r.irq_work = t.irq_work /\ r.init_work = t.init_work /\ r.lost = t.lost
               /\ r.stray = t.stray /\ r.disarmed = t.disarmed /\ r.missed = t.missed
  <1> DEFINE q == [t.detected EXCEPT ![c] = @ \cup Tas!InterruptRead(t, c)]
  <1>1. Tas!InterruptRead(t, c) \in SUBSET Kinds
    BY DEF Tas!InterruptRead, TasStates
  <1>2. /\ q \in [Tas!Channels -> SUBSET Kinds] /\ q[c] = t.detected[c] \cup Tas!InterruptRead(t, c)
        /\ \A d \in Tas!Channels \ {c} : q[d] = t.detected[d]
    BY <1>1 DEF TasStates
  <1>3. Tas!Detect(t, c) = [t EXCEPT !.detected = q]
    BY DEF Tas!Detect
  <1> HIDE DEF q
  <1> QED BY <1>2, <1>3, WithDetected

LEMMA ArmlessEffect ==
    ASSUME NEW t \in TasStates, NEW c \in Tas!Channels
    PROVE  LET r == Tas!Armless(t, c)
           IN  /\ r \in TasStates
               /\ r.disarmed = t.disarmed \cup {c}
               /\ Params(r) = Params(t) /\ r.m_power_state = t.m_power_state
               /\ r.chip = t.chip /\ r.latched = t.latched /\ r.detected = t.detected
               /\ r.irq_count = t.irq_count /\ r.irq_work = t.irq_work
               /\ r.init_work = t.init_work /\ r.lost = t.lost /\ r.stray = t.stray
               /\ r.missed = t.missed
  BY DEF Tas!Armless, TasStates, Params

LEMMA MuteEffect ==
    ASSUME NEW t \in TasStates, NEW c \in Tas!Channels
    PROVE  LET r == Tas!Mute(t, c)
           IN  /\ r \in TasStates
               /\ r.chip[c].power = IF t.chip[c].power = "on" THEN "muted" ELSE t.chip[c].power
               /\ r.chip[c].set = t.chip[c].set /\ r.chip[c].intr = t.chip[c].intr
               /\ \A d \in Tas!Channels \ {c} : r.chip[d] = t.chip[d]
               /\ Params(r) = Params(t) /\ r.m_power_state = t.m_power_state
               /\ r.latched = t.latched /\ r.detected = t.detected
               /\ r.irq_count = t.irq_count /\ r.irq_work = t.irq_work
               /\ r.init_work = t.init_work /\ r.lost = t.lost /\ r.stray = t.stray
               /\ r.disarmed = t.disarmed /\ r.missed = t.missed
  <1>1. t.chip \in [Tas!Channels -> ChipStates]
    BY DEF TasStates
  <1>2. CASE t.chip[c].power = "on"
    <2> DEFINE q == [t.chip EXCEPT ![c].power = "muted"]
    <2>1. /\ q \in [Tas!Channels -> ChipStates]
          /\ q[c].power = "muted" /\ q[c].intr = t.chip[c].intr /\ q[c].set = t.chip[c].set
          /\ \A d \in Tas!Channels \ {c} : q[d] = t.chip[d]
      BY <1>1, ChipPower
    <2>2. Tas!Mute(t, c) = [t EXCEPT !.chip = q]
      BY <1>2 DEF Tas!Mute
    <2> HIDE DEF q
    <2> QED BY <1>2, <2>1, <2>2, WithChip
  <1>3. CASE t.chip[c].power # "on"
    <2>1. Tas!Mute(t, c) = t
      BY <1>1, <1>3, ChipPart DEF Tas!Mute, TasStates, ChipStates
    <2> QED BY <1>3, <2>1
  <1> QED BY <1>2, <1>3

LEMMA KcontrolEffect ==
    ASSUME NEW t \in TasStates, NEW when
    PROVE  LET r == Tas!UpdateKcontrolData(t, when)
           IN  /\ r \in TasStates
               /\ r.chip[1].set = IF setting = when THEN t.curr_val ELSE t.chip[1].set
               /\ r.chip[1].power = t.chip[1].power /\ r.chip[1].intr = t.chip[1].intr
               /\ r.chip[2] = t.chip[2]
               /\ Params(r) = Params(t) /\ r.m_power_state = t.m_power_state
               /\ r.latched = t.latched /\ r.detected = t.detected
               /\ r.irq_count = t.irq_count /\ r.irq_work = t.irq_work
               /\ r.init_work = t.init_work /\ r.lost = t.lost /\ r.stray = t.stray
               /\ r.disarmed = t.disarmed /\ r.missed = t.missed
  <1>1. t.chip \in [Tas!Channels -> ChipStates] /\ t.curr_val \in Nat
    BY DEF TasStates
  <1>2. 1 \in Tas!Channels /\ 2 \in Tas!Channels \ {1}
    BY DEF Tas!Channels
  <1>3. CASE setting = when
    <2> DEFINE v == t.curr_val
               q == [t.chip EXCEPT ![1].set = v]
    <2>1. /\ q \in [Tas!Channels -> ChipStates]
          /\ q[1].power = t.chip[1].power /\ q[1].intr = t.chip[1].intr /\ q[1].set = v
          /\ q[2] = t.chip[2]
      <3>1. v \in Nat
        BY <1>1
      <3> HIDE DEF v
      <3> QED BY <1>1, <1>2, <3>1, ChipSet
    <2>2. Tas!UpdateKcontrolData(t, when) = [t EXCEPT !.chip = q]
      BY <1>3 DEF Tas!UpdateKcontrolData
    <2> HIDE DEF q
    <2> QED BY <1>3, <2>1, <2>2, WithChip
  <1>4. CASE setting # when
    BY <1>4 DEF Tas!UpdateKcontrolData
  <1> QED BY <1>3, <1>4

LEMMA WriteEffect ==
    ASSUME NEW t \in TasStates, NEW s, NEW v \in Nat
    PROVE  LET r == Tas!Write(t, s, v)
           IN  /\ r \in TasStates
               /\ \A c \in Tas!Channels :
                    /\ r.chip[c].set = IF setting = s THEN v ELSE t.chip[c].set
                    /\ r.chip[c].power = t.chip[c].power
                    /\ r.chip[c].intr = t.chip[c].intr
               /\ Params(r) = Params(t) /\ r.m_power_state = t.m_power_state
               /\ r.latched = t.latched /\ r.detected = t.detected
               /\ r.irq_count = t.irq_count /\ r.irq_work = t.irq_work
               /\ r.init_work = t.init_work /\ r.lost = t.lost /\ r.stray = t.stray
               /\ r.disarmed = t.disarmed /\ r.missed = t.missed
  <1>1. t.chip \in [Tas!Channels -> ChipStates]
    BY DEF TasStates
  <1>2. CASE setting = s
    <2> DEFINE q == [c \in Tas!Channels |-> [t.chip[c] EXCEPT !.set = v]]
    <2>1. /\ q \in [Tas!Channels -> ChipStates]
          /\ \A c \in Tas!Channels : q[c].power = t.chip[c].power /\ q[c].intr = t.chip[c].intr
                                /\ q[c].set = v
      BY <1>1, ChipPart DEF ChipStates
    <2>2. Tas!Write(t, s, v) = [t EXCEPT !.chip = q]
      BY <1>2 DEF Tas!Write
    <2> HIDE DEF q
    <2> QED BY <1>2, <2>1, <2>2, WithChip
  <1>3. CASE setting # s
    BY <1>3 DEF Tas!Write
  <1> QED BY <1>2, <1>3

Enabled(r, t, c) ==
    /\ r \in TasStates
    /\ r.chip[c].power = t.chip[c].power /\ r.chip[c].set = t.chip[c].set
    /\ r.chip[c].intr = TRUE
    /\ \A d \in Tas!Channels \ {c} : r.chip[d] = t.chip[d]
    /\ r.irq_count[c] = 0
    /\ \A d \in Tas!Channels \ {c} : r.irq_count[d] = t.irq_count[d]
    /\ r.irq_work = (t.irq_work \/ t.latched[c] # {})
    /\ r.disarmed = t.disarmed \ {c}
    /\ Params(r) = Params(t) /\ r.m_power_state = t.m_power_state
    /\ r.latched = t.latched /\ r.detected = t.detected
    /\ r.init_work = t.init_work /\ r.lost = t.lost /\ r.stray = t.stray
    /\ r.missed = t.missed

LEMMA EnableEffect ==
    ASSUME NEW t \in TasStates, NEW c \in Tas!Channels
    PROVE  Enabled(Tas!InterruptEnable(t, c), t, c)
  <1> DEFINE q == [t.chip EXCEPT ![c].intr = TRUE]
             x == [t EXCEPT !.chip = q]
             n == [t.irq_count EXCEPT ![c] = 0]
             y == [x EXCEPT !.irq_count = n]
             s == t.disarmed \ {c}
             z == [y EXCEPT !.disarmed = s]
             b == (t.irq_work \/ t.latched[c] # {})
             w == [z EXCEPT !.irq_work = b]
  <1>0. t.chip \in [Tas!Channels -> ChipStates]
    BY DEF TasStates
  <1>1. /\ q \in [Tas!Channels -> ChipStates]
        /\ q[c].power = t.chip[c].power /\ q[c].intr = TRUE /\ q[c].set = t.chip[c].set
        /\ \A d \in Tas!Channels \ {c} : q[d] = t.chip[d]
    BY <1>0, ChipIntr
  <1>x1. q \in [Tas!Channels -> ChipStates]
    BY <1>1
  <1>x2. /\ x \in TasStates /\ x.chip = q
          /\ Params(x) = Params(t) /\ x.m_power_state = t.m_power_state
          /\ x.latched = t.latched /\ x.detected = t.detected /\ x.irq_count = t.irq_count
          /\ x.irq_work = t.irq_work /\ x.init_work = t.init_work /\ x.lost = t.lost
          /\ x.stray = t.stray /\ x.disarmed = t.disarmed /\ x.missed = t.missed
    <2> HIDE DEF q
    <2> QED BY <1>x1, WithChip
  <1>y1. n \in [Tas!Channels -> Nat]
    BY DEF TasStates
  <1>y2. /\ y \in TasStates /\ y.irq_count = n
          /\ Params(y) = Params(x) /\ y.m_power_state = x.m_power_state /\ y.chip = x.chip
          /\ y.latched = x.latched /\ y.detected = x.detected /\ y.irq_work = x.irq_work
          /\ y.init_work = x.init_work /\ y.lost = x.lost /\ y.stray = x.stray
          /\ y.disarmed = x.disarmed /\ y.missed = x.missed
    <2> HIDE DEF n, x
    <2> QED BY <1>x2, <1>y1, WithCount
  <1>z1. s \in SUBSET Tas!Channels
    BY DEF TasStates
  <1>z2. /\ z \in TasStates /\ z.disarmed = s
          /\ Params(z) = Params(y) /\ z.m_power_state = y.m_power_state /\ z.chip = y.chip
          /\ z.latched = y.latched /\ z.detected = y.detected /\ z.irq_count = y.irq_count
          /\ z.irq_work = y.irq_work /\ z.init_work = y.init_work /\ z.lost = y.lost
          /\ z.stray = y.stray /\ z.missed = y.missed
    <2> HIDE DEF s, y
    <2> QED BY <1>y2, <1>z1, WithDisarmed
  <1>w1. b \in BOOLEAN
    OBVIOUS
  <1>w2. /\ w \in TasStates /\ w.irq_work = b
          /\ Params(w) = Params(z) /\ w.m_power_state = z.m_power_state /\ w.chip = z.chip
          /\ w.latched = z.latched /\ w.detected = z.detected /\ w.irq_count = z.irq_count
          /\ w.init_work = z.init_work /\ w.lost = z.lost /\ w.stray = z.stray
          /\ w.disarmed = z.disarmed /\ w.missed = z.missed
    <2> HIDE DEF b, z
    <2> QED BY <1>z2, <1>w1, WithWork
  <1>r. Tas!InterruptEnable(t, c) = w
    BY <1>x2, <1>y2, <1>z2 DEF Tas!InterruptEnable, TasStates
  <1>v. n[c] = 0 /\ \A d \in Tas!Channels \ {c} : n[d] = t.irq_count[d]
    BY DEF TasStates
  <1>u. w.irq_work = (t.irq_work \/ t.latched[c] # {})
    BY <1>w2
  <1>t. w.chip = q /\ w.irq_count = n
    BY <1>x2, <1>y2, <1>z2, <1>w2
  <1> HIDE DEF q, x, y, z, w, n
  <1>s. Params(w) = Params(t) /\ w.m_power_state = t.m_power_state
         /\ w.latched = t.latched /\ w.detected = t.detected
         /\ w.init_work = t.init_work /\ w.lost = t.lost /\ w.stray = t.stray
         /\ w.missed = t.missed /\ w.disarmed = s /\ w \in TasStates
    BY <1>x2, <1>y2, <1>z2, <1>w2
  <1>q. Enabled(w, t, c)
    BY <1>s, <1>t, <1>u, <1>v, <1>1 DEF Enabled
  <1> QED BY <1>r, <1>q

LEMMA TurnedOn ==
    ASSUME NEW t \in TasStates, NEW c \in Tas!Channels
    PROVE  LET r == [t EXCEPT !.chip[c].power = "on", !.init_work[c] = @ \cup {"pending"}]
           IN  /\ r \in TasStates
               /\ r.chip[c].power = "on" /\ r.chip[c].set = t.chip[c].set
               /\ r.chip[c].intr = t.chip[c].intr
               /\ \A d \in Tas!Channels \ {c} : r.chip[d] = t.chip[d]
               /\ r.init_work[c] = t.init_work[c] \cup {"pending"}
               /\ \A d \in Tas!Channels \ {c} : r.init_work[d] = t.init_work[d]
               /\ Params(r) = Params(t) /\ r.m_power_state = t.m_power_state
               /\ r.latched = t.latched /\ r.detected = t.detected
               /\ r.irq_count = t.irq_count /\ r.irq_work = t.irq_work /\ r.lost = t.lost
               /\ r.stray = t.stray /\ r.disarmed = t.disarmed /\ r.missed = t.missed
  <1> DEFINE q == [t.chip EXCEPT ![c].power = "on"]
             x == [t EXCEPT !.chip = q]
             n == [t.init_work EXCEPT ![c] = @ \cup {"pending"}]
             y == [x EXCEPT !.init_work = n]
  <1>0. t.chip \in [Tas!Channels -> ChipStates]
    BY DEF TasStates
  <1>1. /\ q \in [Tas!Channels -> ChipStates]
        /\ q[c].power = "on" /\ q[c].intr = t.chip[c].intr /\ q[c].set = t.chip[c].set
        /\ \A d \in Tas!Channels \ {c} : q[d] = t.chip[d]
    BY <1>0, ChipPower
  <1>2. /\ n \in [Tas!Channels -> SUBSET {"pending", "started"}]
        /\ n[c] = t.init_work[c] \cup {"pending"}
        /\ \A d \in Tas!Channels \ {c} : n[d] = t.init_work[d]
    BY DEF TasStates
  <1>x1. q \in [Tas!Channels -> ChipStates]
    BY <1>1
  <1>x2. /\ x \in TasStates /\ x.chip = q
          /\ Params(x) = Params(t) /\ x.m_power_state = t.m_power_state
          /\ x.latched = t.latched /\ x.detected = t.detected /\ x.irq_count = t.irq_count
          /\ x.irq_work = t.irq_work /\ x.init_work = t.init_work /\ x.lost = t.lost
          /\ x.stray = t.stray /\ x.disarmed = t.disarmed /\ x.missed = t.missed
    <2> HIDE DEF q
    <2> QED BY <1>x1, WithChip
  <1>y1. n \in [Tas!Channels -> SUBSET {"pending", "started"}]
    BY <1>2
  <1>y2. /\ y \in TasStates /\ y.init_work = n
          /\ Params(y) = Params(x) /\ y.m_power_state = x.m_power_state /\ y.chip = x.chip
          /\ y.latched = x.latched /\ y.detected = x.detected /\ y.irq_count = x.irq_count
          /\ y.irq_work = x.irq_work /\ y.lost = x.lost /\ y.stray = x.stray
          /\ y.disarmed = x.disarmed /\ y.missed = x.missed
    <2> HIDE DEF n, x
    <2> QED BY <1>x2, <1>y1, WithInit
  <1>r. [t EXCEPT !.chip[c].power = "on", !.init_work[c] = @ \cup {"pending"}] = y
    BY <1>x2
  <1> HIDE DEF x, y
  <1> QED BY <1>r, <1>x2, <1>y2, <1>1, <1>2

LEMMA PowerDownEffect ==
    ASSUME NEW t \in TasStates, NEW c \in Tas!Channels
    PROVE  LET r == Tas!PowerDown(t, c)
           IN  /\ r \in TasStates
               /\ r.chip[c].power = "off" /\ r.chip[c].set = t.chip[c].set
               /\ r.chip[c].intr = FALSE
               /\ \A d \in Tas!Channels \ {c} : r.chip[d] = t.chip[d]
               /\ r.init_work[c] = t.init_work[c] \ {"pending"}
               /\ \A d \in Tas!Channels \ {c} : r.init_work[d] = t.init_work[d]
               /\ r.stray = t.stray \ {c}
               /\ Params(r) = Params(t) /\ r.m_power_state = t.m_power_state
               /\ r.latched = t.latched /\ r.detected = t.detected
               /\ r.irq_count = t.irq_count /\ r.irq_work = t.irq_work /\ r.lost = t.lost
               /\ r.disarmed = t.disarmed /\ r.missed = t.missed
  <1> DEFINE q == [t.chip EXCEPT ![c].power = "off"]
             x == [t EXCEPT !.chip = q]
             p == [q EXCEPT ![c].intr = FALSE]
             u == [x EXCEPT !.chip = p]
             n == [t.init_work EXCEPT ![c] = @ \ {"pending"}]
             y == [u EXCEPT !.init_work = n]
             s == t.stray \ {c}
             z == [y EXCEPT !.stray = s]
  <1>0. t.chip \in [Tas!Channels -> ChipStates]
    BY DEF TasStates
  <1>1. /\ q \in [Tas!Channels -> ChipStates]
        /\ q[c].power = "off" /\ q[c].intr = t.chip[c].intr /\ q[c].set = t.chip[c].set
        /\ \A d \in Tas!Channels \ {c} : q[d] = t.chip[d]
    BY <1>0, ChipPower
  <1>2. /\ p \in [Tas!Channels -> ChipStates]
        /\ p[c].power = q[c].power /\ p[c].intr = FALSE /\ p[c].set = q[c].set
        /\ \A d \in Tas!Channels \ {c} : p[d] = q[d]
    <2> HIDE DEF q
    <2> QED BY <1>1, ChipIntr
  <1>3. /\ n \in [Tas!Channels -> SUBSET {"pending", "started"}]
        /\ n[c] = t.init_work[c] \ {"pending"}
        /\ \A d \in Tas!Channels \ {c} : n[d] = t.init_work[d]
    BY DEF TasStates
  <1>x1. q \in [Tas!Channels -> ChipStates]
    BY <1>1
  <1>x2. /\ x \in TasStates /\ x.chip = q
          /\ Params(x) = Params(t) /\ x.m_power_state = t.m_power_state
          /\ x.latched = t.latched /\ x.detected = t.detected /\ x.irq_count = t.irq_count
          /\ x.irq_work = t.irq_work /\ x.init_work = t.init_work /\ x.lost = t.lost
          /\ x.stray = t.stray /\ x.disarmed = t.disarmed /\ x.missed = t.missed
    <2> HIDE DEF q
    <2> QED BY <1>x1, WithChip
  <1>u1. p \in [Tas!Channels -> ChipStates]
    BY <1>2
  <1>u2. /\ u \in TasStates /\ u.chip = p
          /\ Params(u) = Params(x) /\ u.m_power_state = x.m_power_state
          /\ u.latched = x.latched /\ u.detected = x.detected /\ u.irq_count = x.irq_count
          /\ u.irq_work = x.irq_work /\ u.init_work = x.init_work /\ u.lost = x.lost
          /\ u.stray = x.stray /\ u.disarmed = x.disarmed /\ u.missed = x.missed
    <2> HIDE DEF p, x
    <2> QED BY <1>x2, <1>u1, WithChip
  <1>y1. n \in [Tas!Channels -> SUBSET {"pending", "started"}]
    BY <1>3
  <1>y2. /\ y \in TasStates /\ y.init_work = n
          /\ Params(y) = Params(u) /\ y.m_power_state = u.m_power_state /\ y.chip = u.chip
          /\ y.latched = u.latched /\ y.detected = u.detected /\ y.irq_count = u.irq_count
          /\ y.irq_work = u.irq_work /\ y.lost = u.lost /\ y.stray = u.stray
          /\ y.disarmed = u.disarmed /\ y.missed = u.missed
    <2> HIDE DEF n, u
    <2> QED BY <1>u2, <1>y1, WithInit
  <1>z1. s \in SUBSET Tas!Channels
    BY DEF TasStates
  <1>z2. /\ z \in TasStates /\ z.stray = s
          /\ Params(z) = Params(y) /\ z.m_power_state = y.m_power_state /\ z.chip = y.chip
          /\ z.latched = y.latched /\ z.detected = y.detected /\ z.irq_count = y.irq_count
          /\ z.irq_work = y.irq_work /\ z.init_work = y.init_work /\ z.lost = y.lost
          /\ z.disarmed = y.disarmed /\ z.missed = y.missed
    <2> HIDE DEF s, y
    <2> QED BY <1>y2, <1>z1, WithStray
  <1>r. Tas!PowerDown(t, c) = z
    BY <1>x2, <1>u2, <1>y2 DEF Tas!PowerDown
  <1> HIDE DEF x, u, y, z
  <1> QED BY <1>r, <1>x2, <1>u2, <1>y2, <1>z2, <1>1, <1>2, <1>3

LEMMA ResetEffect ==
    ASSUME NEW t \in TasStates, NEW c \in Tas!Channels
    PROVE  LET r == Tas!SoftwareReset(t, c)
           IN  /\ r \in TasStates
               /\ r.chip[c] = Tas!Reset
               /\ \A d \in Tas!Channels \ {c} : r.chip[d] = t.chip[d]
               /\ r.latched[c] = {}
               /\ \A d \in Tas!Channels \ {c} : r.latched[d] = t.latched[d]
               /\ r.missed = t.missed \ {c} /\ r.stray = t.stray \ {c}
               /\ r.lost = (t.lost \/ setting = "em")
               /\ Params(r) = Params(t) /\ r.m_power_state = t.m_power_state
               /\ r.detected = t.detected /\ r.irq_count = t.irq_count
               /\ r.irq_work = t.irq_work /\ r.init_work = t.init_work
               /\ r.disarmed = t.disarmed
  <1> DEFINE q == [t.chip EXCEPT ![c] = Tas!Reset]
             x == [t EXCEPT !.chip = q]
             n == [t.latched EXCEPT ![c] = {}]
             y == [x EXCEPT !.latched = n]
             s == t.missed \ {c}
             z == [y EXCEPT !.missed = s]
             v == t.stray \ {c}
             w == [z EXCEPT !.stray = v]
             b == (t.lost \/ setting = "em")
             u == [w EXCEPT !.lost = b]
  <1>0. t.chip \in [Tas!Channels -> ChipStates]
    BY DEF TasStates
  <1>1. /\ q \in [Tas!Channels -> ChipStates] /\ q[c] = Tas!Reset
        /\ \A d \in Tas!Channels \ {c} : q[d] = t.chip[d]
    BY <1>0 DEF Tas!Reset, ChipStates
  <1>2. /\ n \in [Tas!Channels -> SUBSET Kinds] /\ n[c] = {}
        /\ \A d \in Tas!Channels \ {c} : n[d] = t.latched[d]
    BY DEF TasStates
  <1>x1. q \in [Tas!Channels -> ChipStates]
    BY <1>1
  <1>x2. /\ x \in TasStates /\ x.chip = q
          /\ Params(x) = Params(t) /\ x.m_power_state = t.m_power_state
          /\ x.latched = t.latched /\ x.detected = t.detected /\ x.irq_count = t.irq_count
          /\ x.irq_work = t.irq_work /\ x.init_work = t.init_work /\ x.lost = t.lost
          /\ x.stray = t.stray /\ x.disarmed = t.disarmed /\ x.missed = t.missed
    <2> HIDE DEF q
    <2> QED BY <1>x1, WithChip
  <1>y1. n \in [Tas!Channels -> SUBSET Kinds]
    BY <1>2
  <1>y2. /\ y \in TasStates /\ y.latched = n
          /\ Params(y) = Params(x) /\ y.m_power_state = x.m_power_state /\ y.chip = x.chip
          /\ y.detected = x.detected /\ y.irq_count = x.irq_count /\ y.irq_work = x.irq_work
          /\ y.init_work = x.init_work /\ y.lost = x.lost /\ y.stray = x.stray
          /\ y.disarmed = x.disarmed /\ y.missed = x.missed
    <2> HIDE DEF n, x
    <2> QED BY <1>x2, <1>y1, WithLatched
  <1>z1. s \in SUBSET Tas!Channels
    BY DEF TasStates
  <1>z2. /\ z \in TasStates /\ z.missed = s
          /\ Params(z) = Params(y) /\ z.m_power_state = y.m_power_state /\ z.chip = y.chip
          /\ z.latched = y.latched /\ z.detected = y.detected /\ z.irq_count = y.irq_count
          /\ z.irq_work = y.irq_work /\ z.init_work = y.init_work /\ z.lost = y.lost
          /\ z.stray = y.stray /\ z.disarmed = y.disarmed
    <2> HIDE DEF s, y
    <2> QED BY <1>y2, <1>z1, WithMissed
  <1>w1. v \in SUBSET Tas!Channels
    BY DEF TasStates
  <1>w2. /\ w \in TasStates /\ w.stray = v
          /\ Params(w) = Params(z) /\ w.m_power_state = z.m_power_state /\ w.chip = z.chip
          /\ w.latched = z.latched /\ w.detected = z.detected /\ w.irq_count = z.irq_count
          /\ w.irq_work = z.irq_work /\ w.init_work = z.init_work /\ w.lost = z.lost
          /\ w.disarmed = z.disarmed /\ w.missed = z.missed
    <2> HIDE DEF v, z
    <2> QED BY <1>z2, <1>w1, WithStray
  <1>u1. b \in BOOLEAN
    OBVIOUS
  <1>u2. /\ u \in TasStates /\ u.lost = b
          /\ Params(u) = Params(w) /\ u.m_power_state = w.m_power_state /\ u.chip = w.chip
          /\ u.latched = w.latched /\ u.detected = w.detected /\ u.irq_count = w.irq_count
          /\ u.irq_work = w.irq_work /\ u.init_work = w.init_work /\ u.stray = w.stray
          /\ u.disarmed = w.disarmed /\ u.missed = w.missed
    <2> HIDE DEF b, w
    <2> QED BY <1>w2, <1>u1, WithLost
  <1>r. Tas!SoftwareReset(t, c) = u
    BY <1>x2, <1>y2, <1>z2, <1>w2 DEF Tas!SoftwareReset
  <1> HIDE DEF x, y, z, w, u
  <1> QED BY <1>r, <1>x2, <1>y2, <1>z2, <1>w2, <1>u2, <1>1, <1>2

(* Nothing of the first channel is left to look at. *)
Rested(t) == t.latched[1] = {} /\ t.detected[1] = {}

(* A chip that is on in another state than the active one was spared by an interrupt's
   shutdown; only the first channel of the setups but "hardware" ever reports a fault. *)
PowerAt(t) ==
    /\ t.m_power_state = "mute" =>
         t.chip[1].power # "on" /\ (setting # "profile" => t.chip[2].power # "on")
    /\ t.m_power_state = "shutdown" => t.chip[1].power = "off"
    /\ t.m_power_state = "shutdown" /\ setting # "profile" /\ t.chip[2].power = "on" =>
         setup = "shutdown" \/ (setup = "clock" /\ Rested(t))
    /\ setup # "hardware" => t.latched[2] = {} /\ t.detected[2] = {}
    /\ \A c \in Tas!Channels : t.irq_count[c] <= IrqLimit

SilentAt(t, playing_) ==
    ~playing_ => \A c \in Tas!Channels \ t.stray : t.chip[c].power = "off" /\ ~t.chip[c].intr

ArmedAt(t, c) ==
    t.m_power_state = "active" /\ c \in Tas!Opmode(t) \ t.disarmed /\ t.chip[c].power = "on" =>
        t.chip[c].intr \/ t.init_work[c] # {}

HeardAt(t, c) == t.chip[c].intr /\ t.latched[c] # {} => t.irq_work

Best == CHOOSE f \in fmt_table : \A g \in fmt_table : f <= g

(* What the driver remembers is what was last set. *)
Remembered(t, w) ==
    /\ t.mn_tx_slot_width # 0 => fmt_table # {}
    /\ setting = "fmt" => w = t.mn_fmt
    /\ setting = "rx_width" => w = t.mn_rx_width /\ (t.mn_fmt_mode = 0 => w = 0)
    /\ setting = "tx_format" =>
         /\ w = IF t.mn_tx_slot_width = 0 THEN 0 ELSE Best
         /\ t.mn_fmt_mode = 0 => t.mn_tx_slot_width = 0
    /\ setting \in Tas!Controls => w = t.curr_val

KeptAt(t, w) ==
    CASE setting \in {"fmt", "rx_width", "tx_format", "rate"} ->
           ~t.lost => \A c \in Tas!Channels : t.chip[c].set = w
      [] setting \in {"anytime", "em"} -> ~t.lost => t.chip[1].set = w
      [] setting = "pre" ->
           t.m_power_state = "active" /\ t.chip[1].power = "on" => t.chip[1].set = w
      [] setting = "post" ->
           ~t.lost /\ t.m_power_state = "active" /\ t.chip[1].power = "on" /\ t.init_work[1] = {}
             => t.chip[1].set = w
      [] OTHER -> TRUE

Setting ==
    /\ setup \in Tas!SetupsKnown /\ setting \in Tas!SettingsOf(setup)
    /\ fmt_table \in {{1}, {2, 4}, {}}

LEMMA SettingCases ==
    ASSUME Setting
    PROVE  /\ setting \in Tas!Settings
           /\ setting = "profile" => setup = "shutdown"
           /\ setup = "hardware" => setting \in {"rx_width", "anytime"}
           /\ setting = "post" => setup \in {"software", "clock"}
  BY DEF Setting, Tas!SettingsOf, Tas!Settings, Tas!SetupsKnown

LEMMA BestTyped ==
    ASSUME Setting, fmt_table # {}
    PROVE  Best \in Nat
  <1>1. CASE fmt_table = {1}
    <2>1. \E f \in fmt_table : \A g \in fmt_table : f <= g
      BY <1>1
    <2> QED BY <1>1, <2>1 DEF Best
  <1>2. CASE fmt_table = {2, 4}
    <2>1. \E f \in fmt_table : \A g \in fmt_table : f <= g
      BY <1>2
    <2> QED BY <1>2, <2>1 DEF Best
  <1> QED BY <1>1, <1>2 DEF Setting

LEMMA PowerUpEffect ==
    ASSUME NEW t \in TasStates, NEW c \in Tas!Channels, NEW fails
    PROVE  LET r == Tas!PowerUp(t, c, fails)
           IN  /\ r \in TasStates
               /\ Params(r) = Params(t) /\ r.m_power_state = t.m_power_state
               /\ r.latched = t.latched /\ r.detected = t.detected
               /\ r.irq_count = t.irq_count /\ r.irq_work = t.irq_work
               /\ r.lost = t.lost /\ r.stray = t.stray /\ r.missed = t.missed
               /\ \A d \in Tas!Channels \ {c} : r.chip[d] = t.chip[d] /\ r.init_work[d] = t.init_work[d]
               /\ r.chip[c].intr = t.chip[c].intr
               /\ c \in fails => /\ r.chip[c] = t.chip[c] /\ r.init_work = t.init_work
                                 /\ r.disarmed = t.disarmed \cup {c}
               /\ c \notin fails => /\ r.chip[c].power = "on"
                                    /\ r.chip[c].set = IF c = 1 /\ setting = "pre"
                                                         THEN t.curr_val ELSE t.chip[c].set
                                    /\ r.init_work[c] = t.init_work[c] \cup {"pending"}
                                    /\ r.disarmed = t.disarmed
  <1>1. CASE c \in fails
    <2>1. Tas!PowerUp(t, c, fails) = Tas!Armless(t, c)
      BY <1>1 DEF Tas!PowerUp, Tas!Armless
    <2> QED BY <1>1, <2>1, ArmlessEffect
  <1>2. CASE c \notin fails
    <2> DEFINE on == [t EXCEPT !.chip[c].power = "on", !.init_work[c] = @ \cup {"pending"}]
    <2>1. /\ on \in TasStates
          /\ on.chip[c].power = "on" /\ on.chip[c].set = t.chip[c].set
          /\ on.chip[c].intr = t.chip[c].intr
          /\ \A d \in Tas!Channels \ {c} : on.chip[d] = t.chip[d]
          /\ on.init_work[c] = t.init_work[c] \cup {"pending"}
          /\ \A d \in Tas!Channels \ {c} : on.init_work[d] = t.init_work[d]
          /\ Params(on) = Params(t) /\ on.m_power_state = t.m_power_state
          /\ on.latched = t.latched /\ on.detected = t.detected
          /\ on.irq_count = t.irq_count /\ on.irq_work = t.irq_work
          /\ on.lost = t.lost /\ on.stray = t.stray /\ on.missed = t.missed
          /\ on.disarmed = t.disarmed
      BY TurnedOn
    <2>2. Tas!PowerUp(t, c, fails) = IF c = 1 THEN Tas!UpdateKcontrolData(on, "pre") ELSE on
      BY <1>2 DEF Tas!PowerUp
    <2> HIDE DEF on
    <2>3. CASE c = 1
      <3>1. 2 \in Tas!Channels \ {1} /\ \A d \in Tas!Channels \ {1} : d = 2
        BY DEF Tas!Channels
      <3>2. on.curr_val = t.curr_val
        BY <2>1 DEF Params
      <3> DEFINE u == Tas!UpdateKcontrolData(on, "pre")
      <3>3. /\ u \in TasStates
            /\ u.chip[1].set = IF setting = "pre" THEN on.curr_val ELSE on.chip[1].set
            /\ u.chip[1].power = on.chip[1].power /\ u.chip[1].intr = on.chip[1].intr
            /\ u.chip[2] = on.chip[2]
            /\ Params(u) = Params(on) /\ u.m_power_state = on.m_power_state
            /\ u.latched = on.latched /\ u.detected = on.detected
            /\ u.irq_count = on.irq_count /\ u.irq_work = on.irq_work
            /\ u.init_work = on.init_work /\ u.lost = on.lost /\ u.stray = on.stray
            /\ u.disarmed = on.disarmed /\ u.missed = on.missed
        BY <2>1, KcontrolEffect
      <3>4. Tas!PowerUp(t, c, fails) = u
        BY <2>2, <2>3
      <3> HIDE DEF u
      <3> QED BY <1>2, <2>1, <2>3, <3>1, <3>2, <3>3, <3>4
    <2>4. CASE c # 1
      BY <1>2, <2>1, <2>2, <2>4
    <2> QED BY <2>3, <2>4
  <1> QED BY <1>1, <1>2

(* Reports of a chip are dropped together with the mark that nobody looked at them. *)
Calmer(r, t) ==
    /\ \A d \in Tas!Channels : r.latched[d] = t.latched[d] \/ r.latched[d] = {}
    /\ \A d \in Tas!Channels : d \notin r.missed => d \notin t.missed \/ r.latched[d] = {}

UpOn(r, t, d, fails) ==
    /\ r.chip[d].intr = t.chip[d].intr
    /\ d \in fails => r.chip[d] = t.chip[d] /\ r.init_work[d] = t.init_work[d]
    /\ d \notin fails => /\ r.chip[d].power = "on"
                         /\ r.chip[d].set = IF d = 1 /\ setting = "pre"
                                              THEN t.curr_val ELSE t.chip[d].set
                         /\ r.init_work[d] = t.init_work[d] \cup {"pending"}

LEMMA BlocksUp ==
    ASSUME NEW t \in TasStates, NEW c \in Tas!Channels, NEW was, NEW fails
    PROVE  LET r == Tas!WriteBlocks(t, c, "active", was, fails)
           IN  /\ r \in TasStates
               /\ Params(r) = Params(t) /\ r.m_power_state = t.m_power_state
               /\ r.detected = t.detected /\ r.irq_count = t.irq_count
               /\ r.irq_work = t.irq_work /\ r.lost = t.lost /\ r.stray = t.stray
               /\ r.disarmed = t.disarmed \cup ({c} \cap fails)
               /\ Calmer(r, t) /\ UpOn(r, t, c, fails)
               /\ \A d \in Tas!Channels \ {c} : r.chip[d] = t.chip[d] /\ r.init_work[d] = t.init_work[d]
  <1> DEFINE v == IF was # "active" THEN Tas!InterruptClear(t, c) ELSE t
             r == Tas!WriteBlocks(t, c, "active", was, fails)
  <1>1. r = Tas!PowerUp(v, c, fails)
    BY DEF Tas!WriteBlocks
  <1>2. /\ v \in TasStates
        /\ Params(v) = Params(t) /\ v.m_power_state = t.m_power_state /\ v.chip = t.chip
        /\ v.detected = t.detected /\ v.init_work = t.init_work
        /\ v.irq_work = t.irq_work /\ v.lost = t.lost /\ v.stray = t.stray
        /\ v.disarmed = t.disarmed /\ v.irq_count = t.irq_count /\ Calmer(v, t)
    <2>1. CASE was = "active"
      BY <2>1 DEF Calmer
    <2>2. CASE was # "active"
      BY <2>2, ClearEffect DEF Calmer
    <2> QED BY <2>1, <2>2
  <1> HIDE DEF v
  <1> DEFINE w == Tas!PowerUp(v, c, fails)
  <1>3. /\ w \in TasStates
        /\ Params(w) = Params(v) /\ w.m_power_state = v.m_power_state
        /\ w.latched = v.latched /\ w.detected = v.detected
        /\ w.irq_count = v.irq_count /\ w.irq_work = v.irq_work
        /\ w.lost = v.lost /\ w.stray = v.stray /\ w.missed = v.missed
        /\ \A d \in Tas!Channels \ {c} : w.chip[d] = v.chip[d] /\ w.init_work[d] = v.init_work[d]
        /\ w.chip[c].intr = v.chip[c].intr
        /\ c \in fails => /\ w.chip[c] = v.chip[c] /\ w.init_work = v.init_work
                          /\ w.disarmed = v.disarmed \cup {c}
        /\ c \notin fails => /\ w.chip[c].power = "on"
                             /\ w.chip[c].set = IF c = 1 /\ setting = "pre"
                                                  THEN v.curr_val ELSE v.chip[c].set
                             /\ w.init_work[c] = v.init_work[c] \cup {"pending"}
                             /\ w.disarmed = v.disarmed
    BY <1>2, PowerUpEffect
  <1>4. r = w
    BY <1>1
  <1> HIDE DEF w, r
  <1>5. v.curr_val = t.curr_val
    BY <1>2 DEF Params
  <1>6. UpOn(r, t, c, fails)
    BY <1>2, <1>3, <1>4, <1>5 DEF UpOn
  <1>7. Calmer(r, t)
    BY <1>2, <1>3, <1>4 DEF Calmer
  <1>8. r.disarmed = t.disarmed \cup ({c} \cap fails)
    BY <1>2, <1>3, <1>4
  <1> QED BY <1>2, <1>3, <1>4, <1>6, <1>7, <1>8 DEF r

LEMMA OpmodeSub ==
    ASSUME NEW t
    PROVE  Tas!Opmode(t) \subseteq Tas!Channels /\ 1 \in Tas!Opmode(t)
           /\ (setting # "profile" => Tas!Opmode(t) = Tas!Channels)
  BY DEF Tas!Opmode, Tas!Channels

\* what setting the power mode to active makes of the parts `on` it reaches
WentActive(r, t, on, fails) ==
  /\ r \in TasStates
  /\ Params(r) = Params(t) /\ r.m_power_state = "active"
  /\ r.detected = t.detected /\ r.irq_count = t.irq_count
  /\ r.irq_work = t.irq_work /\ r.lost = t.lost /\ r.stray = t.stray
  /\ r.disarmed = t.disarmed \cup (on \cap fails)
  /\ Calmer(r, t)
  /\ \A d \in on : UpOn(r, t, d, fails)
  /\ \A d \in Tas!Channels \ on : r.chip[d] = t.chip[d] /\ r.init_work[d] = t.init_work[d]

LEMMA SetActive ==
    ASSUME NEW t \in TasStates, NEW m \in SUBSET Tas!Channels, NEW fails
    PROVE  WentActive(Tas!SetPowerState(t, "active", m, fails), t, m \cap Tas!Opmode(t), fails)
  <1> DEFINE on == m \cap Tas!Opmode(t)
             was == t.m_power_state
             u == [t EXCEPT !.m_power_state = "active"]
             a == IF 1 \in on THEN Tas!WriteBlocks(u, 1, "active", was, fails) ELSE u
             r == Tas!SetPowerState(t, "active", m, fails)
             w == IF 2 \in on THEN Tas!WriteBlocks(a, 2, "active", was, fails) ELSE a
  <1>1. r = w
    BY DEF Tas!SetPowerState, Tas!EachOf
  <1>2. /\ u \in TasStates /\ u.m_power_state = "active"
        /\ Params(u) = Params(t) /\ u.chip = t.chip /\ u.latched = t.latched
        /\ u.detected = t.detected /\ u.irq_count = t.irq_count /\ u.irq_work = t.irq_work
        /\ u.init_work = t.init_work /\ u.lost = t.lost /\ u.stray = t.stray
        /\ u.disarmed = t.disarmed /\ u.missed = t.missed
    BY WithMode
  <1>3. on \in SUBSET Tas!Channels /\ 1 \in Tas!Channels /\ 2 \in Tas!Channels
        /\ \A d \in Tas!Channels : d = 1 \/ d = 2
    BY DEF Tas!Channels
  <1> HIDE DEF on, u, was
  <1>4. /\ a \in TasStates
        /\ Params(a) = Params(t) /\ a.m_power_state = "active"
        /\ a.detected = t.detected /\ a.irq_count = t.irq_count
        /\ a.irq_work = t.irq_work /\ a.lost = t.lost /\ a.stray = t.stray
        /\ a.disarmed = t.disarmed \cup (on \cap {1} \cap fails)
        /\ Calmer(a, t) /\ (1 \in on => UpOn(a, t, 1, fails))
        /\ a.chip[2] = t.chip[2] /\ a.init_work[2] = t.init_work[2]
        /\ 1 \notin on => a.chip[1] = t.chip[1] /\ a.init_work[1] = t.init_work[1]
    <2>1. CASE 1 \in on
      <3> DEFINE b == Tas!WriteBlocks(u, 1, "active", was, fails)
      <3>1. /\ b \in TasStates
            /\ Params(b) = Params(u) /\ b.m_power_state = u.m_power_state
            /\ b.detected = u.detected /\ b.irq_count = u.irq_count
            /\ b.irq_work = u.irq_work /\ b.lost = u.lost /\ b.stray = u.stray
            /\ b.disarmed = u.disarmed \cup ({1} \cap fails)
            /\ Calmer(b, u) /\ UpOn(b, u, 1, fails)
            /\ b.chip[2] = u.chip[2] /\ b.init_work[2] = u.init_work[2]
        BY <1>2, <1>3, BlocksUp
      <3>2. a = b
        BY <2>1
      <3> HIDE DEF a, b
      <3>3. u.curr_val = t.curr_val
        BY <1>2 DEF Params
      <3>4. UpOn(a, t, 1, fails)
        BY <1>2, <3>1, <3>2, <3>3 DEF UpOn
      <3>5. Calmer(a, t)
        BY <1>2, <3>1, <3>2 DEF Calmer
      <3>6. a.disarmed = t.disarmed \cup (on \cap {1} \cap fails)
        BY <1>2, <2>1, <3>1, <3>2
      <3> QED BY <1>2, <2>1, <3>1, <3>2, <3>4, <3>5, <3>6
    <2>2. CASE 1 \notin on
      <3>1. a = u
        BY <2>2
      <3> HIDE DEF a
      <3> QED BY <1>2, <2>2, <3>1 DEF Calmer
    <2> QED BY <2>1, <2>2
  <1> HIDE DEF a, r
  <1> SUFFICES WentActive(r, t, on, fails)
    BY DEF r, on
  <1>5. CASE 2 \in on
    <2> DEFINE b == Tas!WriteBlocks(a, 2, "active", was, fails)
    <2>1. /\ b \in TasStates
          /\ Params(b) = Params(a) /\ b.m_power_state = a.m_power_state
          /\ b.detected = a.detected /\ b.irq_count = a.irq_count
          /\ b.irq_work = a.irq_work /\ b.lost = a.lost /\ b.stray = a.stray
          /\ b.disarmed = a.disarmed \cup ({2} \cap fails)
          /\ Calmer(b, a) /\ UpOn(b, a, 2, fails)
          /\ b.chip[1] = a.chip[1] /\ b.init_work[1] = a.init_work[1]
      BY <1>3, <1>4, BlocksUp
    <2>2. r = b
      BY <1>1, <1>5
    <2> HIDE DEF b
    <2>3. UpOn(r, t, 2, fails)
      BY <1>4, <2>1, <2>2 DEF UpOn
    <2>4. 1 \in on => UpOn(r, t, 1, fails)
      BY <1>4, <2>1, <2>2 DEF UpOn
    <2>5. Calmer(r, t)
      BY <1>4, <2>1, <2>2 DEF Calmer
    <2>6. r.disarmed = t.disarmed \cup (on \cap fails)
      BY <1>3, <1>4, <1>5, <2>1, <2>2
    <2> QED BY <1>3, <1>4, <1>5, <2>1, <2>2, <2>3, <2>4, <2>5, <2>6 DEF WentActive
  <1>6. CASE 2 \notin on
    <2>1. r = a
      BY <1>1, <1>6
    <2>2. r.disarmed = t.disarmed \cup (on \cap fails)
      BY <1>3, <1>4, <1>6, <2>1
    <2> QED BY <1>3, <1>4, <1>6, <2>1, <2>2 DEF WentActive
  <1> QED BY <1>5, <1>6

WentMute(r, t, on) ==
    /\ r \in TasStates
    /\ Params(r) = Params(t) /\ r.m_power_state = "mute"
    /\ r.latched = t.latched /\ r.detected = t.detected
    /\ r.irq_count = t.irq_count /\ r.irq_work = t.irq_work
    /\ r.init_work = t.init_work
    /\ r.lost = t.lost /\ r.stray = t.stray /\ r.disarmed = t.disarmed
    /\ r.missed = t.missed
    /\ \A d \in Tas!Channels :
          /\ r.chip[d].intr = t.chip[d].intr /\ r.chip[d].set = t.chip[d].set
          /\ r.chip[d].power = IF d \in on /\ t.chip[d].power = "on"
                                 THEN "muted" ELSE t.chip[d].power

LEMMA SetMute ==
    ASSUME NEW t \in TasStates, NEW m \in SUBSET Tas!Channels, NEW fails
    PROVE  WentMute(Tas!SetPowerState(t, "mute", m, fails), t, m \cap Tas!Opmode(t))
  <1> DEFINE on == m \cap Tas!Opmode(t)
             u == [t EXCEPT !.m_power_state = "mute"]
             a == IF 1 \in on THEN Tas!Mute(u, 1) ELSE u
             r == Tas!SetPowerState(t, "mute", m, fails)
             w == IF 2 \in on THEN Tas!Mute(a, 2) ELSE a
  <1>1. r = w
    BY DEF Tas!SetPowerState, Tas!EachOf, Tas!WriteBlocks
  <1>2. /\ u \in TasStates /\ u.m_power_state = "mute"
        /\ Params(u) = Params(t) /\ u.chip = t.chip /\ u.latched = t.latched
        /\ u.detected = t.detected /\ u.irq_count = t.irq_count /\ u.irq_work = t.irq_work
        /\ u.init_work = t.init_work /\ u.lost = t.lost /\ u.stray = t.stray
        /\ u.disarmed = t.disarmed /\ u.missed = t.missed
    BY WithMode
  <1>3. on \in SUBSET Tas!Channels /\ 1 \in Tas!Channels /\ 2 \in Tas!Channels
        /\ \A d \in Tas!Channels : d = 1 \/ d = 2
    BY DEF Tas!Channels
  <1> HIDE DEF on, u
  <1>4. /\ a \in TasStates /\ a.m_power_state = "mute"
        /\ Params(a) = Params(t) /\ a.latched = t.latched
        /\ a.detected = t.detected /\ a.irq_count = t.irq_count /\ a.irq_work = t.irq_work
        /\ a.init_work = t.init_work /\ a.lost = t.lost /\ a.stray = t.stray
        /\ a.disarmed = t.disarmed /\ a.missed = t.missed
        /\ a.chip[2] = t.chip[2]
        /\ a.chip[1].intr = t.chip[1].intr /\ a.chip[1].set = t.chip[1].set
        /\ a.chip[1].power = IF 1 \in on /\ t.chip[1].power = "on"
                               THEN "muted" ELSE t.chip[1].power
    BY <1>2, <1>3, MuteEffect
  <1> HIDE DEF a
  <1>5. /\ w \in TasStates /\ w.m_power_state = "mute"
        /\ Params(w) = Params(a) /\ w.latched = a.latched
        /\ w.detected = a.detected /\ w.irq_count = a.irq_count /\ w.irq_work = a.irq_work
        /\ w.init_work = a.init_work /\ w.lost = a.lost /\ w.stray = a.stray
        /\ w.disarmed = a.disarmed /\ w.missed = a.missed
        /\ w.chip[1] = a.chip[1]
        /\ w.chip[2].intr = a.chip[2].intr /\ w.chip[2].set = a.chip[2].set
        /\ w.chip[2].power = IF 2 \in on /\ a.chip[2].power = "on"
                               THEN "muted" ELSE a.chip[2].power
    BY <1>3, <1>4, MuteEffect
  <1> HIDE DEF r, w
  <1>z. WentMute(r, t, on)
    BY <1>1, <1>3, <1>4, <1>5 DEF WentMute
  <1> QED BY <1>z DEF r, on

WentOff(r, t, on) ==
    /\ r \in TasStates
    /\ Params(r) = Params(t) /\ r.m_power_state = "shutdown"
    /\ r.latched = t.latched /\ r.detected = t.detected
    /\ r.irq_count = t.irq_count /\ r.irq_work = t.irq_work
    /\ r.lost = t.lost /\ r.stray = t.stray \ on /\ r.disarmed = t.disarmed
    /\ r.missed = t.missed
    /\ \A d \in Tas!Channels : r.chip[d].set = t.chip[d].set
    /\ \A d \in on : r.chip[d].power = "off" /\ r.chip[d].intr = FALSE
    /\ \A d \in Tas!Channels \ on : r.chip[d] = t.chip[d] /\ r.init_work[d] = t.init_work[d]

LEMMA SetShutdown ==
    ASSUME NEW t \in TasStates, NEW m \in SUBSET Tas!Channels, NEW fails
    PROVE  WentOff(Tas!SetPowerState(t, "shutdown", m, fails), t, m \cap Tas!Opmode(t))
  <1> DEFINE on == m \cap Tas!Opmode(t)
             u == [t EXCEPT !.m_power_state = "shutdown"]
             a == IF 1 \in on THEN Tas!PowerDown(u, 1) ELSE u
             r == Tas!SetPowerState(t, "shutdown", m, fails)
             w == IF 2 \in on THEN Tas!PowerDown(a, 2) ELSE a
  <1>1. r = w
    BY DEF Tas!SetPowerState, Tas!EachOf, Tas!WriteBlocks
  <1>2. /\ u \in TasStates /\ u.m_power_state = "shutdown"
        /\ Params(u) = Params(t) /\ u.chip = t.chip /\ u.latched = t.latched
        /\ u.detected = t.detected /\ u.irq_count = t.irq_count /\ u.irq_work = t.irq_work
        /\ u.init_work = t.init_work /\ u.lost = t.lost /\ u.stray = t.stray
        /\ u.disarmed = t.disarmed /\ u.missed = t.missed
    BY WithMode
  <1>3. on \in SUBSET Tas!Channels /\ 1 \in Tas!Channels /\ 2 \in Tas!Channels
        /\ \A d \in Tas!Channels : d = 1 \/ d = 2
    BY DEF Tas!Channels
  <1> HIDE DEF on, u
  <1>4. /\ a \in TasStates /\ a.m_power_state = "shutdown"
        /\ Params(a) = Params(t) /\ a.latched = t.latched
        /\ a.detected = t.detected /\ a.irq_count = t.irq_count /\ a.irq_work = t.irq_work
        /\ a.lost = t.lost /\ a.stray = t.stray \ (on \cap {1})
        /\ a.disarmed = t.disarmed /\ a.missed = t.missed
        /\ a.chip[2] = t.chip[2] /\ a.init_work[2] = t.init_work[2]
        /\ a.chip[1].set = t.chip[1].set
        /\ 1 \in on => a.chip[1].power = "off" /\ a.chip[1].intr = FALSE
        /\ 1 \notin on => a.chip[1] = t.chip[1] /\ a.init_work[1] = t.init_work[1]
    <2>1. CASE 1 \in on
      <3> DEFINE b == Tas!PowerDown(u, 1)
      <3>1. /\ b \in TasStates /\ b.m_power_state = u.m_power_state
            /\ Params(b) = Params(u) /\ b.latched = u.latched
            /\ b.detected = u.detected /\ b.irq_count = u.irq_count
            /\ b.irq_work = u.irq_work /\ b.lost = u.lost
            /\ b.stray = u.stray \ {1}
            /\ b.disarmed = u.disarmed /\ b.missed = u.missed
            /\ b.chip[2] = u.chip[2] /\ b.init_work[2] = u.init_work[2]
            /\ b.chip[1].set = u.chip[1].set
            /\ b.chip[1].power = "off" /\ b.chip[1].intr = FALSE
        <4>1. u \in TasStates /\ 1 \in Tas!Channels /\ 2 \in Tas!Channels \ {1}
          BY <1>2, <1>3
        <4> HIDE DEF u
        <4>2. /\ b \in TasStates /\ b.m_power_state = u.m_power_state
              /\ Params(b) = Params(u) /\ b.latched = u.latched
              /\ b.detected = u.detected /\ b.irq_count = u.irq_count
              /\ b.irq_work = u.irq_work /\ b.lost = u.lost
              /\ b.stray = u.stray \ {1}
              /\ b.disarmed = u.disarmed /\ b.missed = u.missed
          BY ZenonT(60), <4>1, PowerDownEffect
        <4>3. b.chip[1].power = "off" /\ b.chip[1].set = u.chip[1].set
          BY <4>1, PowerDownEffect
        <4>4. b.chip[1].intr = FALSE
          BY <4>1, PowerDownEffect
        <4>5. \A d \in Tas!Channels \ {1} : b.chip[d] = u.chip[d]
          BY <4>1, PowerDownEffect
        <4>6. \A d \in Tas!Channels \ {1} : b.init_work[d] = u.init_work[d]
          BY <4>1, PowerDownEffect
        <4> HIDE DEF b
        <4> QED BY <4>1, <4>2, <4>3, <4>4, <4>5, <4>6
      <3>2. on \cap {1} = {1}
        BY <2>1
      <3>3. a = b
        BY <2>1
      <3> HIDE DEF a, b
      <3> QED BY <1>2, <1>3, <2>1, <3>1, <3>2, <3>3
    <2>2. CASE 1 \notin on
      <3>1. a = u /\ u.stray = u.stray \ (on \cap {1})
        BY <2>2
      <3> HIDE DEF a
      <3> QED BY <1>2, <1>3, <2>2, <3>1
    <2> QED BY <2>1, <2>2
  <1> HIDE DEF a
  <1>5. /\ w \in TasStates /\ w.m_power_state = "shutdown"
        /\ Params(w) = Params(a) /\ w.latched = a.latched
        /\ w.detected = a.detected /\ w.irq_count = a.irq_count /\ w.irq_work = a.irq_work
        /\ w.lost = a.lost /\ w.stray = a.stray \ (on \cap {2})
        /\ w.disarmed = a.disarmed /\ w.missed = a.missed
        /\ w.chip[1] = a.chip[1] /\ w.init_work[1] = a.init_work[1]
        /\ w.chip[2].set = a.chip[2].set
        /\ 2 \in on => w.chip[2].power = "off" /\ w.chip[2].intr = FALSE
        /\ 2 \notin on => w.chip[2] = a.chip[2] /\ w.init_work[2] = a.init_work[2]
    <2>1. CASE 2 \in on
      <3> DEFINE b == Tas!PowerDown(a, 2)
      <3>1. /\ b \in TasStates /\ b.m_power_state = a.m_power_state
            /\ Params(b) = Params(a) /\ b.latched = a.latched
            /\ b.detected = a.detected /\ b.irq_count = a.irq_count
            /\ b.irq_work = a.irq_work /\ b.lost = a.lost
            /\ b.stray = a.stray \ {2}
            /\ b.disarmed = a.disarmed /\ b.missed = a.missed
            /\ b.chip[1] = a.chip[1] /\ b.init_work[1] = a.init_work[1]
            /\ b.chip[2].set = a.chip[2].set
            /\ b.chip[2].power = "off" /\ b.chip[2].intr = FALSE
        <4>1. a \in TasStates /\ 2 \in Tas!Channels /\ 1 \in Tas!Channels \ {2}
          BY <1>3, <1>4
        <4> HIDE DEF a
        <4>2. /\ b \in TasStates /\ b.m_power_state = a.m_power_state
              /\ Params(b) = Params(a) /\ b.latched = a.latched
              /\ b.detected = a.detected /\ b.irq_count = a.irq_count
              /\ b.irq_work = a.irq_work /\ b.lost = a.lost
              /\ b.stray = a.stray \ {2}
              /\ b.disarmed = a.disarmed /\ b.missed = a.missed
          BY ZenonT(60), <4>1, PowerDownEffect
        <4>3. b.chip[2].power = "off" /\ b.chip[2].set = a.chip[2].set
          BY <4>1, PowerDownEffect
        <4>4. b.chip[2].intr = FALSE
          BY <4>1, PowerDownEffect
        <4>5. \A d \in Tas!Channels \ {2} : b.chip[d] = a.chip[d]
          BY <4>1, PowerDownEffect
        <4>6. \A d \in Tas!Channels \ {2} : b.init_work[d] = a.init_work[d]
          BY <4>1, PowerDownEffect
        <4> HIDE DEF b
        <4> QED BY <4>1, <4>2, <4>3, <4>4, <4>5, <4>6
      <3>2. on \cap {2} = {2}
        BY <2>1
      <3>3. w = b
        BY <2>1
      <3> HIDE DEF w, b
      <3> QED BY <1>3, <1>4, <2>1, <3>1, <3>2, <3>3
    <2>2. CASE 2 \notin on
      <3>1. w = a /\ a.stray = a.stray \ (on \cap {2})
        BY <2>2
      <3> HIDE DEF w
      <3> QED BY <1>3, <1>4, <2>2, <3>1
    <2> QED BY <2>1, <2>2
  <1> HIDE DEF r, w
  <1>6. r.stray = t.stray \ on
    BY <1>1, <1>3, <1>4, <1>5
  <1>z. WentOff(r, t, on)
    BY <1>1, <1>3, <1>4, <1>5, <1>6 DEF WentOff
  <1> QED BY <1>z DEF r, on

(* What is written again leaves a state but for the settings of its chips. *)
Rewritten(r, t) ==
    /\ Params(r) = Params(t) /\ r.m_power_state = t.m_power_state
    /\ r.latched = t.latched /\ r.detected = t.detected /\ r.irq_count = t.irq_count
    /\ r.irq_work = t.irq_work /\ r.init_work = t.init_work /\ r.stray = t.stray
    /\ r.disarmed = t.disarmed /\ r.missed = t.missed
    /\ \A d \in Tas!Channels : r.chip[d].power = t.chip[d].power /\ r.chip[d].intr = t.chip[d].intr

LEMMA RewrittenOn ==
    ASSUME NEW r, NEW s, NEW t, Rewritten(r, s), Rewritten(s, t)
    PROVE  Rewritten(r, t)
  BY DEF Rewritten

LEMMA WriteAgain ==
    ASSUME NEW t \in TasStates, NEW s, NEW v \in Nat
    PROVE  LET r == Tas!Write(t, s, v)
           IN  /\ r \in TasStates /\ Rewritten(r, t) /\ r.lost = t.lost
               /\ \A c \in Tas!Channels : r.chip[c].set = IF setting = s THEN v ELSE t.chip[c].set
  <1> DEFINE r == Tas!Write(t, s, v)
  <1>1. /\ r \in TasStates
        /\ \A c \in Tas!Channels :
             /\ r.chip[c].set = IF setting = s THEN v ELSE t.chip[c].set
             /\ r.chip[c].power = t.chip[c].power
             /\ r.chip[c].intr = t.chip[c].intr
        /\ Params(r) = Params(t) /\ r.m_power_state = t.m_power_state
        /\ r.latched = t.latched /\ r.detected = t.detected
        /\ r.irq_count = t.irq_count /\ r.irq_work = t.irq_work
        /\ r.init_work = t.init_work /\ r.lost = t.lost /\ r.stray = t.stray
        /\ r.disarmed = t.disarmed /\ r.missed = t.missed
    BY WriteEffect
  <1> HIDE DEF r
  <1> QED BY <1>1 DEF Rewritten, r

LEMMA RateEffect ==
    ASSUME NEW t \in TasStates, NEW v \in Nat
    PROVE  LET r == Tas!SetSampleRate(t, v)
           IN  /\ r \in TasStates /\ Rewritten(r, t) /\ r.lost = t.lost
               /\ \A c \in Tas!Channels : r.chip[c].set = IF setting = "rate" THEN v ELSE t.chip[c].set
               /\ r.sample_rate = v
  <1> DEFINE x == [t EXCEPT !.sample_rate = v]
  <1>1. /\ x \in TasStates /\ Rewritten(x, t) /\ x.lost = t.lost /\ x.chip = t.chip
        /\ x.sample_rate = v
    BY DEF TasStates, Rewritten, Params
  <1> DEFINE y == Tas!Write(x, "rate", v)
  <1>2. y = Tas!SetSampleRate(t, v)
    BY DEF Tas!SetSampleRate
  <1>3. y.sample_rate = x.sample_rate
    <2>1. \A q : [x EXCEPT !.chip = q].sample_rate = x.sample_rate
      BY <1>1 DEF TasStates
    <2> HIDE DEF x
    <2> QED BY <2>1 DEF Tas!Write
  <1> HIDE DEF x
  <1>4. /\ y \in TasStates /\ Rewritten(y, x) /\ y.lost = x.lost
        /\ \A c \in Tas!Channels : y.chip[c].set = IF setting = "rate" THEN v ELSE x.chip[c].set
    BY <1>1, WriteAgain
  <1> HIDE DEF y
  <1>5. Rewritten(y, t)
    BY <1>1, <1>4, RewrittenOn
  <1> QED BY <1>1, <1>2, <1>3, <1>4, <1>5

LEMMA InitParamsEffect ==
    ASSUME NEW t \in TasStates
    PROVE  LET r == Tas!WriteInitConfigParams(t)
           IN  /\ r \in TasStates /\ Rewritten(r, t) /\ r.lost = t.lost
               /\ \A c \in Tas!Channels :
                    r.chip[c].set = IF setting \in {"fmt", "rx_width", "tx_format", "rate"}
                                      THEN 0 ELSE t.chip[c].set
  <1> DEFINE a == Tas!SetSampleRate(t, 0)
             b == Tas!Write(a, "fmt", 0)
             c == Tas!Write(b, "rx_width", 0)
             r == Tas!Write(c, "tx_format", 0)
  <1>1. /\ a \in TasStates /\ Rewritten(a, t) /\ a.lost = t.lost
        /\ \A d \in Tas!Channels : a.chip[d].set = IF setting = "rate" THEN 0 ELSE t.chip[d].set
    BY RateEffect
  <1>2. Tas!WriteInitConfigParams(t) = r
    BY DEF Tas!WriteInitConfigParams
  <1> HIDE DEF a
  <1>3. /\ b \in TasStates /\ Rewritten(b, a) /\ b.lost = a.lost
        /\ \A d \in Tas!Channels : b.chip[d].set = IF setting = "fmt" THEN 0 ELSE a.chip[d].set
    BY <1>1, WriteAgain
  <1> HIDE DEF b
  <1>4. /\ c \in TasStates /\ Rewritten(c, b) /\ c.lost = b.lost
        /\ \A d \in Tas!Channels : c.chip[d].set = IF setting = "rx_width" THEN 0 ELSE b.chip[d].set
    BY <1>3, WriteAgain
  <1> HIDE DEF c
  <1>5. /\ r \in TasStates /\ Rewritten(r, c) /\ r.lost = c.lost
        /\ \A d \in Tas!Channels : r.chip[d].set = IF setting = "tx_format" THEN 0 ELSE c.chip[d].set
    BY <1>4, WriteAgain
  <1> HIDE DEF r
  <1>6. Rewritten(r, t)
    BY <1>1, <1>3, <1>4, <1>5, RewrittenOn
  <1> QED BY <1>1, <1>2, <1>3, <1>4, <1>5, <1>6

LEMMA FormatEffect ==
    ASSUME NEW t \in TasStates
    PROVE  LET r == Tas!FormatAgain(t)
           IN  /\ r \in TasStates /\ Rewritten(r, t) /\ r.lost = t.lost
               /\ \A c \in Tas!Channels : r.chip[c].set = IF setting = "fmt" /\ t.mn_fmt # 0
                                                        THEN t.mn_fmt ELSE t.chip[c].set
  <1>1. t.mn_fmt \in Nat
    BY DEF TasStates
  <1>2. CASE t.mn_fmt # 0
    <2> DEFINE r == Tas!Write(t, "fmt", t.mn_fmt)
    <2>1. /\ r \in TasStates /\ Rewritten(r, t) /\ r.lost = t.lost
          /\ \A c \in Tas!Channels : r.chip[c].set = IF setting = "fmt" THEN t.mn_fmt
                                                 ELSE t.chip[c].set
      BY <1>1, WriteAgain
    <2>2. Tas!FormatAgain(t) = r
      BY <1>2 DEF Tas!FormatAgain, Tas!SetDaiFmtForFmt
    <2> HIDE DEF r
    <2> QED BY <1>2, <2>1, <2>2
  <1>3. CASE t.mn_fmt = 0
    <2>1. Tas!FormatAgain(t) = t
      BY <1>3 DEF Tas!FormatAgain
    <2> QED BY <1>3, <2>1 DEF Rewritten
  <1> QED BY <1>2, <1>3

LEMMA SameWidths ==
    ASSUME NEW t \in TasStates
    PROVE  /\ [t EXCEPT !.mn_rx_width = t.mn_rx_width] = t
           /\ [t EXCEPT !.mn_tx_slot_width = t.mn_tx_slot_width] = t
  BY DEF TasStates

LEMMA RxWidthAgain ==
    ASSUME NEW t \in TasStates
    PROVE  LET r == Tas!RxSetBitwidth(t, t.mn_rx_width)
           IN  /\ r \in TasStates /\ Rewritten(r, t) /\ r.lost = t.lost
               /\ \A c \in Tas!Channels : r.chip[c].set = IF setting = "rx_width"
                                                        THEN t.mn_rx_width ELSE t.chip[c].set
  <1>1. t.mn_rx_width \in Nat
    BY DEF TasStates
  <1>2. Tas!RxSetBitwidth(t, t.mn_rx_width) = Tas!Write(t, "rx_width", t.mn_rx_width)
    BY SameWidths DEF Tas!RxSetBitwidth
  <1> QED BY <1>1, <1>2, WriteAgain

LEMMA TxFormatAgain ==
    ASSUME NEW t \in TasStates, Setting, fmt_table # {}
    PROVE  LET r == Tas!IvVbatSlotConfig(t, t.mn_tx_slot_width)
           IN  /\ r \in TasStates /\ Rewritten(r, t) /\ r.lost = t.lost
               /\ \A c \in Tas!Channels : r.chip[c].set = IF setting = "tx_format"
                                                        THEN Best ELSE t.chip[c].set
  <1>1. Tas!IvVbatSlotConfig(t, t.mn_tx_slot_width) = Tas!Write(t, "tx_format", Best)
    BY SameWidths DEF Tas!IvVbatSlotConfig, Best
  <1> QED BY <1>1, BestTyped, WriteAgain

LEMMA ReachesAlike ==
    ASSUME NEW r, NEW t, Params(r) = Params(t), NEW s
    PROVE  Tas!Reaches(r, s) = Tas!Reaches(t, s)
  BY DEF Tas!Reaches, Params

Everywhere == {"fmt", "rx_width", "tx_format", "rate"}

(* A reset's settings reach every chip, or are marked as lost. *)
LEMMA ReinitEffect ==
    ASSUME NEW t \in TasStates, NEW w \in Nat, Setting, Remembered(t, w)
    PROVE  LET r == Tas!Reinit(t)
           IN  /\ r \in TasStates /\ Rewritten(r, t)
               /\ t.lost => r.lost
               /\ setting \in Everywhere /\ ~r.lost => \A d \in Tas!Channels : r.chip[d].set = w
               /\ setting = "anytime" /\ ~r.lost => r.chip[1].set = w
               /\ setting \notin Everywhere \cup {"anytime"} =>
                    \A d \in Tas!Channels : r.chip[d].set = t.chip[d].set
  <1> DEFINE a == Tas!WriteInitConfigParams(t)
             f == Tas!FormatAgain(a)
             b == IF Tas!Reaches(f, "rx_width") /\ f.mn_fmt_mode # 0
                    THEN Tas!RxSetBitwidth(f, f.mn_rx_width) ELSE f
             c == IF Tas!Reaches(b, "tx_format") /\ b.mn_fmt_mode = 1
                    THEN Tas!IvVbatSlotConfig(b, b.mn_tx_slot_width) ELSE b
             e == Tas!SetSampleRate(c, c.sample_rate)
             d == IF Tas!Reaches(c, "rate") THEN Tas!UpdateKcontrolData(e, "anytime") ELSE c
             m == setting = "rate" \/ (setting \notin {"pre", "post"} /\ ~Tas!Reaches(a, setting))
             r == [d EXCEPT !.lost = @ \/ setting = "rate"
                              \/ (setting \notin {"pre", "post"} /\ ~Tas!Reaches(a, setting))]
  <1>1. Tas!Reinit(t) = r
    BY DEF Tas!Reinit
  <1>2. /\ a \in TasStates /\ Rewritten(a, t) /\ a.lost = t.lost
        /\ \A k \in Tas!Channels :
             a.chip[k].set = IF setting \in Everywhere THEN 0 ELSE t.chip[k].set
    BY InitParamsEffect DEF Everywhere
  <1> HIDE DEF a
  <1>3. /\ f \in TasStates /\ Rewritten(f, a) /\ f.lost = a.lost
        /\ \A k \in Tas!Channels : f.chip[k].set = IF setting = "fmt" /\ a.mn_fmt # 0
                                                 THEN a.mn_fmt ELSE a.chip[k].set
    BY <1>2, FormatEffect
  <1>4. Rewritten(f, t)
    BY <1>2, <1>3, RewrittenOn
  <1> HIDE DEF f
  <1>5. /\ b \in TasStates /\ Rewritten(b, f) /\ b.lost = f.lost
        /\ \A k \in Tas!Channels :
             b.chip[k].set = IF setting = "rx_width" /\ Tas!Reaches(f, "rx_width") /\ f.mn_fmt_mode # 0
                               THEN f.mn_rx_width ELSE f.chip[k].set
    <2>1. CASE Tas!Reaches(f, "rx_width") /\ f.mn_fmt_mode # 0
      <3> DEFINE x == Tas!RxSetBitwidth(f, f.mn_rx_width)
      <3>1. b = x
        BY <2>1
      <3>2. /\ x \in TasStates /\ Rewritten(x, f) /\ x.lost = f.lost
            /\ \A k \in Tas!Channels : x.chip[k].set = IF setting = "rx_width"
                                                     THEN f.mn_rx_width ELSE f.chip[k].set
        BY <1>3, RxWidthAgain
      <3> HIDE DEF x, b
      <3> QED BY <2>1, <3>1, <3>2
    <2>2. CASE ~(Tas!Reaches(f, "rx_width") /\ f.mn_fmt_mode # 0)
      <3>1. b = f
        BY <2>2
      <3> HIDE DEF b
      <3> QED BY <1>3, <2>2, <3>1 DEF Rewritten
    <2> QED BY <2>1, <2>2
  <1>6. Rewritten(b, t)
    BY <1>4, <1>5, RewrittenOn
  <1> HIDE DEF b
  <1>7. /\ c \in TasStates /\ Rewritten(c, b) /\ c.lost = b.lost
        /\ \A k \in Tas!Channels :
             c.chip[k].set = IF setting = "tx_format" /\ Tas!Reaches(b, "tx_format") /\ b.mn_fmt_mode = 1
                               THEN Best ELSE b.chip[k].set
    <2>1. CASE Tas!Reaches(b, "tx_format") /\ b.mn_fmt_mode = 1
      <3> DEFINE x == Tas!IvVbatSlotConfig(b, b.mn_tx_slot_width)
      <3>1. c = x
        BY <2>1
      <3>2. b.mn_tx_slot_width # 0
        BY <2>1 DEF Tas!Reaches
      <3>3. fmt_table # {}
        BY <1>6, <3>2 DEF Rewritten, Params, Remembered
      <3>4. /\ x \in TasStates /\ Rewritten(x, b) /\ x.lost = b.lost
            /\ \A k \in Tas!Channels : x.chip[k].set = IF setting = "tx_format"
                                                     THEN Best ELSE b.chip[k].set
        BY <1>5, <3>3, TxFormatAgain
      <3> HIDE DEF x, c
      <3> QED BY <2>1, <3>1, <3>4
    <2>2. CASE ~(Tas!Reaches(b, "tx_format") /\ b.mn_fmt_mode = 1)
      <3>1. c = b
        BY <2>2
      <3> HIDE DEF c
      <3> QED BY <1>5, <2>2, <3>1 DEF Rewritten
    <2> QED BY <2>1, <2>2
  <1>8. Rewritten(c, t)
    BY <1>6, <1>7, RewrittenOn
  <1> HIDE DEF c
  <1>9. /\ d \in TasStates /\ Rewritten(d, c) /\ d.lost = c.lost
        /\ setting # "rate" =>
             /\ d.chip[1].set = IF setting = "anytime" /\ Tas!Reaches(c, "rate")
                                  THEN c.curr_val ELSE c.chip[1].set
             /\ d.chip[2].set = c.chip[2].set
    <2>1. CASE Tas!Reaches(c, "rate")
      <3>1. c.sample_rate \in Nat
        BY <1>7 DEF TasStates
      <3>2. /\ e \in TasStates /\ Rewritten(e, c) /\ e.lost = c.lost
            /\ \A k \in Tas!Channels : e.chip[k].set = IF setting = "rate" THEN c.sample_rate
                                                   ELSE c.chip[k].set
        BY <1>7, <3>1, RateEffect
      <3> DEFINE x == Tas!UpdateKcontrolData(e, "anytime")
      <3>3. d = x
        BY <2>1
      <3> HIDE DEF e
      <3>4. /\ x \in TasStates
            /\ x.chip[1].set = IF setting = "anytime" THEN e.curr_val ELSE e.chip[1].set
            /\ x.chip[1].power = e.chip[1].power /\ x.chip[1].intr = e.chip[1].intr
            /\ x.chip[2] = e.chip[2]
            /\ Params(x) = Params(e) /\ x.m_power_state = e.m_power_state
            /\ x.latched = e.latched /\ x.detected = e.detected
            /\ x.irq_count = e.irq_count /\ x.irq_work = e.irq_work
            /\ x.init_work = e.init_work /\ x.lost = e.lost /\ x.stray = e.stray
            /\ x.disarmed = e.disarmed /\ x.missed = e.missed
        BY <3>2, KcontrolEffect
      <3> HIDE DEF x, d
      <3>5. \A k \in Tas!Channels : k = 1 \/ k = 2
        BY DEF Tas!Channels
      <3>6. Rewritten(x, e)
        BY <3>4, <3>5 DEF Rewritten
      <3>7. Rewritten(x, c)
        BY <3>2, <3>6, RewrittenOn
      <3>8. e.curr_val = c.curr_val
        BY <3>2 DEF Rewritten, Params
      <3>9. 1 \in Tas!Channels /\ 2 \in Tas!Channels
        BY DEF Tas!Channels
      <3> QED BY <2>1, <3>2, <3>3, <3>4, <3>7, <3>8, <3>9
    <2>2. CASE ~Tas!Reaches(c, "rate")
      <3>1. d = c
        BY <2>2
      <3> HIDE DEF d
      <3> QED BY <1>7, <2>2, <3>1 DEF Rewritten
    <2> QED BY <2>1, <2>2
  <1>10. Rewritten(d, t)
    BY <1>8, <1>9, RewrittenOn
  <1> HIDE DEF d
  <1>11. d.lost \in BOOLEAN
    BY <1>9 DEF TasStates
  <1> DEFINE g == (d.lost \/ m)
             x == [d EXCEPT !.lost = g]
  <1>12. r = x
    BY <1>9
  <1>13. g \in BOOLEAN
    BY Zenon
  <1>14. g = TRUE => ~(~g)
    OBVIOUS
  <1> HIDE DEF r
  <1> HIDE DEF g
  <1>15. /\ x \in TasStates /\ x.lost = g
         /\ Params(x) = Params(d) /\ x.m_power_state = d.m_power_state /\ x.chip = d.chip
         /\ x.latched = d.latched /\ x.detected = d.detected /\ x.irq_count = d.irq_count
         /\ x.irq_work = d.irq_work /\ x.init_work = d.init_work /\ x.stray = d.stray
         /\ x.disarmed = d.disarmed /\ x.missed = d.missed
    BY <1>9, <1>13, WithLost
  <1> HIDE DEF x
  <1>16. Rewritten(x, d)
    BY <1>15 DEF Rewritten
  <1>17. Rewritten(x, t)
    BY <1>10, <1>16, RewrittenOn
  <1>18. t.lost => x.lost
    BY <1>2, <1>3, <1>5, <1>7, <1>9, <1>15 DEF g
  <1>19. \A k \in Tas!Channels : k = 1 \/ k = 2
    BY DEF Tas!Channels
  <1>20. ~x.lost => setting # "rate" /\ (setting \notin {"pre", "post"} => Tas!Reaches(t, setting))
    <2>1. Params(a) = Params(t)
      BY <1>2 DEF Rewritten
    <2>2. Tas!Reaches(a, setting) = Tas!Reaches(t, setting)
      BY <2>1, ReachesAlike
    <2> QED BY <1>15, <2>2 DEF g
  <1>21. /\ a.mn_fmt = t.mn_fmt /\ f.mn_rx_width = t.mn_rx_width /\ f.mn_fmt_mode = t.mn_fmt_mode
         /\ b.mn_fmt_mode = t.mn_fmt_mode /\ c.curr_val = t.curr_val
         /\ Tas!Reaches(f, "rx_width") = Tas!Reaches(t, "rx_width")
         /\ Tas!Reaches(b, "tx_format") = Tas!Reaches(t, "tx_format")
         /\ Tas!Reaches(c, "rate") = Tas!Reaches(t, "rate")
    <2>1. /\ Params(a) = Params(t) /\ Params(f) = Params(t) /\ Params(b) = Params(t)
          /\ Params(c) = Params(t)
      BY <1>2, <1>4, <1>6, <1>8 DEF Rewritten
    <2> QED BY <2>1, ReachesAlike DEF Params
  <1>22. setting \in Everywhere /\ ~x.lost => \A k \in Tas!Channels : x.chip[k].set = w
    <2> SUFFICES ASSUME setting \in Everywhere, ~x.lost, NEW k \in Tas!Channels
                 PROVE  x.chip[k].set = w
      OBVIOUS
    <2>1. setting # "rate" /\ Tas!Reaches(t, setting)
      BY <1>20 DEF Everywhere
    <2>2. x.chip[k].set = c.chip[k].set
      BY <1>9, <1>15, <1>19, <2>1 DEF Everywhere
    <2>3. CASE setting = "fmt"
      BY <1>2, <1>3, <1>5, <1>7, <1>21, <2>2, <2>3 DEF Remembered, Everywhere
    <2>4. CASE setting = "rx_width"
      BY <1>2, <1>3, <1>5, <1>7, <1>21, <2>1, <2>2, <2>4 DEF Remembered, Everywhere
    <2>5. CASE setting = "tx_format"
      <3>1. t.mn_fmt_mode = 0 \/ (t.mn_fmt_mode = 1 /\ t.mn_tx_slot_width # 0)
        <4>1. Tas!Reaches(t, "tx_format")
          BY <2>1, <2>5
        <4> QED BY <4>1 DEF Tas!Reaches
      <3> QED BY <1>2, <1>3, <1>5, <1>7, <1>21, <2>1, <2>2, <2>5, <3>1 DEF Remembered,
           Everywhere
    <2> QED BY <2>1, <2>3, <2>4, <2>5 DEF Everywhere
  <1>23. setting = "anytime" /\ ~x.lost => x.chip[1].set = w
    <2> SUFFICES ASSUME setting = "anytime", ~x.lost
                 PROVE  x.chip[1].set = w
      OBVIOUS
    <2>1. Tas!Reaches(t, "anytime")
      BY <1>20
    <2>2. Tas!Reaches(t, "rate")
      BY <2>1 DEF Tas!Reaches
    <2> QED BY <1>9, <1>15, <1>21, <2>2 DEF Remembered, Tas!Controls
  <1>24. setting \notin Everywhere \cup {"anytime"} =>
           \A k \in Tas!Channels : x.chip[k].set = t.chip[k].set
    BY <1>2, <1>3, <1>5, <1>7, <1>9, <1>15, <1>19 DEF Everywhere
  <1> QED BY <1>1, <1>12, <1>15, <1>17, <1>18, <1>22, <1>23, <1>24

QuietAt(t, c) == ~t.chip[c].intr \/ t.latched[c] = {}

Core(t, playing_, w) ==
    t \in TasStates /\ PowerAt(t) /\ SilentAt(t, playing_) /\ Remembered(t, w) /\ KeptAt(t, w)

(* What can only turn a chip off, stop it from reporting, or forget what it reported; the
   chips but c report as before. *)
Tamer(r, t, c) ==
    /\ Params(r) = Params(t) /\ r.m_power_state = t.m_power_state
    /\ r.init_work = t.init_work /\ t.disarmed \subseteq r.disarmed /\ (t.lost => r.lost)
    /\ \A d \in Tas!Channels :
           /\ r.latched[d] = t.latched[d] \/ r.latched[d] = {}
           /\ r.detected[d] = t.detected[d] \/ r.detected[d] = {}
    /\ \A d \in Tas!Channels : r.chip[d].intr => t.chip[d].intr
    /\ \A d \in Tas!Channels :
         \/ r.chip[d].power = "off" /\ ~r.chip[d].intr
         \/ /\ r.chip[d].power = t.chip[d].power /\ (d \in t.stray => d \in r.stray)
            /\ d # c => r.chip[d].intr = t.chip[d].intr

LEMMA TamerOn ==
    ASSUME NEW r, NEW s, NEW t, NEW c, Tamer(r, s, c), Tamer(s, t, c)
    PROVE  Tamer(r, t, c)
  <1>1. \A d \in Tas!Channels : r.chip[d].intr => t.chip[d].intr
    BY Zenon DEF Tamer
  <1>2. t.lost => r.lost
    BY Zenon DEF Tamer
  <1>3. \A d \in Tas!Channels :
         \/ r.chip[d].power = "off" /\ ~r.chip[d].intr
         \/ /\ r.chip[d].power = t.chip[d].power /\ (d \in t.stray => d \in r.stray)
            /\ d # c => r.chip[d].intr = t.chip[d].intr
    <2> SUFFICES ASSUME NEW d \in Tas!Channels, ~(r.chip[d].power = "off" /\ ~r.chip[d].intr)
                 PROVE  /\ r.chip[d].power = t.chip[d].power /\ (d \in t.stray => d \in r.stray)
                        /\ d # c => r.chip[d].intr = t.chip[d].intr
      OBVIOUS
    <2>1. /\ r.chip[d].power = s.chip[d].power /\ (d \in s.stray => d \in r.stray)
          /\ d # c => r.chip[d].intr = s.chip[d].intr
          /\ r.chip[d].intr => s.chip[d].intr
      BY DEF Tamer
    <2>2. ~(s.chip[d].power = "off" /\ ~s.chip[d].intr)
      BY <2>1
    <2>3. /\ s.chip[d].power = t.chip[d].power /\ (d \in t.stray => d \in s.stray)
          /\ d # c => s.chip[d].intr = t.chip[d].intr
      BY <2>2 DEF Tamer
    <2> QED BY <2>1, <2>3
  <1>4. \A d \in Tas!Channels :
         /\ r.latched[d] = t.latched[d] \/ r.latched[d] = {}
         /\ r.detected[d] = t.detected[d] \/ r.detected[d] = {}
    BY DEF Tamer
  <1> QED BY <1>1, <1>2, <1>3, <1>4 DEF Tamer

LEMMA TamerCore ==
    ASSUME NEW t, NEW r \in TasStates, NEW c, NEW p, NEW w, Tamer(r, t, c), Core(t, p, w),
           KeptAt(r, w), \A d \in Tas!Channels : r.irq_count[d] <= IrqLimit
    PROVE  /\ Core(r, p, w)
           /\ \A d \in Tas!Channels : QuietAt(t, d) => QuietAt(r, d)
           /\ \A d \in Tas!Channels \ {c} : ArmedAt(t, d) => ArmedAt(r, d)
  <1>1. 1 \in Tas!Channels /\ 2 \in Tas!Channels
    BY DEF Tas!Channels
  <1>2. PowerAt(r)
    <2>1. /\ r.m_power_state = t.m_power_state
          /\ r.chip[1].power = "off" \/ r.chip[1].power = t.chip[1].power
          /\ r.chip[2].power = "off" \/ r.chip[2].power = t.chip[2].power
      BY <1>1, Zenon DEF Tamer
    <2>2. /\ t.latched[1] = {} => r.latched[1] = {}
          /\ t.latched[2] = {} => r.latched[2] = {}
          /\ t.detected[1] = {} => r.detected[1] = {}
          /\ t.detected[2] = {} => r.detected[2] = {}
      <3>1. \A d \in Tas!Channels :
             /\ r.latched[d] = t.latched[d] \/ r.latched[d] = {}
             /\ r.detected[d] = t.detected[d] \/ r.detected[d] = {}
        BY Zenon DEF Tamer
      <3> QED BY <1>1, <3>1
    <2>3. PowerAt(t)
      BY DEF Core
    <2> QED BY <2>1, <2>2, <2>3 DEF PowerAt, Rested
  <1>3. SilentAt(r, p)
    <2> SUFFICES ASSUME ~p, NEW d \in Tas!Channels \ r.stray
                 PROVE  r.chip[d].power = "off" /\ ~r.chip[d].intr
      BY DEF SilentAt
    <2>1. CASE d \in t.stray
      BY <2>1 DEF Tamer
    <2>2. CASE d \notin t.stray
      <3>1. t.chip[d].power = "off" /\ ~t.chip[d].intr
        BY <2>2 DEF Core, SilentAt
      <3> QED BY <3>1 DEF Tamer
    <2> QED BY <2>1, <2>2
  <1>4. Remembered(r, w)
    BY DEF Tamer, Core, Remembered, Params
  <1>5. \A d \in Tas!Channels : QuietAt(t, d) => QuietAt(r, d)
    <2> SUFFICES ASSUME NEW d \in Tas!Channels, QuietAt(t, d) PROVE QuietAt(r, d)
      OBVIOUS
    <2>1. CASE ~t.chip[d].intr
      BY <2>1, Zenon DEF Tamer, QuietAt
    <2>2. CASE t.latched[d] = {}
      <3>0. r.latched[d] = t.latched[d] \/ r.latched[d] = {}
        BY Zenon DEF Tamer
      <3>1. r.latched[d] = {}
        BY <2>2, <3>0
      <3> QED BY <3>1, Zenon DEF QuietAt
    <2> QED BY <2>1, <2>2, Zenon DEF QuietAt
  <1>6. \A d \in Tas!Channels \ {c} : ArmedAt(t, d) => ArmedAt(r, d)
    <2> SUFFICES ASSUME NEW d \in Tas!Channels \ {c}, ArmedAt(t, d), r.m_power_state = "active",
                        d \in Tas!Opmode(r) \ r.disarmed, r.chip[d].power = "on"
                 PROVE  r.chip[d].intr \/ r.init_work[d] # {}
      BY DEF ArmedAt
    <2>1. Tas!Opmode(r) = Tas!Opmode(t)
      BY DEF Tamer, Params, Tas!Opmode
    <2>2. /\ t.m_power_state = "active" /\ d \in Tas!Opmode(t) \ t.disarmed
          /\ t.chip[d].power = "on" /\ r.chip[d].intr = t.chip[d].intr
          /\ r.init_work = t.init_work
      BY <2>1 DEF Tamer
    <2> QED BY <2>2 DEF ArmedAt
  <1> QED BY <1>2, <1>3, <1>4, <1>5, <1>6 DEF Core

LEMMA SteadyKept ==
    ASSUME NEW t, NEW r, NEW w, KeptAt(t, w), Setting, t.lost => r.lost,
           r.m_power_state = t.m_power_state, r.init_work[1] = t.init_work[1],
           \A d \in Tas!Channels : r.chip[d].set = t.chip[d].set,
           r.chip[1].power = t.chip[1].power \/ r.chip[1].power = "off"
    PROVE  KeptAt(r, w)
  <1>1. 1 \in Tas!Channels
    BY DEF Tas!Channels
  <1>2. setting \in Tas!Settings
    BY SettingCases
  <1>3. CASE setting \in Everywhere
    BY <1>3 DEF KeptAt, Everywhere
  <1>4. CASE setting \in {"anytime", "em"}
    BY <1>1, <1>4 DEF KeptAt
  <1>5. CASE setting = "pre"
    BY <1>1, <1>5 DEF KeptAt
  <1>6. CASE setting = "post"
    BY <1>1, <1>6 DEF KeptAt
  <1>7. CASE setting = "profile"
    BY <1>7 DEF KeptAt
  <1> QED BY <1>2, <1>3, <1>4, <1>5, <1>6, <1>7 DEF Tas!Settings, Everywhere

(* A reset chip lost its setting, which matters but where it is written again. *)
ResetSome(r, t) ==
    /\ Params(r) = Params(t) /\ r.m_power_state = t.m_power_state
    /\ r.detected = t.detected /\ r.irq_count = t.irq_count /\ r.init_work = t.init_work
    /\ r.disarmed = t.disarmed /\ (t.lost => r.lost)
    /\ \A d \in Tas!Channels : r.latched[d] = t.latched[d] \/ r.latched[d] = {}
    /\ \A d \in Tas!Channels :
         \/ r.chip[d] = Tas!Reset
         \/ r.chip[d] = t.chip[d] /\ (d \in t.stray => d \in r.stray)
    /\ ~r.lost /\ setting = "em" => \A d \in Tas!Channels : r.chip[d] = t.chip[d]

LEMMA ResetSomeOn ==
    ASSUME NEW r, NEW s, NEW t, ResetSome(r, s), ResetSome(s, t)
    PROVE  ResetSome(r, t)
  <1>1. t.lost => r.lost
    BY Zenon DEF ResetSome
  <1>2. \A d \in Tas!Channels :
         \/ r.chip[d] = Tas!Reset
         \/ r.chip[d] = t.chip[d] /\ (d \in t.stray => d \in r.stray)
    BY DEF ResetSome
  <1>3. ~r.lost /\ setting = "em" => \A d \in Tas!Channels : r.chip[d] = t.chip[d]
    <2> SUFFICES ASSUME ~r.lost, setting = "em", NEW d \in Tas!Channels
                 PROVE  r.chip[d] = t.chip[d]
      OBVIOUS
    <2>1. ~s.lost
      BY Zenon DEF ResetSome
    <2> QED BY <2>1 DEF ResetSome
  <1>4. \A d \in Tas!Channels : r.latched[d] = t.latched[d] \/ r.latched[d] = {}
    BY DEF ResetSome
  <1> QED BY <1>1, <1>2, <1>3, <1>4 DEF ResetSome

LEMMA ResetSomeTamer ==
    ASSUME NEW r, NEW t, NEW c, ResetSome(r, t)
    PROVE  Tamer(r, t, c)
  <1>1. Tas!Reset.power = "off" /\ Tas!Reset.intr = FALSE
    BY DEF Tas!Reset
  <1>2. \A d \in Tas!Channels :
         \/ r.chip[d].power = "off" /\ ~r.chip[d].intr
         \/ /\ r.chip[d].power = t.chip[d].power /\ (d \in t.stray => d \in r.stray)
            /\ d # c => r.chip[d].intr = t.chip[d].intr
    <2> SUFFICES ASSUME NEW d \in Tas!Channels
                 PROVE  \/ r.chip[d].power = "off" /\ ~r.chip[d].intr
                        \/ /\ r.chip[d].power = t.chip[d].power /\ (d \in t.stray => d \in r.stray)
                           /\ d # c => r.chip[d].intr = t.chip[d].intr
      OBVIOUS
    <2>1. CASE r.chip[d] = Tas!Reset
      BY <1>1, <2>1
    <2>2. CASE r.chip[d] = t.chip[d] /\ (d \in t.stray => d \in r.stray)
      BY <2>2
    <2> QED BY <2>1, <2>2 DEF ResetSome
  <1>3. \A d \in Tas!Channels : r.chip[d].intr => t.chip[d].intr
    <2> SUFFICES ASSUME NEW d \in Tas!Channels, r.chip[d].intr PROVE t.chip[d].intr
      OBVIOUS
    <2>1. CASE r.chip[d] = Tas!Reset
      BY <1>1, <2>1
    <2>2. CASE r.chip[d] = t.chip[d]
      BY <2>2
    <2> QED BY <2>1, <2>2 DEF ResetSome
  <1>4. t.lost => r.lost
    BY Zenon DEF ResetSome
  <1> QED BY <1>2, <1>3, <1>4 DEF ResetSome, Tamer

LEMMA SoftResetSome ==
    ASSUME NEW t \in TasStates, NEW c \in Tas!Channels
    PROVE  Tas!SoftwareReset(t, c) \in TasStates /\ ResetSome(Tas!SoftwareReset(t, c), t)
  <1> DEFINE r == Tas!SoftwareReset(t, c)
  <1>1. /\ r \in TasStates
        /\ r.chip[c] = Tas!Reset
        /\ \A d \in Tas!Channels \ {c} : r.chip[d] = t.chip[d]
        /\ r.latched[c] = {}
        /\ \A d \in Tas!Channels \ {c} : r.latched[d] = t.latched[d]
        /\ r.missed = t.missed \ {c} /\ r.stray = t.stray \ {c}
        /\ Params(r) = Params(t) /\ r.m_power_state = t.m_power_state
        /\ r.detected = t.detected /\ r.irq_count = t.irq_count
        /\ r.irq_work = t.irq_work /\ r.init_work = t.init_work
        /\ r.disarmed = t.disarmed
    BY ResetEffect
  <1>2. r.lost = (t.lost \/ setting = "em")
    BY ResetEffect
  <1> HIDE DEF r
  <1>3. (t.lost => r.lost) /\ (~r.lost => setting # "em")
    BY <1>2, Zenon
  <1>4. \A d \in Tas!Channels :
         \/ r.chip[d] = Tas!Reset
         \/ r.chip[d] = t.chip[d] /\ (d \in t.stray => d \in r.stray)
    BY <1>1
  <1>5. \A d \in Tas!Channels : r.latched[d] = t.latched[d] \/ r.latched[d] = {}
    BY <1>1
  <1>6. r \in TasStates /\ ResetSome(r, t)
    BY <1>1, <1>3, <1>4, <1>5 DEF ResetSome
  <1> QED BY <1>6 DEF r

LEMMA HardResetSome ==
    ASSUME NEW t \in TasStates
    PROVE  Tas!HardReset(t) \in TasStates /\ ResetSome(Tas!HardReset(t), t)
  <1> DEFINE a == Tas!SoftwareReset(t, 1)
             b == Tas!SoftwareReset(a, 2)
  <1>1. 1 \in Tas!Channels /\ 2 \in Tas!Channels
    BY DEF Tas!Channels
  <1>2. Tas!HardReset(t) = b
    BY <1>1 DEF Tas!HardReset, Tas!EachOf
  <1>3. a \in TasStates /\ ResetSome(a, t)
    BY <1>1, SoftResetSome
  <1> HIDE DEF a
  <1>4. b \in TasStates /\ ResetSome(b, a)
    BY <1>1, <1>3, SoftResetSome
  <1> HIDE DEF b
  <1> QED BY <1>2, <1>3, <1>4, ResetSomeOn

LEMMA ResetSomeSelf ==
    ASSUME NEW t
    PROVE  ResetSome(t, t)
  BY DEF ResetSome

LEMMA RewrittenTamer ==
    ASSUME NEW r, NEW t, NEW c, Rewritten(r, t), t.lost => r.lost
    PROVE  Tamer(r, t, c)
  BY DEF Rewritten, Tamer

LEMMA ResetKept ==
    ASSUME Setting, NEW w \in Nat, NEW p, NEW d, NEW f \in TasStates, NEW c,
           Core(d, p, w), ResetSome(f, d)
    PROVE  LET g == Tas!Reinit(f)
           IN  /\ g \in TasStates /\ KeptAt(g, w) /\ Tamer(g, d, c)
               /\ g.irq_count = d.irq_count
  <1> DEFINE g == Tas!Reinit(f)
  <1>1. Remembered(f, w)
    BY DEF Core, ResetSome, Remembered, Params
  <1>2. /\ g \in TasStates /\ Rewritten(g, f)
        /\ f.lost => g.lost
        /\ setting \in Everywhere /\ ~g.lost => \A k \in Tas!Channels : g.chip[k].set = w
        /\ setting = "anytime" /\ ~g.lost => g.chip[1].set = w
        /\ setting \notin Everywhere \cup {"anytime"} =>
             \A k \in Tas!Channels : g.chip[k].set = f.chip[k].set
    BY <1>1, ReinitEffect
  <1> HIDE DEF g
  <1>3. Tamer(g, d, c)
    BY <1>2, RewrittenTamer, ResetSomeTamer, TamerOn
  <1>4. g.irq_count = d.irq_count
    BY <1>2 DEF Rewritten, ResetSome
  <1>5. KeptAt(g, w)
    <2>0. 1 \in Tas!Channels
      BY DEF Tas!Channels
    <2>1. CASE setting \in Everywhere
      BY <1>2, <2>1 DEF KeptAt, Everywhere
    <2>2. CASE setting = "anytime"
      BY <1>2, <2>2 DEF KeptAt
    <2>3. CASE setting = "em"
      <3> SUFFICES ASSUME ~g.lost PROVE g.chip[1].set = w
        BY <2>3 DEF KeptAt
      <3>1. ~f.lost
        BY <1>2
      <3>2. f.chip[1] = d.chip[1] /\ (d.lost => f.lost)
        BY <2>0, <2>3, <3>1 DEF ResetSome
      <3>3. d.chip[1].set = w
        BY <2>3, <3>1, <3>2 DEF Core, KeptAt
      <3>4. g.chip[1].set = f.chip[1].set
        BY <1>2, <2>0, <2>3 DEF Everywhere
      <3> QED BY <3>2, <3>3, <3>4
    <2>4. CASE setting \in {"pre", "post"}
      <3>1. \/ g.chip[1].power = "off"
            \/ g.chip[1].power = d.chip[1].power /\ g.chip[1].set = d.chip[1].set
        <4>1. g.chip[1].power = f.chip[1].power
          BY <1>2, <2>0 DEF Rewritten
        <4>2. g.chip[1].set = f.chip[1].set
          BY <1>2, <2>0, <2>4 DEF Everywhere
        <4>3. f.chip[1] = Tas!Reset \/ f.chip[1] = d.chip[1]
          BY <2>0 DEF ResetSome
        <4> QED BY <4>1, <4>2, <4>3 DEF Tas!Reset
      <3>2. /\ g.m_power_state = d.m_power_state /\ g.init_work = d.init_work
            /\ (d.lost => g.lost)
        BY <1>3 DEF Tamer
      <3>3. KeptAt(d, w)
        BY DEF Core
      <3> QED BY <2>4, <3>1, <3>2, <3>3 DEF KeptAt
    <2>5. CASE setting = "profile"
      BY <2>5 DEF KeptAt
    <2> QED BY SettingCases, <2>1, <2>2, <2>3, <2>4, <2>5 DEF Tas!Settings, Everywhere
  <1> QED BY <1>2, <1>3, <1>4, <1>5 DEF g

LEMMA NoFailing ==
    ASSUME Setting, setting = "post", NEW fails \in Tas!Failing
    PROVE  fails = {}
  BY SettingCases DEF Tas!Failing

WentUp(r, t, c, w) ==
    /\ r \in TasStates /\ PowerAt(r) /\ Remembered(r, w) /\ KeptAt(r, w)
    /\ r.stray = t.stray /\ ~r.chip[c].intr /\ ArmedAt(r, c)
    /\ \A d \in Tas!Channels : t.latched[d] = {} => r.latched[d] = {}
    /\ \A d \in Tas!Channels \ {c} : r.chip[d] = t.chip[d] /\ (ArmedAt(t, d) => ArmedAt(r, d))
    /\ Params(r) = Params(t)

(* The others are off, or in the active state, when a chip is turned on alone. *)
NoneOn(t, c) ==
    \A d \in Tas!Opmode(t) \ (t.disarmed \cup {c}) :
      t.m_power_state # "active" => t.chip[d].power # "on"

(* A chip that is off is turned on: no other is on in another state than the active one. *)
LEMMA UpKept ==
    ASSUME Setting, NEW w \in Nat, NEW t \in TasStates, NEW c \in Tas!Channels, NEW fails \in Tas!Failing,
           PowerAt(t), Remembered(t, w), KeptAt(t, w),
           t.chip[c].power = "off", ~t.chip[c].intr, NoneOn(t, c)
    PROVE  WentUp(Tas!SetPowerState(t, "active", {c}, fails), t, c, w)
  <1> DEFINE r == Tas!SetPowerState(t, "active", {c}, fails)
             on == {c} \cap Tas!Opmode(t)
  <1>0. {c} \in SUBSET Tas!Channels /\ Tas!Opmode(t) \subseteq Tas!Channels /\ 1 \in Tas!Opmode(t)
        /\ 1 \in Tas!Channels /\ 2 \in Tas!Channels
        /\ \A d \in Tas!Channels : d = 1 \/ d = 2
    BY OpmodeSub DEF Tas!Channels
  <1>1. /\ r \in TasStates
        /\ Params(r) = Params(t) /\ r.m_power_state = "active"
        /\ r.detected = t.detected /\ r.irq_count = t.irq_count
        /\ r.irq_work = t.irq_work /\ r.lost = t.lost /\ r.stray = t.stray
        /\ r.disarmed = t.disarmed \cup (on \cap fails)
        /\ Calmer(r, t) /\ \A d \in on : UpOn(r, t, d, fails)
        /\ \A d \in Tas!Channels \ on : r.chip[d] = t.chip[d] /\ r.init_work[d] = t.init_work[d]
    <2>1. WentActive(r, t, on, fails)
      BY <1>0, SetActive, Zenon
    <2> HIDE DEF r, on
    <2> QED BY <2>1 DEF WentActive
  <1> HIDE DEF r
  <1>2. c \in on => UpOn(r, t, c, fails)
    BY <1>1
  <1>3. c \notin on => r.chip[c] = t.chip[c] /\ r.init_work[c] = t.init_work[c]
    BY <1>1
  <1>4. \A d \in Tas!Channels \ {c} : r.chip[d] = t.chip[d] /\ r.init_work[d] = t.init_work[d]
    BY <1>1
  <1>5. \A d \in Tas!Channels : t.latched[d] = {} => r.latched[d] = {}
    BY <1>1 DEF Calmer
  <1>6. PowerAt(r)
    BY <1>0, <1>1, <1>5 DEF PowerAt
  <1>7. Remembered(r, w)
    BY <1>1 DEF Remembered, Params
  <1>8. ~r.chip[c].intr
    <2>1. CASE c \in on
      BY <1>2, <2>1, Zenon DEF UpOn
    <2>2. CASE c \notin on
      BY <1>3, <2>2
    <2> QED BY <2>1, <2>2
  <1>9. ArmedAt(r, c)
    <2> SUFFICES ASSUME c \in Tas!Opmode(r) \ r.disarmed PROVE r.init_work[c] # {}
      BY DEF ArmedAt
    <2>1. Tas!Opmode(r) = Tas!Opmode(t)
      BY <1>1 DEF Params, Tas!Opmode
    <2>2. c \in on /\ c \notin fails
      BY <1>1, <2>1
    <2>3. r.init_work[c] = t.init_work[c] \cup {"pending"}
      BY <1>2, <2>2 DEF UpOn
    <2> QED BY <2>3
  <1>10. \A d \in Tas!Channels \ {c} : ArmedAt(t, d) => ArmedAt(r, d)
    <2> SUFFICES ASSUME NEW d \in Tas!Channels \ {c}, ArmedAt(t, d), d \in Tas!Opmode(r) \ r.disarmed,
                        r.chip[d].power = "on"
                 PROVE  r.chip[d].intr \/ r.init_work[d] # {}
      BY DEF ArmedAt
    <2>1. Tas!Opmode(r) = Tas!Opmode(t)
      BY <1>1 DEF Params, Tas!Opmode
    <2>2. d \in Tas!Opmode(t) \ (t.disarmed \cup {c}) /\ t.chip[d].power = "on"
      BY <1>1, <1>4, <2>1
    <2>3. t.m_power_state = "active"
      BY <2>2 DEF NoneOn
    <2> QED BY <1>4, <2>2, <2>3 DEF ArmedAt
  <1>11. c = 2 /\ t.m_power_state # "active" => r.chip[1].power # "on"
    <2>1. t.m_power_state \in {"active", "mute", "shutdown"}
      BY DEF TasStates
    <2> QED BY <1>0, <1>4, <2>1 DEF PowerAt
  <1>12. c = 2 => r.chip[1] = t.chip[1] /\ r.init_work[1] = t.init_work[1]
    BY <1>0, <1>4
  <1>13. c = 1 => c \in on
    BY <1>0
  <1>14. KeptAt(r, w)
    <2>1. CASE setting \in Everywhere \cup {"anytime", "em"}
      <3>1. \A d \in Tas!Channels : r.chip[d].set = t.chip[d].set
        <4>1. r.chip[c].set = t.chip[c].set
          BY <1>2, <1>3, <2>1 DEF UpOn, Everywhere
        <4> QED BY <1>4, <4>1
      <3> QED BY <1>0, <1>1, <2>1, <3>1 DEF KeptAt, Everywhere
    <2>2. CASE setting = "pre"
      <3>1. CASE c = 1
        <4>1. CASE 1 \in fails
          BY <1>2, <1>13, <2>2, <3>1, <4>1 DEF UpOn, KeptAt
        <4>2. CASE 1 \notin fails
          <5>1. r.chip[1].set = t.curr_val
            BY <1>2, <1>13, <2>2, <3>1, <4>2 DEF UpOn
          <5>2. t.curr_val = w
            BY <2>2 DEF Remembered, Tas!Controls
          <5> QED BY <2>2, <5>1, <5>2 DEF KeptAt
        <4> QED BY <4>1, <4>2
      <3>2. CASE c = 2
        BY <1>11, <1>12, <2>2, <3>2 DEF KeptAt
      <3> QED BY <1>0, <3>1, <3>2
    <2>3. CASE setting = "post"
      <3>1. CASE c = 1
        <4>1. fails = {}
          BY <2>3, NoFailing
        <4>2. r.init_work[1] = t.init_work[1] \cup {"pending"}
          BY <1>2, <1>13, <3>1, <4>1 DEF UpOn
        <4>3. r.init_work[1] # {}
          BY <4>2
        <4> QED BY <2>3, <4>3 DEF KeptAt
      <3>2. CASE c = 2
        BY <1>1, <1>11, <1>12, <2>3, <3>2 DEF KeptAt
      <3> QED BY <1>0, <3>1, <3>2
    <2>4. CASE setting = "profile"
      BY <2>4 DEF KeptAt
    <2> QED BY SettingCases, <2>1, <2>2, <2>3, <2>4 DEF Tas!Settings, Everywhere
  <1>15. WentUp(r, t, c, w)
    BY <1>1, <1>4, <1>5, <1>6, <1>7, <1>8, <1>9, <1>10, <1>14 DEF WentUp
  <1> QED BY <1>15 DEF r

(* A chip that may not raise its interrupt, of a device whose other chips are as they were. *)
Hushed(r, t, c) ==
    /\ r \in TasStates /\ Tamer(r, t, c) /\ ~r.chip[c].intr
    /\ r.stray = t.stray
    /\ \A d \in Tas!Channels : r.chip[d].set = t.chip[d].set /\ r.chip[d].power = t.chip[d].power
    /\ \A d \in Tas!Channels \ {c} : r.irq_count[d] = t.irq_count[d]

LEMMA CountEffect ==
    ASSUME NEW t \in TasStates, NEW c \in Tas!Channels, NEW n \in Nat
    PROVE  LET r == [t EXCEPT !.irq_count[c] = n]
           IN  /\ r \in TasStates /\ r.irq_count[c] = n
               /\ \A d \in Tas!Channels \ {c} : r.irq_count[d] = t.irq_count[d]
               /\ Params(r) = Params(t) /\ r.m_power_state = t.m_power_state
               /\ r.chip = t.chip /\ r.latched = t.latched /\ r.detected = t.detected
               /\ r.irq_work = t.irq_work /\ r.init_work = t.init_work /\ r.lost = t.lost
               /\ r.stray = t.stray /\ r.disarmed = t.disarmed /\ r.missed = t.missed
  <1> DEFINE q == [t.irq_count EXCEPT ![c] = n]
  <1>1. q \in [Tas!Channels -> Nat] /\ q[c] = n /\ \A d \in Tas!Channels \ {c} : q[d] = t.irq_count[d]
    BY DEF TasStates
  <1> DEFINE r == [t EXCEPT !.irq_count[c] = n]
             x == [t EXCEPT !.irq_count = q]
  <1>2. r = x
    BY DEF TasStates
  <1> HIDE DEF q
  <1>3. /\ x \in TasStates /\ x.irq_count = q
        /\ Params(x) = Params(t) /\ x.m_power_state = t.m_power_state
        /\ x.chip = t.chip /\ x.latched = t.latched /\ x.detected = t.detected
        /\ x.irq_work = t.irq_work /\ x.init_work = t.init_work /\ x.lost = t.lost
        /\ x.stray = t.stray /\ x.disarmed = t.disarmed /\ x.missed = t.missed
    BY <1>1, WithCount
  <1> HIDE DEF x, r
  <1> QED BY <1>1, <1>2, <1>3 DEF r

LEMMA Disabled ==
    ASSUME NEW t \in TasStates, NEW c \in Tas!Channels, NEW n \in Nat
    PROVE  LET r == [Tas!InterruptDisable(t, c) EXCEPT !.irq_count[c] = n]
           IN  Hushed(r, t, c) /\ r.irq_count[c] = n /\ r.detected = t.detected
  <1> DEFINE a == Tas!InterruptDisable(t, c)
             r == [a EXCEPT !.irq_count[c] = n]
  <1>1. /\ a \in TasStates
        /\ a.chip[c].power = t.chip[c].power /\ a.chip[c].set = t.chip[c].set
        /\ a.chip[c].intr = FALSE
        /\ \A d \in Tas!Channels \ {c} : a.chip[d] = t.chip[d]
        /\ Params(a) = Params(t) /\ a.m_power_state = t.m_power_state
        /\ a.latched = t.latched /\ a.detected = t.detected
        /\ a.irq_count = t.irq_count /\ a.irq_work = t.irq_work
        /\ a.init_work = t.init_work /\ a.lost = t.lost /\ a.stray = t.stray
        /\ a.disarmed = t.disarmed /\ a.missed = t.missed
    BY DisableEffect
  <1> HIDE DEF a
  <1>2. /\ r \in TasStates /\ r.irq_count[c] = n
        /\ \A d \in Tas!Channels \ {c} : r.irq_count[d] = a.irq_count[d]
        /\ Params(r) = Params(a) /\ r.m_power_state = a.m_power_state
        /\ r.chip = a.chip /\ r.latched = a.latched /\ r.detected = a.detected
        /\ r.irq_work = a.irq_work /\ r.init_work = a.init_work /\ r.lost = a.lost
        /\ r.stray = a.stray /\ r.disarmed = a.disarmed /\ r.missed = a.missed
    BY <1>1, CountEffect
  <1> HIDE DEF r
  <1>3. Tamer(r, t, c)
    BY <1>1, <1>2 DEF Tamer
  <1>4. Hushed(r, t, c)
    BY <1>1, <1>2, <1>3 DEF Hushed
  <1>5. r.irq_count[c] = n /\ r.detected = t.detected
    BY <1>1, <1>2
  <1> QED BY <1>4, <1>5 DEF r, a

Forgot(r, b, t, c) ==
    Hushed(r, t, c) /\ r.irq_count = b.irq_count /\ r.latched[c] = {} /\ r.detected[c] = {}

LEMMA Disregarded ==
    ASSUME NEW t, NEW c \in Tas!Channels, NEW b, Hushed(b, t, c)
    PROVE  Forgot([Tas!InterruptClear(b, c) EXCEPT !.detected[c] = {}], b, t, c)
  <1> DEFINE a == Tas!InterruptClear(b, c)
             q == [a.detected EXCEPT ![c] = {}]
             r == [a EXCEPT !.detected[c] = {}]
  <1>0. b \in TasStates
    BY DEF Hushed
  <1>1. /\ a \in TasStates
        /\ a.latched[c] = {}
        /\ \A d \in Tas!Channels \ {c} : a.latched[d] = b.latched[d]
        /\ Params(a) = Params(b) /\ a.m_power_state = b.m_power_state
        /\ a.chip = b.chip /\ a.detected = b.detected /\ a.irq_count = b.irq_count
        /\ a.init_work = b.init_work /\ a.lost = b.lost
        /\ a.stray = b.stray /\ a.disarmed = b.disarmed
    BY <1>0, ClearEffect
  <1> HIDE DEF a
  <1>2. q \in [Tas!Channels -> SUBSET Kinds] /\ q[c] = {} /\ \A d \in Tas!Channels \ {c} : q[d] = a.detected[d]
    BY <1>1 DEF TasStates
  <1>3. r = [a EXCEPT !.detected = q]
    BY <1>1 DEF TasStates
  <1> HIDE DEF q, r
  <1>4. /\ r \in TasStates /\ r.detected = q
        /\ Params(r) = Params(a) /\ r.m_power_state = a.m_power_state
        /\ r.chip = a.chip /\ r.latched = a.latched /\ r.irq_count = a.irq_count
        /\ r.init_work = a.init_work /\ r.lost = a.lost
        /\ r.stray = a.stray /\ r.disarmed = a.disarmed
    BY <1>1, <1>2, <1>3, WithDetected
  <1>5. Tamer(r, b, c)
    <2>1. \A d \in Tas!Channels :
             /\ r.latched[d] = b.latched[d] \/ r.latched[d] = {}
             /\ r.detected[d] = b.detected[d] \/ r.detected[d] = {}
      BY <1>1, <1>2, <1>4
    <2> QED BY <1>1, <1>4, <2>1 DEF Tamer
  <1>6. Tamer(r, t, c)
    BY <1>5, TamerOn DEF Hushed
  <1>7. Hushed(r, t, c)
    BY <1>1, <1>4, <1>6 DEF Hushed
  <1>8. r.irq_count = b.irq_count /\ r.latched[c] = {} /\ r.detected[c] = {}
    BY <1>1, <1>2, <1>4
  <1>9. Forgot(r, b, t, c)
    BY <1>7, <1>8 DEF Forgot
  <1> QED BY <1>9 DEF r, a

LEMMA HushedCore ==
    ASSUME Setting, NEW t, NEW c \in Tas!Channels, NEW r, Hushed(r, t, c), r.irq_count[c] <= IrqLimit,
           NEW p, NEW w, Core(t, p, w)
    PROVE  /\ Core(r, p, w) /\ \A d \in Tas!Channels : r.irq_count[d] <= IrqLimit
           /\ \A d \in Tas!Channels : QuietAt(t, d) => QuietAt(r, d)
           /\ \A d \in Tas!Channels \ {c} : ArmedAt(t, d) => ArmedAt(r, d)
  <1>1. /\ r \in TasStates /\ Tamer(r, t, c)
        /\ \A d \in Tas!Channels : r.chip[d].set = t.chip[d].set /\ r.chip[d].power = t.chip[d].power
        /\ \A d \in Tas!Channels \ {c} : r.irq_count[d] = t.irq_count[d]
    BY DEF Hushed
  <1>2. \A d \in Tas!Channels : r.irq_count[d] <= IrqLimit
    BY <1>1 DEF Core, PowerAt
  <1>3. /\ r.m_power_state = t.m_power_state /\ r.init_work[1] = t.init_work[1]
        /\ (t.lost => r.lost)
    BY <1>1 DEF Tamer
  <1>4. KeptAt(r, w)
    <2>1. 1 \in Tas!Channels
      BY DEF Tas!Channels
    <2> QED BY <1>1, <1>3, <2>1, SteadyKept DEF Core
  <1> QED BY <1>1, <1>2, <1>4, TamerCore

LEMMA DisarmedCore ==
    ASSUME Setting, NEW t \in TasStates, NEW c \in Tas!Channels, NEW p, NEW w, Core(t, p, w)
    PROVE  LET r == Tas!Armless(t, c)
           IN  /\ r \in TasStates /\ Core(r, p, w) /\ ArmedAt(r, c) /\ Params(r) = Params(t)
               /\ r.chip = t.chip /\ r.latched = t.latched
               /\ \A d \in Tas!Channels \ {c} : ArmedAt(t, d) => ArmedAt(r, d)
               /\ \A d \in Tas!Channels : QuietAt(t, d) => QuietAt(r, d)
  <1> DEFINE r == Tas!Armless(t, c)
  <1>1. /\ r \in TasStates
        /\ r.disarmed = t.disarmed \cup {c}
        /\ Params(r) = Params(t) /\ r.m_power_state = t.m_power_state
        /\ r.chip = t.chip /\ r.latched = t.latched /\ r.detected = t.detected
        /\ r.irq_count = t.irq_count /\ r.irq_work = t.irq_work
        /\ r.init_work = t.init_work /\ r.lost = t.lost /\ r.stray = t.stray
        /\ r.missed = t.missed
    BY ArmlessEffect
  <1> HIDE DEF r
  <1>2. Tamer(r, t, c)
    BY <1>1 DEF Tamer
  <1>3. \A d \in Tas!Channels : r.irq_count[d] <= IrqLimit
    BY <1>1 DEF Core, PowerAt
  <1>4. KeptAt(r, w)
    BY <1>1, SteadyKept DEF Core
  <1>5. ArmedAt(r, c)
    BY <1>1 DEF ArmedAt
  <1>6. /\ Core(r, p, w)
        /\ \A d \in Tas!Channels : QuietAt(t, d) => QuietAt(r, d)
        /\ \A d \in Tas!Channels \ {c} : ArmedAt(t, d) => ArmedAt(r, d)
    BY <1>1, <1>2, <1>3, <1>4, TamerCore
  <1> QED BY <1>1, <1>5, <1>6 DEF r

LEMMA AllowedCore ==
    ASSUME Setting, Tas!TasAssumption, NEW t \in TasStates, NEW c \in Tas!Channels, NEW p, NEW w,
           Core(t, p, w), t.latched[c] = {}, p \/ c \in t.stray
    PROVE  LET r == Tas!InterruptEnable(t, c)
           IN  /\ r \in TasStates /\ Core(r, p, w) /\ ArmedAt(r, c) /\ QuietAt(r, c)
               /\ Params(r) = Params(t)
               /\ \A d \in Tas!Channels \ {c} : ArmedAt(t, d) => ArmedAt(r, d)
               /\ \A d \in Tas!Channels : QuietAt(t, d) => QuietAt(r, d)
  <1> DEFINE r == Tas!InterruptEnable(t, c)
  <1>0. Enabled(r, t, c)
    BY EnableEffect
  <1> HIDE DEF r
  <1>1. /\ r \in TasStates
        /\ r.chip[c].power = t.chip[c].power /\ r.chip[c].set = t.chip[c].set
        /\ \A d \in Tas!Channels \ {c} : r.chip[d] = t.chip[d]
        /\ r.irq_count[c] = 0
        /\ \A d \in Tas!Channels \ {c} : r.irq_count[d] = t.irq_count[d]
        /\ r.disarmed = t.disarmed \ {c}
        /\ Params(r) = Params(t) /\ r.m_power_state = t.m_power_state
        /\ r.latched = t.latched /\ r.detected = t.detected
        /\ r.init_work = t.init_work /\ r.lost = t.lost /\ r.stray = t.stray
    BY <1>0, Zenon DEF Enabled
  <1>2. r.chip[c].intr = TRUE
    BY <1>0, Zenon DEF Enabled
  <1>3. 1 \in Tas!Channels /\ 2 \in Tas!Channels
    BY DEF Tas!Channels
  <1>4. \A d \in Tas!Channels : r.chip[d].power = t.chip[d].power /\ r.chip[d].set = t.chip[d].set
    BY <1>1
  <1>5. \A d \in Tas!Channels : r.irq_count[d] <= IrqLimit
    <2>1. t.irq_count \in [Tas!Channels -> Nat] /\ 0 <= IrqLimit
      BY DEF TasStates, Tas!TasAssumption
    <2>2. \A d \in Tas!Channels : r.irq_count[d] = 0 \/ r.irq_count[d] = t.irq_count[d]
      BY <1>1, <2>1
    <2> QED BY <2>1, <2>2 DEF Core, PowerAt
  <1>6. PowerAt(r)
    <2>1. PowerAt(t)
      BY DEF Core
    <2> QED BY <1>1, <1>3, <1>4, <1>5, <2>1 DEF PowerAt, Rested
  <1>7. SilentAt(r, p)
    <2> SUFFICES ASSUME ~p, NEW d \in Tas!Channels \ r.stray
                 PROVE  r.chip[d].power = "off" /\ ~r.chip[d].intr
      BY DEF SilentAt
    <2>1. d # c
      BY <1>1
    <2>2. r.chip[d] = t.chip[d]
      BY <1>1, <2>1
    <2> QED BY <1>1, <2>2 DEF Core, SilentAt
  <1>8. Remembered(r, w)
    BY <1>1 DEF Core, Remembered, Params
  <1>9. KeptAt(r, w)
    BY <1>1, <1>3, <1>4, SteadyKept DEF Core
  <1>10. ArmedAt(r, c)
    BY <1>2, Zenon DEF ArmedAt
  <1>11. \A d \in Tas!Channels \ {c} : ArmedAt(t, d) => ArmedAt(r, d)
    <2> SUFFICES ASSUME NEW d \in Tas!Channels \ {c}, ArmedAt(t, d), r.m_power_state = "active",
                        d \in Tas!Opmode(r) \ r.disarmed, r.chip[d].power = "on"
                 PROVE  r.chip[d].intr \/ r.init_work[d] # {}
      BY DEF ArmedAt
    <2>1. Tas!Opmode(r) = Tas!Opmode(t)
      BY <1>1 DEF Params, Tas!Opmode
    <2>2. /\ t.m_power_state = "active" /\ d \in Tas!Opmode(t) \ t.disarmed
          /\ r.chip[d] = t.chip[d] /\ r.init_work = t.init_work
      BY <1>1, <2>1
    <2> QED BY <2>2 DEF ArmedAt
  <1>12. QuietAt(r, c)
    BY <1>1 DEF QuietAt
  <1>13. \A d \in Tas!Channels : QuietAt(t, d) => QuietAt(r, d)
    BY <1>1, <1>12 DEF QuietAt
  <1>14. Core(r, p, w)
    BY <1>1, <1>6, <1>7, <1>8, <1>9 DEF Core
  <1> QED BY <1>1, <1>10, <1>11, <1>12, <1>13, <1>14 DEF r

(* What a turn leaves of its channel, and of the other. *)
Looked(r, t, c, p, w) ==
    /\ r \in TasStates /\ Core(r, p, w) /\ Params(r) = Params(t)
    /\ QuietAt(r, c) /\ ArmedAt(r, c)
    /\ \A d \in Tas!Channels \ {c} : ArmedAt(t, d) => ArmedAt(r, d)
    /\ \A d \in Tas!Channels : QuietAt(t, d) => QuietAt(r, d)

(* What the states of a turn before its end have in common. *)
Turning(r, t, c, p, w) ==
    /\ r \in TasStates /\ Tamer(r, t, c) /\ Core(r, p, w)
    /\ ~r.chip[c].intr /\ r.latched[c] = {} /\ r.detected[c] = {}
    /\ \A d \in Tas!Channels \ {c} : ArmedAt(t, d) => ArmedAt(r, d)
    /\ \A d \in Tas!Channels : QuietAt(t, d) => QuietAt(r, d)

LEMMA TurnedDisarmed ==
    ASSUME Setting, NEW t, NEW c \in Tas!Channels, NEW r, NEW p, NEW w, Turning(r, t, c, p, w)
    PROVE  Looked(Tas!Armless(r, c), t, c, p, w)
  <1> DEFINE u == Tas!Armless(r, c)
  <1>1. r \in TasStates /\ Core(r, p, w) /\ Params(r) = Params(t)
    BY DEF Turning, Tamer
  <1>2. /\ u \in TasStates /\ Core(u, p, w) /\ ArmedAt(u, c) /\ Params(u) = Params(r)
        /\ \A d \in Tas!Channels \ {c} : ArmedAt(r, d) => ArmedAt(u, d)
        /\ \A d \in Tas!Channels : QuietAt(r, d) => QuietAt(u, d)
    BY <1>1, DisarmedCore
  <1> HIDE DEF u
  <1>3. QuietAt(r, c)
    BY DEF Turning, QuietAt
  <1> QED BY <1>1, <1>2, <1>3 DEF Looked, Turning, u

LEMMA TurnedOnAgain ==
    ASSUME Setting, Tas!TasAssumption, NEW t, NEW c \in Tas!Channels, NEW r, NEW p, NEW w,
           Turning(r, t, c, p, w), r.chip[c].power # "off"
    PROVE  Looked(Tas!InterruptEnable(r, c), t, c, p, w)
  <1> DEFINE u == Tas!InterruptEnable(r, c)
  <1>1. r \in TasStates /\ Core(r, p, w) /\ Params(r) = Params(t) /\ r.latched[c] = {}
    BY DEF Turning, Tamer
  <1>2. p \/ c \in r.stray
    BY DEF Turning, Core, SilentAt
  <1>3. /\ u \in TasStates /\ Core(u, p, w) /\ ArmedAt(u, c) /\ QuietAt(u, c)
        /\ Params(u) = Params(r)
        /\ \A d \in Tas!Channels \ {c} : ArmedAt(r, d) => ArmedAt(u, d)
        /\ \A d \in Tas!Channels : QuietAt(r, d) => QuietAt(u, d)
    BY <1>1, <1>2, AllowedCore
  <1> HIDE DEF u
  <1> QED BY <1>1, <1>3 DEF Looked, Turning, u

LEMMA TurnedUp ==
    ASSUME Setting, NEW w \in Nat, NEW t, NEW c \in Tas!Channels, NEW r, NEW p \in BOOLEAN,
           NEW fails \in Tas!Failing, Turning(r, t, c, p, w), r.chip[c].power = "off",
           NoneOn(r, c)
    PROVE  LET u == Tas!SetPowerState(r, "active", {c}, fails)
           IN  Looked(IF p THEN u ELSE [u EXCEPT !.stray = @ \cup {c}], t, c, p, w)
  <1> DEFINE u == Tas!SetPowerState(r, "active", {c}, fails)
             s == u.stray \cup {c}
             x == [u EXCEPT !.stray = s]
             v == IF p THEN u ELSE x
  <1>0. /\ r \in TasStates /\ Params(r) = Params(t)
        /\ PowerAt(r) /\ SilentAt(r, p) /\ Remembered(r, w) /\ KeptAt(r, w) /\ ~r.chip[c].intr
    BY DEF Turning, Tamer, Core
  <1>1a. WentUp(u, r, c, w)
    BY <1>0, UpKept
  <1> HIDE DEF u
  <1>1. /\ u \in TasStates /\ PowerAt(u) /\ Remembered(u, w) /\ KeptAt(u, w)
        /\ u.stray = r.stray /\ ~u.chip[c].intr /\ ArmedAt(u, c)
        /\ \A d \in Tas!Channels : r.latched[d] = {} => u.latched[d] = {}
        /\ \A d \in Tas!Channels \ {c} : u.chip[d] = r.chip[d] /\ (ArmedAt(r, d) => ArmedAt(u, d))
        /\ Params(u) = Params(r)
    BY <1>1a DEF WentUp
  <1>2. s \in SUBSET Tas!Channels
    BY <1>1 DEF TasStates
  <1>3. /\ x \in TasStates /\ x.stray = s
        /\ Params(x) = Params(u) /\ x.m_power_state = u.m_power_state
        /\ x.chip = u.chip /\ x.latched = u.latched /\ x.detected = u.detected
        /\ x.irq_count = u.irq_count /\ x.irq_work = u.irq_work
        /\ x.init_work = u.init_work /\ x.lost = u.lost /\ x.disarmed = u.disarmed
    <2> HIDE DEF s
    <2> QED BY <1>1, <1>2, WithStray
  <1> HIDE DEF x
  <1>4. /\ v \in TasStates /\ (v.stray = IF p THEN u.stray ELSE s)
        /\ Params(v) = Params(u) /\ v.m_power_state = u.m_power_state
        /\ v.chip = u.chip /\ v.latched = u.latched /\ v.detected = u.detected
        /\ v.irq_count = u.irq_count /\ v.init_work = u.init_work /\ v.lost = u.lost
        /\ v.disarmed = u.disarmed
    <2>1. CASE p
      BY <1>1, <2>1
    <2>2. CASE ~p
      BY <1>3, <2>2
    <2> QED BY <2>1, <2>2
  <1> HIDE DEF v
  <1>5. PowerAt(v)
    BY <1>1, <1>4 DEF PowerAt, Rested
  <1>6. SilentAt(v, p)
    <2> SUFFICES ASSUME ~p, NEW d \in Tas!Channels \ v.stray
                 PROVE  v.chip[d].power = "off" /\ ~v.chip[d].intr
      BY DEF SilentAt
    <2>1. d # c /\ d \notin r.stray
      BY <1>1, <1>4
    <2>2. v.chip[d] = r.chip[d]
      BY <1>1, <1>4, <2>1
    <2> QED BY <1>0, <2>1, <2>2 DEF SilentAt
  <1>7. Remembered(v, w)
    BY <1>1, <1>4 DEF Remembered, Params
  <1>8. KeptAt(v, w)
    BY <1>1, <1>4, SteadyKept
  <1>9. \A d \in Tas!Channels : ArmedAt(u, d) => ArmedAt(v, d)
    <2> SUFFICES ASSUME NEW d \in Tas!Channels, ArmedAt(u, d) PROVE ArmedAt(v, d)
      OBVIOUS
    <2>1. Tas!Opmode(v) = Tas!Opmode(u)
      BY <1>4 DEF Params, Tas!Opmode
    <2> QED BY <1>4, <2>1 DEF ArmedAt
  <1>10. QuietAt(v, c)
    BY <1>1, <1>4 DEF QuietAt
  <1>11. \A d \in Tas!Channels : QuietAt(r, d) => QuietAt(v, d)
    <2> SUFFICES ASSUME NEW d \in Tas!Channels \ {c}, QuietAt(r, d) PROVE QuietAt(v, d)
      BY <1>10
    <2>1. v.chip[d] = r.chip[d] /\ (r.latched[d] = {} => v.latched[d] = {})
      BY <1>1, <1>4
    <2> QED BY <2>1 DEF QuietAt
  <1>12. Core(v, p, w)
    BY <1>4, <1>5, <1>6, <1>7, <1>8 DEF Core
  <1>13. Looked(v, t, c, p, w)
    BY <1>0, <1>1, <1>4, <1>9, <1>10, <1>11, <1>12 DEF Looked, Turning
  <1> QED BY <1>13 DEF v, x, u

LEMMA TurnedOff ==
    ASSUME Setting, NEW w \in Nat, NEW t, NEW d, NEW p \in BOOLEAN,
           Turning(d, t, 1, p, w), setup \in {"shutdown", "clock"}
    PROVE  Looked(Tas!SetPowerState(d, "shutdown", {1}, {}), t, 1, p, w)
  <1> DEFINE u == Tas!SetPowerState(d, "shutdown", {1}, {})
             m == {1}
             on == m \cap Tas!Opmode(d)
  <1>0. /\ d \in TasStates /\ Params(d) = Params(t)
        /\ PowerAt(d) /\ SilentAt(d, p) /\ Remembered(d, w) /\ KeptAt(d, w)
        /\ d.latched[1] = {} /\ d.detected[1] = {}
    BY DEF Turning, Tamer, Core
  <1>1. m \in SUBSET Tas!Channels /\ on = {1} /\ 1 \in Tas!Channels /\ 2 \in Tas!Channels
        /\ \A k \in Tas!Channels : k = 1 \/ k = 2
    BY OpmodeSub DEF Tas!Channels
  <1>2. WentOff(u, d, on)
    BY <1>0, <1>1, SetShutdown, Zenon
  <1> HIDE DEF u, on, m
  <1>3. /\ u \in TasStates
        /\ Params(u) = Params(d) /\ u.m_power_state = "shutdown"
        /\ u.latched = d.latched /\ u.detected = d.detected
        /\ u.irq_count = d.irq_count /\ u.lost = d.lost /\ u.stray = d.stray \ {1}
        /\ \A k \in Tas!Channels : u.chip[k].set = d.chip[k].set
        /\ u.chip[1].power = "off" /\ ~u.chip[1].intr
        /\ u.chip[2] = d.chip[2]
    BY <1>1, <1>2 DEF WentOff
  <1>4. PowerAt(u)
    BY <1>0, <1>1, <1>3 DEF PowerAt, Rested
  <1>5. SilentAt(u, p)
    BY <1>0, <1>1, <1>3 DEF SilentAt
  <1>6. Remembered(u, w)
    BY <1>0, <1>3 DEF Remembered, Params
  <1>7. KeptAt(u, w)
    <2>1. CASE setting \in Everywhere
      BY <1>0, <1>3, <2>1 DEF KeptAt, Everywhere
    <2>2. CASE setting \in {"anytime", "em"}
      BY <1>0, <1>1, <1>3, <2>2 DEF KeptAt
    <2>3. CASE setting \in {"pre", "post", "profile"}
      BY <1>3, <2>3 DEF KeptAt
    <2> QED BY SettingCases, <2>1, <2>2, <2>3 DEF Tas!Settings, Everywhere
  <1>8. \A k \in Tas!Channels : ArmedAt(u, k)
    BY <1>3 DEF ArmedAt
  <1>9. QuietAt(u, 1) /\ (QuietAt(d, 2) => QuietAt(u, 2))
    BY <1>3 DEF QuietAt
  <1>10. Core(u, p, w)
    BY <1>3, <1>4, <1>5, <1>6, <1>7 DEF Core
  <1>11. Looked(u, t, 1, p, w)
    BY <1>0, <1>1, <1>3, <1>8, <1>9, <1>10 DEF Looked, Turning
  <1> QED BY <1>11 DEF u

LEMMA TurningReset ==
    ASSUME Setting, NEW w \in Nat, NEW t, NEW c \in Tas!Channels, NEW d, NEW f \in TasStates,
           NEW p \in BOOLEAN, Turning(d, t, c, p, w), ResetSome(f, d)
    PROVE  Turning(Tas!Reinit(f), t, c, p, w)
  <1> DEFINE g == Tas!Reinit(f)
  <1>1. Core(d, p, w) /\ d \in TasStates /\ Tamer(d, t, c)
    BY DEF Turning
  <1>2. g \in TasStates /\ KeptAt(g, w) /\ Tamer(g, d, c) /\ g.irq_count = d.irq_count
    BY <1>1, ResetKept
  <1> HIDE DEF g
  <1>3. \A k \in Tas!Channels : g.irq_count[k] <= IrqLimit
    BY <1>1, <1>2 DEF Core, PowerAt
  <1>4. /\ Core(g, p, w)
        /\ \A k \in Tas!Channels : QuietAt(d, k) => QuietAt(g, k)
        /\ \A k \in Tas!Channels \ {c} : ArmedAt(d, k) => ArmedAt(g, k)
    BY <1>1, <1>2, <1>3, TamerCore
  <1>5. Tamer(g, t, c)
    BY <1>1, <1>2, TamerOn
  <1>6. ~g.chip[c].intr
    BY <1>2, Zenon DEF Turning, Tamer
  <1>7. g.latched[c] = {} /\ g.detected[c] = {}
    BY <1>2 DEF Turning, Tamer
  <1>8. Turning(g, t, c, p, w)
    BY <1>2, <1>4, <1>5, <1>6, <1>7 DEF Turning
  <1> QED BY <1>8 DEF g

(* Only the first channel of a setup but "hardware" has a turn. *)
LEMMA NoneOnElse ==
    ASSUME Setting, NEW w, NEW t, NEW c \in Tas!Channels, NEW g, NEW p, Core(t, p, w), Tamer(g, t, c),
           t.detected[c] # {}, setup # "shutdown"
    PROVE  NoneOn(g, c)
  <1> SUFFICES ASSUME NEW d \in Tas!Opmode(g) \ (g.disarmed \cup {c}), g.m_power_state # "active",
                      g.chip[d].power = "on"
               PROVE  FALSE
    BY DEF NoneOn
  <1>1. d \in Tas!Channels /\ d # c /\ 1 \in Tas!Channels /\ 2 \in Tas!Channels
        /\ \A k \in Tas!Channels : k = 1 \/ k = 2
    BY OpmodeSub DEF Tas!Channels
  <1>2. t.chip[d].power = "on"
    BY <1>1 DEF Tamer
  <1>3. t.m_power_state = g.m_power_state
    BY DEF Tamer
  <1>4. PowerAt(t) /\ t \in TasStates
    BY DEF Core
  <1>5. t.m_power_state \in {"mute", "shutdown"}
    BY <1>3, <1>4 DEF TasStates
  <1>6. setting # "profile"
    BY SettingCases
  <1> QED BY <1>1, <1>2, <1>4, <1>5, <1>6 DEF PowerAt, Rested

LEMMA IrqChannelKept ==
    ASSUME Setting, Tas!TasAssumption, NEW w \in Nat, NEW q, q.t \in TasStates, NEW c \in Tas!Channels,
           NEW late, NEW fails \in Tas!Failing, dac_power \in BOOLEAN, Core(q.t, dac_power, w)
    PROVE  Looked(Tas!IrqChannel(q, c, late, fails).t, q.t, c, dac_power, w)
  <1> DEFINE t == q.t
             a == Tas!InterruptDisable(t, c)
             count == CASE a.irq_count[c] = 0 -> 1
                        [] c \in late -> 0
                        [] OTHER -> a.irq_count[c] + 1
             b == [a EXCEPT !.irq_count[c] = count]
             z == [a EXCEPT !.irq_count[c] = IrqLimit]
             kinds == a.detected[c]
             d == [Tas!InterruptClear(b, c) EXCEPT !.detected[c] = {}]
             actions == (UNION {Tas!Action(k) : k \in kinds})
                          \ (IF kinds = {"clock"} THEN {"power_on"} ELSE {})
             e == IF "hw_reset" \in actions THEN Tas!HardReset(d) ELSE d
             f == IF "sw_reset" \in actions THEN Tas!SoftwareReset(e, c) ELSE e
             reset == q.reset \/ actions \cap {"hw_reset", "sw_reset"} # {}
             g == IF reset THEN Tas!Reinit(f) ELSE f
             up == Tas!SetPowerState(g, "active", {c}, fails)
             v == IF dac_power THEN up ELSE [up EXCEPT !.stray = @ \cup {c}]
             r == Tas!IrqChannel(q, c, late, fails).t
             p == dac_power
  <1>1. /\ a \in TasStates /\ a.irq_count = t.irq_count /\ a.detected = t.detected
        /\ t.irq_count \in [Tas!Channels -> Nat] /\ t.detected \in [Tas!Channels -> SUBSET Kinds]
    BY DisableEffect DEF TasStates
  <1>2. r = IF count > IrqLimit THEN Tas!Armless([b EXCEPT !.irq_count[c] = IrqLimit], c)
            ELSE IF \E k \in kinds : "power_on" \notin Tas!Action(k)
              THEN IF "other" \in kinds THEN Tas!SetPowerState(d, "shutdown", {c}, {}) ELSE Tas!Armless(d, c)
            ELSE IF "power_on" \notin actions THEN Tas!Armless(g, c)
            ELSE IF g.chip[c].power = "off" THEN v ELSE Tas!InterruptEnable(g, c)
    <2> DEFINE Done(u) == [t |-> u, reset |-> reset]
               early == Tas!Armless([b EXCEPT !.irq_count[c] = IrqLimit], c)
               off == IF "other" \in kinds THEN Tas!SetPowerState(d, "shutdown", {c}, {})
                      ELSE Tas!Armless(d, c)
               left == Tas!Armless(g, c)
               back == Tas!InterruptEnable(g, c)
    <2>1. Tas!IrqChannel(q, c, late, fails) =
            IF count > IrqLimit THEN [t |-> early, reset |-> q.reset]
            ELSE IF \E k \in kinds : "power_on" \notin Tas!Action(k)
              THEN [t |-> off, reset |-> q.reset]
            ELSE IF "power_on" \notin actions THEN Done(left)
            ELSE IF g.chip[c].power = "off" THEN Done(v) ELSE Done(back)
      BY DEF Tas!IrqChannel
    <2> HIDE DEF count, early, off, left, back, v, reset, actions, kinds, g
    <2>2. r = IF count > IrqLimit THEN early
              ELSE IF \E k \in kinds : "power_on" \notin Tas!Action(k) THEN off
              ELSE IF "power_on" \notin actions THEN left
              ELSE IF g.chip[c].power = "off" THEN v ELSE back
      BY <2>1
    <2> QED BY <2>2 DEF early, off, left, back
  <1>3. count \in Nat
    BY <1>1
  <1>4. IrqLimit \in Nat
    BY DEF Tas!TasAssumption
  <1>5. [b EXCEPT !.irq_count[c] = IrqLimit] = z
    BY <1>1 DEF TasStates
  <1>6. Hushed(b, t, c) /\ b.irq_count[c] = count /\ Hushed(z, t, c) /\ z.irq_count[c] = IrqLimit
    <2> HIDE DEF count
    <2> QED BY <1>3, <1>4, Disabled
  <1>7. kinds = t.detected[c] /\ kinds \subseteq Kinds
    BY <1>1
  <1> HIDE DEF count, b, z, kinds
  <1>8a. Forgot(d, b, t, c)
    BY <1>6, Disregarded
  <1> HIDE DEF d
  <1>8. Hushed(d, t, c) /\ d.irq_count = b.irq_count /\ d.latched[c] = {} /\ d.detected[c] = {}
    BY <1>8a DEF Forgot
  <1>9. CASE count > IrqLimit
    <2>0. z.irq_count[c] <= IrqLimit
      BY <1>4, <1>6
    <2>1a. /\ Core(z, p, w)
           /\ \A k \in Tas!Channels : QuietAt(t, k) => QuietAt(z, k)
           /\ \A k \in Tas!Channels \ {c} : ArmedAt(t, k) => ArmedAt(z, k)
      BY <1>6, <2>0, HushedCore
    <2>1b. z \in TasStates /\ ~z.chip[c].intr /\ Params(z) = Params(t)
      BY <1>6 DEF Hushed, Tamer
    <2>1. /\ Core(z, p, w) /\ z \in TasStates /\ ~z.chip[c].intr /\ Params(z) = Params(t)
          /\ \A k \in Tas!Channels : QuietAt(t, k) => QuietAt(z, k)
          /\ \A k \in Tas!Channels \ {c} : ArmedAt(t, k) => ArmedAt(z, k)
      BY <2>1a, <2>1b
    <2> DEFINE y == Tas!Armless(z, c)
    <2>2. /\ y \in TasStates /\ Core(y, p, w) /\ ArmedAt(y, c) /\ Params(y) = Params(z)
          /\ \A k \in Tas!Channels \ {c} : ArmedAt(z, k) => ArmedAt(y, k)
          /\ \A k \in Tas!Channels : QuietAt(z, k) => QuietAt(y, k)
      BY <2>1, DisarmedCore
    <2>3. r = y
      BY <1>2, <1>5, <1>9
    <2> HIDE DEF y, r
    <2>4. QuietAt(z, c)
      BY <2>1 DEF QuietAt
    <2> HIDE DEF t, p
    <2>5. Looked(y, t, c, p, w)
      BY <2>1, <2>2, <2>4 DEF Looked
    <2> QED BY <2>3, <2>5 DEF r, t, p
  <1>10. CASE ~(count > IrqLimit)
    <2>1. d.irq_count[c] <= IrqLimit
      BY <1>1, <1>3, <1>4, <1>6, <1>8, <1>10
    <2>2. Turning(d, t, c, p, w)
      BY <1>8, <2>1, HushedCore DEF Hushed, Turning
    <2>3. CASE \E k \in kinds : "power_on" \notin Tas!Action(k)
      <3>1. CASE "other" \in kinds
        <4>1. setup \in {"shutdown", "clock"}
          BY <1>7, <2>3 DEF Tas!Action, Kinds, Setting, Tas!SetupsKnown
        <4>2. c = 1
          BY <1>7, <3>1, <4>1 DEF Core, PowerAt, Tas!Channels
        <4>3. r = Tas!SetPowerState(d, "shutdown", {1}, {})
          BY <1>2, <1>10, <2>3, <3>1, <4>2
        <4>4. Turning(d, t, 1, p, w)
          BY <2>2, <4>2
        <4> HIDE DEF r
        <4>5. Looked(r, t, 1, p, w)
          BY <4>1, <4>3, <4>4, TurnedOff
        <4> QED BY <4>2, <4>5 DEF r
      <3>2. CASE "other" \notin kinds
        <4>1. r = Tas!Armless(d, c)
          BY <1>2, <1>10, <2>3, <3>2
        <4> QED BY <2>2, <4>1, TurnedDisarmed
      <3> QED BY <3>1, <3>2
    <2>4. CASE ~(\E k \in kinds : "power_on" \notin Tas!Action(k))
      <3>1. d \in TasStates
        BY <2>2 DEF Turning
      <3>2. e \in TasStates /\ ResetSome(e, d)
        <4>1. CASE "hw_reset" \in actions
          BY <3>1, <4>1, HardResetSome
        <4>2. CASE "hw_reset" \notin actions
          BY <3>1, <4>2, ResetSomeSelf
        <4> QED BY <4>1, <4>2
      <3>3. f \in TasStates /\ ResetSome(f, d)
        <4>1. CASE "sw_reset" \in actions
          <5> HIDE DEF e
          <5>1. Tas!SoftwareReset(e, c) \in TasStates /\ ResetSome(Tas!SoftwareReset(e, c), e)
            BY <3>2, SoftResetSome
          <5>2. ResetSome(Tas!SoftwareReset(e, c), d)
            BY <3>2, <5>1, ResetSomeOn
          <5> QED BY <4>1, <5>1, <5>2
        <4>2. CASE "sw_reset" \notin actions
          BY <3>2, <4>2
        <4> QED BY <4>1, <4>2
      <3>4. ~reset => f = d
        OBVIOUS
      <3> HIDE DEF actions, f, reset
      <3>5. Turning(g, t, c, p, w)
        <4>1. CASE reset
          BY <2>2, <3>3, <4>1, TurningReset
        <4>2. CASE ~reset
          BY <2>2, <3>4, <4>2
        <4> QED BY <4>1, <4>2
      <3> HIDE DEF g
      <3>6. CASE "power_on" \notin actions
        <4>1. r = Tas!Armless(g, c)
          BY <1>2, <1>10, <2>4, <3>6
        <4> QED BY <3>5, <4>1, TurnedDisarmed
      <3>7. CASE "power_on" \in actions /\ g.chip[c].power # "off"
        <4>1. r = Tas!InterruptEnable(g, c)
          BY <1>2, <1>10, <2>4, <3>7
        <4> QED BY <3>5, <3>7, <4>1, TurnedOnAgain
      <3>8. CASE "power_on" \in actions /\ g.chip[c].power = "off"
        <4>1. kinds # {} /\ setup # "shutdown"
          BY <1>7, <2>4, <3>8 DEF actions, Tas!Action, Kinds
        <4>2. Tamer(g, t, c)
          BY <3>5 DEF Turning
        <4>3. NoneOn(g, c)
          BY <1>7, <4>1, <4>2, NoneOnElse
        <4>4. Looked(v, t, c, p, w)
          BY <3>5, <3>8, <4>3, TurnedUp
        <4>5. r = v
          BY <1>2, <1>10, <2>4, <3>8
        <4> QED BY <4>4, <4>5
      <3> QED BY <3>6, <3>7, <3>8
    <2> QED BY <2>3, <2>4
  <1> QED BY <1>9, <1>10

LEMMA DetectCore ==
    ASSUME Setting, NEW t \in TasStates, NEW c \in Tas!Channels, NEW p, NEW w, Core(t, p, w)
    PROVE  LET r == Tas!Detect(t, c)
           IN  /\ r \in TasStates /\ Core(r, p, w) /\ r.chip = t.chip /\ r.latched = t.latched
               /\ Params(r) = Params(t) /\ r.irq_work = t.irq_work
               /\ \A d \in Tas!Channels : ArmedAt(t, d) => ArmedAt(r, d)
  <1> DEFINE r == Tas!Detect(t, c)
  <1>1. /\ r \in TasStates
        /\ r.detected[c] = t.detected[c] \cup Tas!InterruptRead(t, c)
        /\ \A d \in Tas!Channels \ {c} : r.detected[d] = t.detected[d]
        /\ Params(r) = Params(t) /\ r.m_power_state = t.m_power_state
        /\ r.chip = t.chip /\ r.latched = t.latched /\ r.irq_count = t.irq_count
        /\ r.irq_work = t.irq_work /\ r.init_work = t.init_work /\ r.lost = t.lost
        /\ r.stray = t.stray /\ r.disarmed = t.disarmed /\ r.missed = t.missed
    BY DetectEffect
  <1> HIDE DEF r
  <1>2. 1 \in Tas!Channels /\ 2 \in Tas!Channels
    BY DEF Tas!Channels
  <1>3. \A d \in Tas!Channels : t.latched[d] = {} /\ t.detected[d] = {} => r.detected[d] = {}
    <2> SUFFICES ASSUME NEW d \in Tas!Channels, t.latched[d] = {}, t.detected[d] = {}
                 PROVE  r.detected[d] = {}
      OBVIOUS
    <2>1. Tas!InterruptRead(t, d) = {}
      BY DEF Tas!InterruptRead
    <2> QED BY <1>1, <2>1
  <1>4. PowerAt(r)
    BY <1>1, <1>2, <1>3 DEF Core, PowerAt, Rested
  <1>5. SilentAt(r, p)
    BY <1>1 DEF Core, SilentAt
  <1>6. Remembered(r, w)
    BY <1>1 DEF Core, Remembered, Params
  <1>7. KeptAt(r, w)
    BY <1>1, SteadyKept DEF Core
  <1>8. \A d \in Tas!Channels : ArmedAt(t, d) => ArmedAt(r, d)
    <2>1. Tas!Opmode(r) = Tas!Opmode(t)
      BY <1>1 DEF Params, Tas!Opmode
    <2> QED BY <1>1, <2>1 DEF ArmedAt
  <1>9. Core(r, p, w)
    BY <1>1, <1>4, <1>5, <1>6, <1>7 DEF Core
  <1> QED BY <1>1, <1>8, <1>9 DEF r

LEMMA MissedCore ==
    ASSUME Setting, NEW t \in TasStates, NEW s \in SUBSET Tas!Channels, NEW p, NEW w, Core(t, p, w)
    PROVE  LET r == [t EXCEPT !.missed = s]
           IN  /\ r \in TasStates /\ r.missed = s /\ Core(r, p, w)
               /\ r.chip = t.chip /\ r.latched = t.latched /\ r.irq_work = t.irq_work
               /\ Params(r) = Params(t)
               /\ \A d \in Tas!Channels : ArmedAt(t, d) => ArmedAt(r, d)
  <1> DEFINE r == [t EXCEPT !.missed = s]
  <1>1. /\ r \in TasStates /\ r.missed = s
        /\ Params(r) = Params(t) /\ r.m_power_state = t.m_power_state
        /\ r.chip = t.chip /\ r.latched = t.latched /\ r.detected = t.detected
        /\ r.irq_count = t.irq_count /\ r.irq_work = t.irq_work
        /\ r.init_work = t.init_work /\ r.lost = t.lost /\ r.stray = t.stray
        /\ r.disarmed = t.disarmed
    BY WithMissed
  <1> HIDE DEF r
  <1>2. PowerAt(r)
    BY <1>1 DEF Core, PowerAt, Rested
  <1>3. SilentAt(r, p)
    BY <1>1 DEF Core, SilentAt
  <1>4. Remembered(r, w)
    BY <1>1 DEF Core, Remembered, Params
  <1>5. KeptAt(r, w)
    BY <1>1, SteadyKept DEF Core
  <1>6. \A d \in Tas!Channels : ArmedAt(t, d) => ArmedAt(r, d)
    <2>1. Tas!Opmode(r) = Tas!Opmode(t)
      BY <1>1 DEF Params, Tas!Opmode
    <2> QED BY <1>1, <2>1 DEF ArmedAt
  <1>7. Core(r, p, w)
    BY <1>1, <1>2, <1>3, <1>4, <1>5 DEF Core
  <1> QED BY <1>1, <1>6, <1>7 DEF r

LEMMA QuietHeard ==
    ASSUME NEW r, NEW c, QuietAt(r, c)
    PROVE  HeardAt(r, c)
  BY Zenon DEF QuietAt, HeardAt

(* What every step keeps, of the device and what it was asked to hold. *)
Whole(r, p, w) ==
    /\ r \in TasStates /\ Core(r, p, w)
    /\ \A c \in Tas!Channels : ArmedAt(r, c)
    /\ \A c \in Tas!Channels \ r.missed : HeardAt(r, c)

LEMMA IrqWorkKept ==
    ASSUME Setting, Tas!TasAssumption, NEW w \in Nat, NEW t \in TasStates, NEW late,
           NEW fails \in Tas!Failing, dac_power \in BOOLEAN, Core(t, dac_power, w),
           \A c \in Tas!Channels : ArmedAt(t, c)
    PROVE  LET r == Tas!IrqWorkFunc(t, late, fails)
           IN  Whole(r, dac_power, w) /\ Params(r) = Params(t)
  <1> DEFINE seen1 == Tas!Detect(t, 1)
             seen2 == Tas!Detect(seen1, 2)
             found == {c \in Tas!Channels : Tas!InterruptRead(t, c) # {}}
             q == [t |-> seen2, reset |-> FALSE]
             a == IF 1 \in found THEN Tas!IrqChannel(q, 1, late, fails) ELSE q
             b == IF 2 \in found THEN Tas!IrqChannel(a, 2, late, fails) ELSE a
             s == b.t.missed \cup {c \in Tas!Channels \ found : t.latched[c] # {}}
             x == b.t
             r == [x EXCEPT !.missed = s]
             p == dac_power
  <1>0. 1 \in Tas!Channels /\ 2 \in Tas!Channels /\ \A c \in Tas!Channels : c = 1 \/ c = 2
    BY DEF Tas!Channels
  <1>1. Tas!IrqWorkFunc(t, late, fails) = r
    BY <1>0 DEF Tas!IrqWorkFunc, Tas!EachOf
  <1>2. /\ seen1 \in TasStates /\ Core(seen1, p, w)
        /\ seen1.chip = t.chip /\ seen1.latched = t.latched
        /\ Params(seen1) = Params(t)
        /\ \A d \in Tas!Channels : ArmedAt(t, d) => ArmedAt(seen1, d)
    BY <1>0, DetectCore
  <1> HIDE DEF seen1
  <1>3. /\ seen2 \in TasStates /\ Core(seen2, p, w)
        /\ seen2.chip = seen1.chip /\ seen2.latched = seen1.latched
        /\ Params(seen2) = Params(seen1)
        /\ \A d \in Tas!Channels : ArmedAt(seen1, d) => ArmedAt(seen2, d)
    BY <1>0, <1>2, DetectCore
  <1> HIDE DEF seen2
  <1>4. /\ q.t = seen2 /\ q.t \in TasStates /\ Core(q.t, p, w)
        /\ Params(q.t) = Params(t) /\ \A d \in Tas!Channels : ArmedAt(q.t, d)
    BY <1>2, <1>3
  <1>5. \A d \in Tas!Channels : t.latched[d] = {} => QuietAt(q.t, d)
    BY <1>2, <1>3, <1>4 DEF QuietAt
  <1> HIDE DEF q, found
  <1>6. /\ a.t \in TasStates /\ Core(a.t, p, w) /\ Params(a.t) = Params(t)
        /\ \A d \in Tas!Channels : ArmedAt(a.t, d)
        /\ \A d \in Tas!Channels : t.latched[d] = {} => QuietAt(a.t, d)
        /\ 1 \in found => QuietAt(a.t, 1)
    <2>1. CASE 1 \in found
      <3> DEFINE u == Tas!IrqChannel(q, 1, late, fails)
      <3>1. Looked(u.t, q.t, 1, p, w)
        BY <1>0, <1>4, IrqChannelKept
      <3>2. a = u
        BY <2>1
      <3> HIDE DEF a, u
      <3> QED BY <1>0, <1>4, <1>5, <3>1, <3>2 DEF Looked
    <2>2. CASE 1 \notin found
      <3>1. a = q
        BY <2>2
      <3> HIDE DEF a
      <3> QED BY <1>4, <1>5, <2>2, <3>1
    <2> QED BY <2>1, <2>2
  <1> HIDE DEF a
  <1>7. /\ b.t \in TasStates /\ Core(b.t, p, w) /\ Params(b.t) = Params(t)
        /\ \A d \in Tas!Channels : ArmedAt(b.t, d)
        /\ \A d \in Tas!Channels : t.latched[d] = {} \/ d \in found => QuietAt(b.t, d)
    <2>1. CASE 2 \in found
      <3> DEFINE u == Tas!IrqChannel(a, 2, late, fails)
      <3>1. Looked(u.t, a.t, 2, p, w)
        BY <1>0, <1>6, IrqChannelKept
      <3>2. b = u
        BY <2>1
      <3> HIDE DEF b, u
      <3> QED BY <1>0, <1>6, <3>1, <3>2 DEF Looked
    <2>2. CASE 2 \notin found
      <3>1. b = a
        BY <2>2
      <3> HIDE DEF b
      <3> QED BY <1>0, <1>6, <2>2, <3>1
    <2> QED BY <2>1, <2>2
  <1>8. s \in SUBSET Tas!Channels /\ \A c \in Tas!Channels \ s : t.latched[c] = {} \/ c \in found
    BY <1>7 DEF TasStates
  <1> HIDE DEF s, b
  <1>9. /\ r \in TasStates /\ r.missed = s /\ Core(r, p, w)
        /\ r.chip = x.chip /\ r.latched = x.latched
        /\ Params(r) = Params(x)
        /\ \A d \in Tas!Channels : ArmedAt(x, d) => ArmedAt(r, d)
    <2>1. x \in TasStates /\ Core(x, p, w)
      BY <1>7
    <2> HIDE DEF x
    <2> QED BY <1>8, <2>1, MissedCore
  <1>10. \A c \in Tas!Channels \ r.missed : HeardAt(r, c)
    <2> SUFFICES ASSUME NEW c \in Tas!Channels \ r.missed PROVE HeardAt(r, c)
      OBVIOUS
    <2>1. QuietAt(x, c)
      BY <1>7, <1>8, <1>9
    <2>2. QuietAt(r, c)
      BY <1>9, <2>1 DEF QuietAt
    <2> QED BY <2>2, QuietHeard
  <1>11. Whole(r, p, w) /\ Params(r) = Params(t)
    BY <1>7, <1>9, <1>10 DEF Whole
  <1> QED BY <1>1, <1>11

(* States that differ in what is written to the chips and remembered at most. *)
Alike(r, t) ==
    /\ r.m_power_state = t.m_power_state
    /\ r.latched = t.latched /\ r.detected = t.detected /\ r.irq_count = t.irq_count
    /\ r.irq_work = t.irq_work /\ r.init_work = t.init_work /\ r.stray = t.stray
    /\ r.missed = t.missed
    /\ \A d \in Tas!Channels : r.chip[d].power = t.chip[d].power /\ r.chip[d].intr = t.chip[d].intr

LEMMA RewrittenAlike ==
    ASSUME NEW r, NEW s, NEW t, Rewritten(r, s), Alike(s, t)
    PROVE  Alike(r, t)
  BY DEF Rewritten, Alike

LEMMA AlikeWhole ==
    ASSUME NEW t, NEW r \in TasStates, NEW p, NEW v, NEW w, Whole(t, p, v), Alike(r, t),
           Remembered(r, w), KeptAt(r, w), Tas!Opmode(r) \ r.disarmed \subseteq Tas!Opmode(t) \ t.disarmed
    PROVE  Whole(r, p, w)
  <1>1. 1 \in Tas!Channels /\ 2 \in Tas!Channels
    BY DEF Tas!Channels
  <1>2. PowerAt(t) /\ SilentAt(t, p)
    BY DEF Whole, Core
  <1>3. PowerAt(r)
    BY <1>1, <1>2 DEF Alike, PowerAt, Rested
  <1>4. SilentAt(r, p)
    BY <1>2 DEF Alike, SilentAt
  <1>5. \A d \in Tas!Channels : ArmedAt(r, d)
    <2> SUFFICES ASSUME NEW d \in Tas!Channels, r.m_power_state = "active",
                        d \in Tas!Opmode(r) \ r.disarmed, r.chip[d].power = "on"
                 PROVE  r.chip[d].intr \/ r.init_work[d] # {}
      BY DEF ArmedAt
    <2>1. ArmedAt(t, d)
      BY DEF Whole
    <2>2. /\ t.m_power_state = "active" /\ d \in Tas!Opmode(t) \ t.disarmed
          /\ t.chip[d].power = "on" /\ r.init_work = t.init_work
          /\ r.chip[d].intr = t.chip[d].intr
      BY DEF Alike
    <2> QED BY <2>1, <2>2 DEF ArmedAt
  <1>6. \A d \in Tas!Channels \ r.missed : HeardAt(r, d)
    <2> SUFFICES ASSUME NEW d \in Tas!Channels \ r.missed, r.chip[d].intr, r.latched[d] # {}
                 PROVE  r.irq_work
      BY DEF HeardAt
    <2>1. HeardAt(t, d)
      BY DEF Whole, Alike
    <2>2. t.chip[d].intr /\ t.latched[d] # {}
      BY DEF Alike
    <2>3. t.irq_work
      BY <2>1, <2>2 DEF HeardAt
    <2> QED BY <2>3 DEF Alike
  <1> QED BY <1>3, <1>4, <1>5, <1>6 DEF Whole, Core

LEMMA WithFormat ==
    ASSUME NEW t \in TasStates, NEW v \in Nat
    PROVE  LET r == [t EXCEPT !.mn_fmt = v]
           IN  /\ r \in TasStates /\ Alike(r, t) /\ r.chip = t.chip /\ r.lost = t.lost
               /\ r.disarmed = t.disarmed /\ r.mn_fmt = v /\ r.mn_fmt_mode = t.mn_fmt_mode
               /\ r.mn_rx_width = t.mn_rx_width /\ r.mn_tx_slot_width = t.mn_tx_slot_width
               /\ r.curr_val = t.curr_val /\ r.fw_state = t.fw_state
  BY DEF TasStates, Alike

LEMMA WithFormatMode ==
    ASSUME NEW t \in TasStates, NEW v \in {0, 1, 2}
    PROVE  LET r == [t EXCEPT !.mn_fmt_mode = v]
           IN  /\ r \in TasStates /\ Alike(r, t) /\ r.chip = t.chip /\ r.lost = t.lost
               /\ r.disarmed = t.disarmed /\ r.mn_fmt = t.mn_fmt /\ r.mn_fmt_mode = v
               /\ r.mn_rx_width = t.mn_rx_width /\ r.mn_tx_slot_width = t.mn_tx_slot_width
               /\ r.curr_val = t.curr_val /\ r.fw_state = t.fw_state
  BY DEF TasStates, Alike

LEMMA WithRxWidth ==
    ASSUME NEW t \in TasStates, NEW v \in Nat
    PROVE  LET r == [t EXCEPT !.mn_rx_width = v]
           IN  /\ r \in TasStates /\ Alike(r, t) /\ r.chip = t.chip /\ r.lost = t.lost
               /\ r.disarmed = t.disarmed /\ r.mn_fmt = t.mn_fmt /\ r.mn_fmt_mode = t.mn_fmt_mode
               /\ r.mn_rx_width = v /\ r.mn_tx_slot_width = t.mn_tx_slot_width
               /\ r.curr_val = t.curr_val /\ r.fw_state = t.fw_state
  BY DEF TasStates, Alike

LEMMA WithTxWidth ==
    ASSUME NEW t \in TasStates, NEW v \in Nat
    PROVE  LET r == [t EXCEPT !.mn_tx_slot_width = v]
           IN  /\ r \in TasStates /\ Alike(r, t) /\ r.chip = t.chip /\ r.lost = t.lost
               /\ r.disarmed = t.disarmed /\ r.mn_fmt = t.mn_fmt /\ r.mn_fmt_mode = t.mn_fmt_mode
               /\ r.mn_rx_width = t.mn_rx_width /\ r.mn_tx_slot_width = v
               /\ r.curr_val = t.curr_val /\ r.fw_state = t.fw_state
  BY DEF TasStates, Alike

LEMMA WithLostAlike ==
    ASSUME NEW t \in TasStates, NEW b \in BOOLEAN
    PROVE  LET r == [t EXCEPT !.lost = b]
           IN  /\ r \in TasStates /\ Alike(r, t) /\ r.chip = t.chip /\ r.lost = b
               /\ r.disarmed = t.disarmed /\ Params(r) = Params(t)
  BY DEF TasStates, Alike, Params

LEMMA SetDaiFmtKept ==
    ASSUME Setting, setting = "fmt", NEW t \in TasStates, NEW p, NEW v, NEW w \in Nat, Whole(t, p, v)
    PROVE  LET r == [Tas!SetDaiFmtForFmt([t EXCEPT !.mn_fmt = w]) EXCEPT !.lost = FALSE]
           IN  Whole(r, p, w) /\ r.fw_state = t.fw_state
  <1> DEFINE x == [t EXCEPT !.mn_fmt = w]
             y == Tas!Write(x, "fmt", w)
             r == [y EXCEPT !.lost = FALSE]
  <1>1. /\ x \in TasStates /\ Alike(x, t) /\ x.chip = t.chip /\ x.lost = t.lost
        /\ x.disarmed = t.disarmed /\ x.mn_fmt = w /\ x.mn_fmt_mode = t.mn_fmt_mode
        /\ x.mn_rx_width = t.mn_rx_width /\ x.mn_tx_slot_width = t.mn_tx_slot_width
        /\ x.curr_val = t.curr_val /\ x.fw_state = t.fw_state
    BY WithFormat
  <1>2. Tas!SetDaiFmtForFmt(x) = y
    BY <1>1 DEF Tas!SetDaiFmtForFmt
  <1> HIDE DEF x
  <1>3. /\ y \in TasStates /\ Rewritten(y, x) /\ y.lost = x.lost
        /\ \A c \in Tas!Channels : y.chip[c].set = IF setting = "fmt" THEN w ELSE x.chip[c].set
    BY <1>1, WriteAgain
  <1> HIDE DEF y
  <1>4. /\ r \in TasStates /\ Alike(r, y) /\ r.chip = y.chip
        /\ r.disarmed = y.disarmed /\ Params(r) = Params(y)
    BY <1>3, WithLostAlike
  <1> HIDE DEF r
  <1>5. Alike(r, t)
    BY <1>1, <1>3, <1>4 DEF Alike, Rewritten
  <1>6. Params(r) = Params(x) /\ r.disarmed = t.disarmed
    BY <1>1, <1>3, <1>4 DEF Rewritten
  <1>7. Remembered(r, w)
    <2>1. Remembered(t, v)
      BY DEF Whole, Core
    <2> QED BY <1>1, <1>6, <2>1 DEF Remembered, Params, Tas!Controls
  <1>8. KeptAt(r, w)
    BY <1>3, <1>4 DEF KeptAt
  <1>9. Tas!Opmode(r) = Tas!Opmode(t)
    BY <1>1, <1>6 DEF Tas!Opmode, Params
  <1>10. Whole(r, p, w)
    BY <1>4, <1>5, <1>6, <1>7, <1>8, <1>9, AlikeWhole
  <1>11. r.fw_state = t.fw_state
    BY <1>1, <1>6 DEF Params
  <1> QED BY <1>2, <1>10, <1>11 DEF r, x

(* A state that holds what the device is asked to, with its binary as before. *)
Held(r, t, p, w) == Whole(r, p, w) /\ r.fw_state = t.fw_state /\ w \in Nat

Playback(t, mode, width, rate) ==
    LET u == Tas!SetSampleRate(Tas!RxSetBitwidth([t EXCEPT !.mn_fmt_mode = mode], width), rate)
    IN  [u EXCEPT !.lost = @ /\ setting \notin {"rx_width", "rate"}]

PlaybackWanted(v, width, rate) ==
    CASE setting = "rx_width" -> width [] setting = "rate" -> rate [] OTHER -> v

LEMMA PlaybackKept ==
    ASSUME Setting, NEW t \in TasStates, NEW p, NEW v \in Nat, Whole(t, p, v),
           NEW mode \in {1, 2}, NEW width \in Nat, NEW rate \in Nat
    PROVE  Held(Playback(t, mode, width, rate), t, p, PlaybackWanted(v, width, rate))
  <1> DEFINE x == [t EXCEPT !.mn_fmt_mode = mode]
             y == [x EXCEPT !.mn_rx_width = width]
             z == Tas!Write(y, "rx_width", width)
             u == Tas!SetSampleRate(z, rate)
             b == (u.lost /\ setting \notin {"rx_width", "rate"})
             r == [u EXCEPT !.lost = b]
             w == CASE setting = "rx_width" -> width [] setting = "rate" -> rate [] OTHER -> v
  <1>0. Tas!RxSetBitwidth(x, width) = z
    BY DEF Tas!RxSetBitwidth
  <1>1. /\ x \in TasStates /\ Alike(x, t) /\ x.chip = t.chip /\ x.lost = t.lost
        /\ x.disarmed = t.disarmed /\ x.mn_fmt = t.mn_fmt /\ x.mn_fmt_mode = mode
        /\ x.mn_rx_width = t.mn_rx_width /\ x.mn_tx_slot_width = t.mn_tx_slot_width
        /\ x.curr_val = t.curr_val /\ x.fw_state = t.fw_state
    <2>1. mode \in {0, 1, 2}
      OBVIOUS
    <2> QED BY <2>1, WithFormatMode
  <1> HIDE DEF x
  <1>2. /\ y \in TasStates /\ Alike(y, x) /\ y.chip = x.chip /\ y.lost = x.lost
        /\ y.disarmed = x.disarmed /\ y.mn_fmt = x.mn_fmt /\ y.mn_fmt_mode = x.mn_fmt_mode
        /\ y.mn_rx_width = width /\ y.mn_tx_slot_width = x.mn_tx_slot_width
        /\ y.curr_val = x.curr_val /\ y.fw_state = x.fw_state
    BY <1>1, WithRxWidth
  <1> HIDE DEF y
  <1>3. /\ z \in TasStates /\ Rewritten(z, y) /\ z.lost = y.lost
        /\ \A c \in Tas!Channels : z.chip[c].set = IF setting = "rx_width" THEN width ELSE y.chip[c].set
    BY <1>2, WriteAgain
  <1> HIDE DEF z
  <1>4. /\ u \in TasStates /\ Rewritten(u, z) /\ u.lost = z.lost
        /\ \A c \in Tas!Channels : u.chip[c].set = IF setting = "rate" THEN rate ELSE z.chip[c].set
    BY <1>3, RateEffect
  <1> HIDE DEF u
  <1>5. b \in BOOLEAN
    BY <1>4 DEF TasStates
  <1>6. /\ r \in TasStates /\ Alike(r, u) /\ r.chip = u.chip /\ r.lost = b
        /\ r.disarmed = u.disarmed /\ Params(r) = Params(u)
    <2> HIDE DEF b
    <2> QED BY <1>4, <1>5, WithLostAlike
  <1>6a. t.lost /\ setting \notin {"rx_width", "rate"} => b
    BY <1>1, <1>2, <1>3, <1>4
  <1> HIDE DEF r, b
  <1>7. Alike(r, t)
    BY <1>1, <1>2, <1>3, <1>4, <1>6 DEF Alike, Rewritten
  <1>8. Params(r) = Params(y) /\ r.disarmed = t.disarmed
    BY <1>1, <1>2, <1>3, <1>4, <1>6 DEF Rewritten
  <1>9. \A c \in Tas!Channels : r.chip[c].set = IF setting = "rx_width" THEN width
                                            ELSE IF setting = "rate" THEN rate ELSE t.chip[c].set
    BY <1>1, <1>2, <1>3, <1>4, <1>6
  <1>10. w = IF setting = "rx_width" THEN width ELSE IF setting = "rate" THEN rate ELSE v
    OBVIOUS
  <1> HIDE DEF w
  <1>11. Remembered(r, w)
    <2>1. Remembered(t, v)
      BY DEF Whole, Core
    <2>2. /\ r.mn_fmt = t.mn_fmt /\ r.mn_fmt_mode = mode /\ r.mn_rx_width = width
          /\ r.mn_tx_slot_width = t.mn_tx_slot_width /\ r.curr_val = t.curr_val
      BY <1>1, <1>2, <1>8 DEF Params
    <2>3. CASE setting = "rx_width"
      BY <1>10, <2>1, <2>2, <2>3 DEF Remembered, Tas!Controls
    <2>4. CASE setting = "rate"
      BY <2>1, <2>2, <2>4 DEF Remembered, Tas!Controls
    <2>5. CASE setting \notin {"rx_width", "rate"}
      <3>1. w = v
        BY <1>10, <2>5
      <3> QED BY <2>1, <2>2, <2>5, <3>1 DEF Remembered
    <2> QED BY <2>3, <2>4, <2>5
  <1>12. KeptAt(r, w)
    <2>1. KeptAt(t, v)
      BY DEF Whole, Core
    <2>2. CASE setting \in {"rx_width", "rate"}
      BY <1>9, <1>10, <2>2 DEF KeptAt
    <2>3. CASE setting \notin {"rx_width", "rate"}
      <3>1. w = v /\ \A c \in Tas!Channels : r.chip[c].set = t.chip[c].set
        BY <1>9, <1>10, <2>3
      <3>2. t.lost => r.lost
        BY <1>6, <1>6a, <2>3
      <3>3. 1 \in Tas!Channels
        BY DEF Tas!Channels
      <3> QED BY <1>7, <2>1, <3>1, <3>2, <3>3, SteadyKept DEF Alike
    <2> QED BY <2>2, <2>3
  <1>13. Tas!Opmode(r) = Tas!Opmode(t)
    BY <1>1, <1>2, <1>8 DEF Tas!Opmode, Params
  <1>14. Whole(r, p, w)
    BY <1>6, <1>7, <1>8, <1>11, <1>12, <1>13, AlikeWhole
  <1>15. r.fw_state = t.fw_state
    BY <1>1, <1>2, <1>8 DEF Params
  <1>16. w \in Nat
    BY <1>10
  <1>17. Held(r, t, p, w)
    BY <1>14, <1>15, <1>16 DEF Held
  <1>18. Playback(t, mode, width, rate) = r
    BY <1>0 DEF Playback, r, u, z, y, x, b
  <1>19. PlaybackWanted(v, width, rate) = w
    BY DEF PlaybackWanted, w
  <1> QED BY <1>17, <1>18, <1>19

LEMMA CaptureKept ==
    ASSUME Setting, NEW t \in TasStates, NEW p, NEW v \in Nat, Whole(t, p, v),
           NEW mode \in {1, 2}
    PROVE  LET x == [t EXCEPT !.mn_fmt_mode = mode]
               r == IF fmt_table = {} THEN x
                    ELSE [Tas!IvVbatSlotConfig(x, 16) EXCEPT !.lost = @ /\ setting # "tx_format"]
               w == IF setting = "tx_format" /\ fmt_table # {} THEN Best ELSE v
           IN  Whole(r, p, w) /\ r.fw_state = t.fw_state /\ w \in Nat
  <1> DEFINE x == [t EXCEPT !.mn_fmt_mode = mode]
             y == [x EXCEPT !.mn_tx_slot_width = 16]
             u == Tas!Write(y, "tx_format", Best)
             b == (u.lost /\ setting # "tx_format")
             e == [u EXCEPT !.lost = b]
             r == IF fmt_table = {} THEN x ELSE e
             w == IF setting = "tx_format" /\ fmt_table # {} THEN Best ELSE v
  <1>0. Tas!IvVbatSlotConfig(x, 16) = u
    BY DEF Tas!IvVbatSlotConfig, Best
  <1>1. /\ x \in TasStates /\ Alike(x, t) /\ x.chip = t.chip /\ x.lost = t.lost
        /\ x.disarmed = t.disarmed /\ x.mn_fmt = t.mn_fmt /\ x.mn_fmt_mode = mode
        /\ x.mn_rx_width = t.mn_rx_width /\ x.mn_tx_slot_width = t.mn_tx_slot_width
        /\ x.curr_val = t.curr_val /\ x.fw_state = t.fw_state
    <2>1. mode \in {0, 1, 2}
      OBVIOUS
    <2> QED BY <2>1, WithFormatMode
  <1> HIDE DEF x
  <1>a. Remembered(t, v) /\ KeptAt(t, v) /\ 1 \in Tas!Channels
    BY DEF Whole, Core, Tas!Channels
  <1>2. CASE fmt_table = {}
    <2>1. r = x /\ w = v
      BY <1>2
    <2> HIDE DEF r, w
    <2>2. Remembered(r, w)
      BY <1>1, <1>2, <1>a, <2>1 DEF Remembered, Params, Tas!Controls
    <2>3. KeptAt(r, w)
      BY <1>1, <1>a, <2>1, SteadyKept DEF Alike
    <2>4. Tas!Opmode(r) = Tas!Opmode(t)
      BY <1>1, <2>1 DEF Tas!Opmode
    <2>5. Whole(r, p, w)
      BY <1>1, <2>1, <2>2, <2>3, <2>4, AlikeWhole
    <2> QED BY <1>1, <2>1, <2>5, <1>0 DEF r, w, x, e, u, b, y
  <1>3. CASE fmt_table # {}
    <2>0. Best \in Nat
      BY <1>3, BestTyped
    <2>1. /\ y \in TasStates /\ Alike(y, x) /\ y.chip = x.chip /\ y.lost = x.lost
          /\ y.disarmed = x.disarmed /\ y.mn_fmt = x.mn_fmt /\ y.mn_fmt_mode = x.mn_fmt_mode
          /\ y.mn_rx_width = x.mn_rx_width /\ y.mn_tx_slot_width = 16
          /\ y.curr_val = x.curr_val /\ y.fw_state = x.fw_state
      BY <1>1, WithTxWidth
    <2> HIDE DEF y
    <2>2. /\ u \in TasStates /\ Rewritten(u, y) /\ u.lost = y.lost
          /\ \A c \in Tas!Channels : u.chip[c].set = IF setting = "tx_format" THEN Best ELSE y.chip[c].set
      BY <2>0, <2>1, WriteAgain
    <2> HIDE DEF u
    <2>3. b \in BOOLEAN
      BY <2>2 DEF TasStates
    <2>4. t.lost /\ setting # "tx_format" => b
      BY <1>1, <2>1, <2>2
    <2>5. /\ e \in TasStates /\ Alike(e, u) /\ e.chip = u.chip /\ e.lost = b
          /\ e.disarmed = u.disarmed /\ Params(e) = Params(u)
      <3> HIDE DEF b
      <3> QED BY <2>2, <2>3, WithLostAlike
    <2> HIDE DEF e, b
    <2>6. r = e /\ w = IF setting = "tx_format" THEN Best ELSE v
      BY <1>3
    <2> HIDE DEF r, w
    <2>7. Alike(r, t)
      BY <1>1, <2>1, <2>2, <2>5, <2>6 DEF Alike, Rewritten
    <2>8. Params(r) = Params(y) /\ r.disarmed = t.disarmed
      BY <1>1, <2>1, <2>2, <2>5, <2>6 DEF Rewritten
    <2>9. \A c \in Tas!Channels : r.chip[c].set = IF setting = "tx_format" THEN Best ELSE t.chip[c].set
      BY <1>1, <2>1, <2>2, <2>5, <2>6
    <2>10. Remembered(r, w)
      BY <1>1, <1>3, <1>a, <2>1, <2>6, <2>8 DEF Remembered, Params, Tas!Controls
    <2>11. KeptAt(r, w)
      <3>1. CASE setting = "tx_format"
        BY <2>6, <2>9, <3>1 DEF KeptAt
      <3>2. CASE setting # "tx_format"
        <4>1. w = v /\ \A c \in Tas!Channels : r.chip[c].set = t.chip[c].set
          BY <2>6, <2>9, <3>2
        <4>2. t.lost => r.lost
          BY <2>4, <2>5, <2>6, <3>2
        <4> QED BY <1>a, <2>7, <4>1, <4>2, SteadyKept DEF Alike
      <3> QED BY <3>1, <3>2
    <2>12. Tas!Opmode(r) = Tas!Opmode(t)
      BY <1>1, <2>1, <2>8 DEF Tas!Opmode, Params
    <2>13. Whole(r, p, w)
      BY <2>5, <2>6, <2>7, <2>8, <2>10, <2>11, <2>12, AlikeWhole
    <2>14. r.fw_state = t.fw_state /\ w \in Nat
      BY <1>1, <2>0, <2>1, <2>6, <2>8 DEF Params
    <2> QED BY <1>0, <2>13, <2>14 DEF r, w, e, b, u, y, x
  <1> QED BY <1>2, <1>3

LEMMA WithValue ==
    ASSUME NEW t \in TasStates, NEW v \in Nat
    PROVE  LET r == [t EXCEPT !.curr_val = v, !.lost = FALSE]
           IN  /\ r \in TasStates /\ Alike(r, t) /\ r.chip = t.chip /\ r.lost = FALSE
               /\ r.disarmed = t.disarmed /\ r.mn_fmt = t.mn_fmt /\ r.mn_fmt_mode = t.mn_fmt_mode
               /\ r.mn_rx_width = t.mn_rx_width /\ r.mn_tx_slot_width = t.mn_tx_slot_width
               /\ r.curr_val = v /\ r.fw_state = t.fw_state
  BY DEF TasStates, Alike

(* A state of a control that was put, and the channels whose interrupts nothing waits for. *)
Valued(r, t, v, s) ==
    /\ r \in TasStates /\ Alike(r, t) /\ r.chip = t.chip /\ r.lost = FALSE
    /\ r.disarmed = s /\ r.mn_fmt = t.mn_fmt /\ r.mn_fmt_mode = t.mn_fmt_mode
    /\ r.mn_rx_width = t.mn_rx_width /\ r.mn_tx_slot_width = t.mn_tx_slot_width
    /\ r.curr_val = v /\ r.fw_state = t.fw_state

LEMMA WithControl ==
    ASSUME NEW t \in TasStates, NEW v \in {0, 1}, NEW s \in SUBSET Tas!Channels
    PROVE  Valued([t EXCEPT !.curr_val = v, !.lost = FALSE, !.disarmed = s], t, v, s)
  <1> DEFINE y == [t EXCEPT !.curr_val = v, !.lost = FALSE]
             r == [y EXCEPT !.disarmed = s]
  <1>0. v \in Nat
    OBVIOUS
  <1>1. /\ y \in TasStates /\ Alike(y, t) /\ y.chip = t.chip /\ y.lost = FALSE
        /\ y.disarmed = t.disarmed /\ y.mn_fmt = t.mn_fmt /\ y.mn_fmt_mode = t.mn_fmt_mode
        /\ y.mn_rx_width = t.mn_rx_width /\ y.mn_tx_slot_width = t.mn_tx_slot_width
        /\ y.curr_val = v /\ y.fw_state = t.fw_state
    BY <1>0, WithValue
  <1>2. [t EXCEPT !.curr_val = v, !.lost = FALSE, !.disarmed = s] = r
    BY DEF TasStates
  <1> HIDE DEF y
  <1>3. /\ r \in TasStates /\ r.disarmed = s
        /\ Params(r) = Params(y) /\ r.m_power_state = y.m_power_state
        /\ r.chip = y.chip /\ r.latched = y.latched /\ r.detected = y.detected
        /\ r.irq_count = y.irq_count /\ r.irq_work = y.irq_work
        /\ r.init_work = y.init_work /\ r.lost = y.lost /\ r.stray = y.stray
        /\ r.missed = y.missed
    BY <1>1, WithDisarmed
  <1> HIDE DEF r
  <1>4. Valued(r, t, v, s)
    BY <1>1, <1>3 DEF Valued, Alike, Params
  <1> QED BY <1>2, <1>4

LEMMA PutKept ==
    ASSUME Setting, setting \in Tas!Controls, NEW t \in TasStates, NEW p, NEW o, Whole(t, p, o),
           NEW v \in {0, 1}
    PROVE  LET now == setting \in {"anytime", "em"} \/ t.m_power_state = "active"
               x == [t EXCEPT !.curr_val = v, !.lost = FALSE,
                              !.disarmed = IF setting = "profile" THEN @ \cup {2} ELSE @]
               r == IF now THEN Tas!UpdateKcontrolData(x, setting) ELSE x
           IN  Whole(r, p, v) /\ r.fw_state = t.fw_state
  <1> DEFINE now == setting \in {"anytime", "em"} \/ t.m_power_state = "active"
             s == IF setting = "profile" THEN t.disarmed \cup {2} ELSE t.disarmed
             x == [t EXCEPT !.curr_val = v, !.lost = FALSE, !.disarmed = s]
             u == Tas!UpdateKcontrolData(x, setting)
             r == IF now THEN u ELSE x
  <1>0. s \in SUBSET Tas!Channels
    BY DEF TasStates, Tas!Channels
  <1>1. /\ x \in TasStates /\ Alike(x, t) /\ x.chip = t.chip /\ x.lost = FALSE
        /\ x.disarmed = s /\ x.mn_fmt = t.mn_fmt /\ x.mn_fmt_mode = t.mn_fmt_mode
        /\ x.mn_rx_width = t.mn_rx_width /\ x.mn_tx_slot_width = t.mn_tx_slot_width
        /\ x.curr_val = v /\ x.fw_state = t.fw_state
    <2> HIDE DEF s
    <2>1. Valued(x, t, v, s)
      BY <1>0, WithControl
    <2> HIDE DEF x
    <2> QED BY <2>1 DEF Valued
  <1> HIDE DEF x
  <1>2. /\ u \in TasStates
        /\ u.chip[1].set = x.curr_val
        /\ u.chip[1].power = x.chip[1].power /\ u.chip[1].intr = x.chip[1].intr
        /\ u.chip[2] = x.chip[2]
        /\ Params(u) = Params(x) /\ u.m_power_state = x.m_power_state
        /\ u.latched = x.latched /\ u.detected = x.detected
        /\ u.irq_count = x.irq_count /\ u.irq_work = x.irq_work
        /\ u.init_work = x.init_work /\ u.lost = x.lost /\ u.stray = x.stray
        /\ u.disarmed = x.disarmed /\ u.missed = x.missed
    BY <1>1, KcontrolEffect
  <1> HIDE DEF u
  <1>3. \A d \in Tas!Channels : d = 1 \/ d = 2
    BY DEF Tas!Channels
  <1>4. /\ r \in TasStates /\ Alike(r, t) /\ Params(r) = Params(x) /\ r.disarmed = s
        /\ r.init_work = t.init_work
        /\ now => r.chip[1].set = v
        /\ ~now => r.chip = t.chip
    <2>1. CASE now
      <3>1. r = u
        BY <2>1
      <3> HIDE DEF r, now, s
      <3>2. Alike(r, t)
        BY <1>1, <1>2, <1>3, <3>1 DEF Alike
      <3> QED BY <1>1, <1>2, <2>1, <3>1, <3>2 DEF Alike
    <2>2. CASE ~now
      <3>1. r = x
        BY <2>2
      <3> HIDE DEF r, now, s
      <3> QED BY <1>1, <2>2, <3>1 DEF Alike
    <2> QED BY <2>1, <2>2
  <1> HIDE DEF r
  <1>5. Remembered(r, v)
    <2>1. Remembered(t, o)
      BY DEF Whole, Core
    <2> QED BY <1>1, <1>4, <2>1 DEF Remembered, Params, Tas!Controls
  <1>6. KeptAt(r, v)
    <2>1. r.m_power_state = t.m_power_state
      BY <1>4 DEF Alike
    <2>2. CASE now
      BY <1>4, <2>2 DEF KeptAt, Tas!Controls
    <2>3. CASE ~now
      BY <2>1, <2>3 DEF KeptAt, Tas!Controls
    <2> QED BY <2>2, <2>3
  <1>7. Tas!Opmode(r) \ r.disarmed \subseteq Tas!Opmode(t) \ t.disarmed
    <2>1. CASE setting = "profile"
      BY <1>4, <2>1, OpmodeSub DEF Tas!Channels
    <2>2. CASE setting # "profile"
      BY <1>4, <2>2, OpmodeSub
    <2> QED BY <2>1, <2>2
  <1>8. Whole(r, p, v)
    BY <1>4, <1>5, <1>6, <1>7, AlikeWhole
  <1>9. r.fw_state = t.fw_state
    BY <1>1, <1>4 DEF Params
  <1>10. x = [t EXCEPT !.curr_val = v, !.lost = FALSE,
                       !.disarmed = IF setting = "profile" THEN @ \cup {2} ELSE @]
    BY DEF x
  <1> QED BY <1>8, <1>9, <1>10 DEF r, u

LEMMA WithLoaded ==
    ASSUME NEW t \in TasStates
    PROVE  LET r == [t EXCEPT !.fw_state = "OK", !.lost = FALSE]
           IN  /\ r \in TasStates /\ Alike(r, t) /\ r.chip = t.chip /\ r.lost = FALSE
               /\ r.disarmed = t.disarmed /\ r.mn_fmt = t.mn_fmt /\ r.mn_fmt_mode = t.mn_fmt_mode
               /\ r.mn_rx_width = t.mn_rx_width /\ r.mn_tx_slot_width = t.mn_tx_slot_width
               /\ r.curr_val = t.curr_val /\ r.fw_state = "OK"
  BY DEF TasStates, Alike

LEMMA LoadKept ==
    ASSUME Setting, NEW t \in TasStates, NEW p, Whole(t, p, 0)
    PROVE  LET r == [Tas!WriteInitConfigParams(Tas!HardReset(t)) EXCEPT !.fw_state = "OK", !.lost = FALSE]
           IN  Whole(r, p, 0) /\ r.fw_state = "OK"
  <1> DEFINE a == Tas!SoftwareReset(t, 1)
             h == Tas!SoftwareReset(a, 2)
             i == Tas!WriteInitConfigParams(h)
             r == [i EXCEPT !.fw_state = "OK", !.lost = FALSE]
  <1>0. 1 \in Tas!Channels /\ 2 \in Tas!Channels \ {1} /\ 1 \in Tas!Channels \ {2} /\ 2 \in Tas!Channels
        /\ \A d \in Tas!Channels : d = 1 \/ d = 2
    BY DEF Tas!Channels
  <1>1. Tas!HardReset(t) = h
    BY <1>0 DEF Tas!HardReset, Tas!EachOf
  <1>2. a \in TasStates /\ ResetSome(a, t) /\ a.chip[1] = Tas!Reset /\ a.latched[1] = {}
        /\ a.stray = t.stray \ {1} /\ a.irq_work = t.irq_work /\ a.missed = t.missed \ {1}
        /\ a.latched[2] = t.latched[2]
    <2>1. a \in TasStates /\ ResetSome(a, t)
      BY <1>0, SoftResetSome
    <2>2. a.chip[1] = Tas!Reset /\ a.latched[1] = {}
      BY <1>0, ResetEffect
    <2>3. a.stray = t.stray \ {1} /\ a.irq_work = t.irq_work /\ a.missed = t.missed \ {1}
      BY <1>0, ResetEffect
    <2>4. \A d \in Tas!Channels \ {1} : a.latched[d] = t.latched[d]
      BY <1>0, ResetEffect
    <2> HIDE DEF a
    <2> QED BY <1>0, <2>1, <2>2, <2>3, <2>4
  <1> HIDE DEF a
  <1>3. h \in TasStates /\ ResetSome(h, a) /\ h.chip[2] = Tas!Reset /\ h.chip[1] = a.chip[1]
        /\ h.latched[2] = {} /\ h.latched[1] = a.latched[1]
    <2>1. h \in TasStates /\ ResetSome(h, a)
      BY <1>0, <1>2, SoftResetSome
    <2>2. h.chip[2] = Tas!Reset /\ h.latched[2] = {}
      BY <1>0, <1>2, ResetEffect
    <2>3. \A d \in Tas!Channels \ {2} : h.chip[d] = a.chip[d]
      BY <1>0, <1>2, ResetEffect
    <2>4. \A d \in Tas!Channels \ {2} : h.latched[d] = a.latched[d]
      BY <1>0, <1>2, ResetEffect
    <2> HIDE DEF h
    <2> QED BY <1>0, <2>1, <2>2, <2>3, <2>4
  <1> HIDE DEF h
  <1>4. \A d \in Tas!Channels : h.chip[d] = Tas!Reset /\ h.latched[d] = {}
    BY <1>0, <1>2, <1>3
  <1>5. ResetSome(h, t)
    BY <1>2, <1>3, ResetSomeOn
  <1>6. /\ i \in TasStates /\ Rewritten(i, h) /\ i.lost = h.lost
        /\ \A c \in Tas!Channels :
             i.chip[c].set = IF setting \in {"fmt", "rx_width", "tx_format", "rate"}
                               THEN 0 ELSE h.chip[c].set
    BY <1>3, InitParamsEffect
  <1> HIDE DEF i
  <1>7. /\ r \in TasStates /\ Alike(r, i) /\ r.chip = i.chip /\ r.lost = FALSE
        /\ r.mn_fmt = i.mn_fmt /\ r.mn_fmt_mode = i.mn_fmt_mode
        /\ r.mn_rx_width = i.mn_rx_width /\ r.mn_tx_slot_width = i.mn_tx_slot_width
        /\ r.curr_val = i.curr_val /\ r.fw_state = "OK"
    BY <1>6, WithLoaded
  <1> HIDE DEF r
  <1>8. \A d \in Tas!Channels : r.chip[d].set = 0 /\ r.chip[d].power = "off" /\ ~r.chip[d].intr
                            /\ r.latched[d] = {}
    <2> SUFFICES ASSUME NEW d \in Tas!Channels
                 PROVE  r.chip[d].set = 0 /\ r.chip[d].power = "off" /\ ~r.chip[d].intr
                        /\ r.latched[d] = {}
      OBVIOUS
    <2>1. h.chip[d].set = 0 /\ h.chip[d].power = "off" /\ h.chip[d].intr = FALSE
          /\ h.latched[d] = {}
      BY <1>4 DEF Tas!Reset
    <2> QED BY <1>6, <1>7, <2>1 DEF Rewritten, Alike
  <1>9. /\ r.m_power_state = t.m_power_state /\ r.detected = t.detected
        /\ r.irq_count = t.irq_count
    BY <1>5, <1>6, <1>7 DEF ResetSome, Rewritten, Alike
  <1>10. PowerAt(r)
    BY <1>0, <1>8, <1>9 DEF Whole, Core, PowerAt, Rested
  <1>11. SilentAt(r, p)
    BY <1>8 DEF SilentAt
  <1>12. Remembered(r, 0)
    <2>1. Remembered(t, 0)
      BY DEF Whole, Core
    <2> QED BY <1>5, <1>6, <1>7, <2>1 DEF ResetSome, Rewritten, Remembered, Params, Tas!Controls
  <1>13. KeptAt(r, 0)
    BY <1>0, <1>8, SettingCases DEF KeptAt
  <1>14. \A d \in Tas!Channels : ArmedAt(r, d) /\ HeardAt(r, d)
    BY <1>8 DEF ArmedAt, HeardAt
  <1>15. Whole(r, p, 0)
    BY <1>7, <1>10, <1>11, <1>12, <1>13, <1>14 DEF Whole, Core
  <1> QED BY <1>1, <1>7, <1>15 DEF r, i

(* The chips are as they were, but for what the active state alone is about. *)
LEMMA RestKept ==
    ASSUME Setting, NEW t, NEW r, NEW w, KeptAt(t, w), t.lost => r.lost,
           r.m_power_state # "active",
           \A d \in Tas!Channels : r.chip[d].set = t.chip[d].set
    PROVE  KeptAt(r, w)
  <1>0. 1 \in Tas!Channels
    BY DEF Tas!Channels
  <1>1. CASE setting \in Everywhere
    BY <1>1 DEF KeptAt, Everywhere
  <1>2. CASE setting \in {"anytime", "em"}
    BY <1>0, <1>2 DEF KeptAt
  <1>3. CASE setting \in {"pre", "post", "profile"}
    BY <1>3 DEF KeptAt
  <1> QED BY <1>1, <1>2, <1>3, SettingCases DEF Tas!Settings, Everywhere

(* A stream that starts, or is heard again. *)
LEMMA PlayedKept ==
    ASSUME Setting, NEW w \in Nat, NEW t, NEW p, NEW fails \in Tas!Failing, Whole(t, p, w)
    PROVE  LET r == Tas!SetPowerState(t, "active", Tas!Channels, fails)
           IN  Whole(r, TRUE, w) /\ r.fw_state = t.fw_state
  <1> DEFINE r == Tas!SetPowerState(t, "active", Tas!Channels, fails)
             on == Tas!Channels \cap Tas!Opmode(t)
  <1>0. Tas!Channels \in SUBSET Tas!Channels /\ Tas!Opmode(t) \subseteq Tas!Channels /\ 1 \in Tas!Opmode(t)
        /\ 1 \in Tas!Channels /\ 2 \in Tas!Channels /\ t \in TasStates
        /\ \A d \in Tas!Channels : d = 1 \/ d = 2
    BY OpmodeSub DEF Tas!Channels, Whole
  <1>1. WentActive(r, t, on, fails)
    BY <1>0, SetActive, Zenon
  <1>a. on = Tas!Opmode(t) /\ 1 \in on
    BY <1>0
  <1> HIDE DEF r, on
  <1>2. /\ r \in TasStates
        /\ Params(r) = Params(t) /\ r.m_power_state = "active"
        /\ r.detected = t.detected /\ r.irq_count = t.irq_count
        /\ r.irq_work = t.irq_work /\ r.lost = t.lost /\ r.stray = t.stray
        /\ r.disarmed = t.disarmed \cup (on \cap fails)
        /\ Calmer(r, t)
        /\ \A d \in Tas!Channels \ on : r.chip[d] = t.chip[d] /\ r.init_work[d] = t.init_work[d]
    BY <1>1 DEF WentActive
  <1>3. \A d \in on : UpOn(r, t, d, fails)
    BY <1>1 DEF WentActive
  <1>4. PowerAt(t) /\ Remembered(t, w) /\ KeptAt(t, w)
    BY DEF Whole, Core
  <1>5. PowerAt(r)
    BY <1>0, <1>2, <1>4 DEF PowerAt, Calmer
  <1>6. Remembered(r, w)
    BY <1>2, <1>4 DEF Remembered, Params
  <1>7. Tas!Opmode(r) = on
    BY <1>2, <1>a DEF Tas!Opmode, Params
  <1>8. \A d \in Tas!Channels : ArmedAt(r, d)
    <2> SUFFICES ASSUME NEW d \in Tas!Channels, d \in Tas!Opmode(r) \ r.disarmed
                 PROVE  r.init_work[d] # {}
      BY DEF ArmedAt
    <2>1. d \in on /\ d \notin fails
      BY <1>2, <1>7
    <2>2. r.init_work[d] = t.init_work[d] \cup {"pending"}
      BY <1>3, <2>1 DEF UpOn
    <2> QED BY <2>2
  <1>9. \A d \in Tas!Channels \ r.missed : HeardAt(r, d)
    <2> SUFFICES ASSUME NEW d \in Tas!Channels \ r.missed, r.chip[d].intr, r.latched[d] # {}
                 PROVE  r.irq_work
      BY DEF HeardAt
    <2>1. r.chip[d].intr = t.chip[d].intr
      BY <1>2, <1>3 DEF UpOn
    <2>2. t.latched[d] # {} /\ d \notin t.missed
      BY <1>2 DEF Calmer
    <2>3. HeardAt(t, d)
      BY <2>2 DEF Whole
    <2>4. t.irq_work
      BY <2>1, <2>2, <2>3 DEF HeardAt
    <2> QED BY <1>2, <2>4
  <1>10. KeptAt(r, w)
    <2>1. CASE setting \in Everywhere \cup {"anytime", "em"}
      <3>1. \A d \in Tas!Channels : r.chip[d].set = t.chip[d].set
        <4> SUFFICES ASSUME NEW d \in Tas!Channels PROVE r.chip[d].set = t.chip[d].set
          OBVIOUS
        <4>1. CASE d \in on
          BY <1>3, <2>1, <4>1 DEF UpOn, Everywhere
        <4>2. CASE d \notin on
          BY <1>2, <4>2
        <4> QED BY <4>1, <4>2
      <3> QED BY <1>0, <1>2, <1>4, <2>1, <3>1 DEF KeptAt, Everywhere
    <2>2. CASE setting = "pre"
      <3>1. CASE 1 \in fails
        <4>1. r.chip[1] = t.chip[1]
          BY <1>3, <1>a, <3>1 DEF UpOn
        <4>2. t.m_power_state # "active" => t.chip[1].power # "on"
          <5>1. t.m_power_state \in {"active", "mute", "shutdown"}
            BY <1>0 DEF TasStates
          <5> QED BY <1>4, <5>1 DEF PowerAt
        <4> QED BY <1>4, <2>2, <4>1, <4>2 DEF KeptAt
      <3>2. CASE 1 \notin fails
        <4>1. r.chip[1].set = t.curr_val
          BY <1>3, <1>a, <2>2, <3>2 DEF UpOn
        <4>2. t.curr_val = w
          BY <1>4, <2>2 DEF Remembered, Tas!Controls
        <4> QED BY <2>2, <4>1, <4>2 DEF KeptAt
      <3> QED BY <3>1, <3>2
    <2>3. CASE setting = "post"
      <3>1. fails = {}
        BY <2>3, NoFailing
      <3>2. r.init_work[1] = t.init_work[1] \cup {"pending"}
        BY <1>3, <1>a, <3>1 DEF UpOn
      <3>3. r.init_work[1] # {}
        BY <3>2
      <3> QED BY <2>3, <3>3 DEF KeptAt
    <2>4. CASE setting = "profile"
      BY <2>4 DEF KeptAt
    <2> QED BY SettingCases, <2>1, <2>2, <2>3, <2>4 DEF Tas!Settings, Everywhere
  <1>11. SilentAt(r, TRUE)
    BY DEF SilentAt
  <1>12. Whole(r, TRUE, w)
    BY <1>2, <1>5, <1>6, <1>8, <1>9, <1>10, <1>11 DEF Whole, Core
  <1>13. r.fw_state = t.fw_state
    BY <1>2 DEF Params
  <1> QED BY <1>12, <1>13 DEF r

(* What is marked as left on does not matter while a stream plays. *)
LEMMA MarkedKept ==
    ASSUME Setting, NEW w, NEW t, NEW p, Whole(t, p, w), NEW s \in SUBSET Tas!Channels, NEW n,
           ~n => \A c \in Tas!Channels \ s : t.chip[c].power = "off" /\ ~t.chip[c].intr
    PROVE  LET r == [t EXCEPT !.stray = s]
           IN  Whole(r, n, w) /\ r.fw_state = t.fw_state
  <1> DEFINE r == [t EXCEPT !.stray = s]
  <1>0. t \in TasStates /\ PowerAt(t) /\ Remembered(t, w) /\ KeptAt(t, w)
        /\ 1 \in Tas!Channels /\ 2 \in Tas!Channels
    BY DEF Whole, Core, Tas!Channels
  <1>1. /\ r \in TasStates /\ r.stray = s
        /\ Params(r) = Params(t) /\ r.m_power_state = t.m_power_state
        /\ r.chip = t.chip /\ r.latched = t.latched /\ r.detected = t.detected
        /\ r.irq_count = t.irq_count /\ r.irq_work = t.irq_work
        /\ r.init_work = t.init_work /\ r.lost = t.lost /\ r.disarmed = t.disarmed
        /\ r.missed = t.missed
    BY <1>0, WithStray
  <1> HIDE DEF r
  <1>2. PowerAt(r)
    BY <1>0, <1>1 DEF PowerAt, Rested
  <1>3. SilentAt(r, n)
    BY <1>1 DEF SilentAt
  <1>4. Remembered(r, w)
    BY <1>0, <1>1 DEF Remembered, Params
  <1>5. KeptAt(r, w)
    BY <1>0, <1>1, SteadyKept
  <1>6. \A d \in Tas!Channels : ArmedAt(r, d)
    <2>1. Tas!Opmode(r) = Tas!Opmode(t)
      BY <1>1 DEF Params, Tas!Opmode
    <2> QED BY <1>1, <2>1 DEF ArmedAt, Whole
  <1>7. \A d \in Tas!Channels \ r.missed : HeardAt(r, d)
    BY <1>1 DEF HeardAt, Whole
  <1>8. Whole(r, n, w)
    BY <1>1, <1>2, <1>3, <1>4, <1>5, <1>6, <1>7 DEF Whole, Core
  <1>9. r.fw_state = t.fw_state
    BY <1>1 DEF Params
  <1> QED BY <1>8, <1>9 DEF r

LEMMA MutedKept ==
    ASSUME Setting, NEW w, NEW t, NEW p, NEW fails, Whole(t, p, w)
    PROVE  LET r == Tas!SetPowerState(t, "mute", Tas!Channels, fails)
           IN  Whole(r, TRUE, w) /\ r.fw_state = t.fw_state
  <1> DEFINE r == Tas!SetPowerState(t, "mute", Tas!Channels, fails)
             on == Tas!Channels \cap Tas!Opmode(t)
  <1>0. Tas!Channels \in SUBSET Tas!Channels /\ Tas!Opmode(t) \subseteq Tas!Channels /\ 1 \in Tas!Opmode(t)
        /\ 1 \in Tas!Channels /\ 2 \in Tas!Channels /\ t \in TasStates
        /\ \A d \in Tas!Channels : d = 1 \/ d = 2
    BY OpmodeSub DEF Tas!Channels, Whole
  <1>1. WentMute(r, t, on)
    BY <1>0, SetMute, Zenon
  <1>a. on = Tas!Opmode(t) /\ 1 \in on /\ (setting # "profile" => 2 \in on)
    BY <1>0, OpmodeSub
  <1> HIDE DEF r, on
  <1>2. /\ r \in TasStates
        /\ Params(r) = Params(t) /\ r.m_power_state = "mute"
        /\ r.latched = t.latched /\ r.detected = t.detected
        /\ r.irq_count = t.irq_count /\ r.irq_work = t.irq_work
        /\ r.init_work = t.init_work
        /\ r.lost = t.lost /\ r.stray = t.stray /\ r.disarmed = t.disarmed
        /\ r.missed = t.missed
    BY <1>1 DEF WentMute
  <1>3. \A d \in Tas!Channels : r.chip[d].intr = t.chip[d].intr /\ r.chip[d].set = t.chip[d].set
    BY <1>1 DEF WentMute
  <1>4. \A d \in Tas!Channels : r.chip[d].power = IF d \in on /\ t.chip[d].power = "on"
                                                THEN "muted" ELSE t.chip[d].power
    BY <1>1 DEF WentMute
  <1>5. PowerAt(t) /\ Remembered(t, w) /\ KeptAt(t, w)
    BY DEF Whole, Core
  <1>6. PowerAt(r)
    <2>1. r.chip[1].power # "on" /\ (setting # "profile" => r.chip[2].power # "on")
      BY <1>0, <1>4, <1>a
    <2> QED BY <1>0, <1>2, <1>5, <2>1 DEF PowerAt
  <1>7. Remembered(r, w)
    BY <1>2, <1>5 DEF Remembered, Params
  <1>8. KeptAt(r, w)
    BY <1>2, <1>3, <1>5, RestKept
  <1>9. \A d \in Tas!Channels : ArmedAt(r, d)
    BY <1>2 DEF ArmedAt
  <1>10. \A d \in Tas!Channels \ r.missed : HeardAt(r, d)
    BY <1>2, <1>3 DEF HeardAt, Whole
  <1>11. SilentAt(r, TRUE)
    BY DEF SilentAt
  <1>12. Whole(r, TRUE, w)
    BY <1>2, <1>6, <1>7, <1>8, <1>9, <1>10, <1>11 DEF Whole, Core
  <1>13. r.fw_state = t.fw_state
    BY <1>2 DEF Params
  <1> QED BY <1>12, <1>13 DEF r

LEMMA StoppedKept ==
    ASSUME Setting, NEW w, NEW t, NEW p, Whole(t, p, w)
    PROVE  LET r == [Tas!SetPowerState(t, "shutdown", Tas!Channels, {}) EXCEPT !.stray = Tas!Channels \ Tas!Opmode(t)]
           IN  Whole(r, FALSE, w) /\ r.fw_state = t.fw_state
  <1> DEFINE d0 == Tas!SetPowerState(t, "shutdown", Tas!Channels, {})
             on == Tas!Channels \cap Tas!Opmode(t)
             s == Tas!Channels \ Tas!Opmode(t)
             r == [d0 EXCEPT !.stray = s]
  <1>0. Tas!Channels \in SUBSET Tas!Channels /\ Tas!Opmode(t) \subseteq Tas!Channels /\ 1 \in Tas!Opmode(t)
        /\ 1 \in Tas!Channels /\ 2 \in Tas!Channels /\ t \in TasStates
        /\ \A d \in Tas!Channels : d = 1 \/ d = 2
    BY OpmodeSub DEF Tas!Channels, Whole
  <1>1. WentOff(d0, t, on)
    BY <1>0, SetShutdown, Zenon
  <1>a. on = Tas!Opmode(t) /\ 1 \in on /\ (setting # "profile" => 2 \in on) /\ s = Tas!Channels \ on
    BY <1>0, OpmodeSub
  <1> HIDE DEF d0, on, s
  <1>2. /\ d0 \in TasStates
        /\ Params(d0) = Params(t) /\ d0.m_power_state = "shutdown"
        /\ d0.latched = t.latched /\ d0.detected = t.detected
        /\ d0.irq_count = t.irq_count /\ d0.irq_work = t.irq_work
        /\ d0.lost = t.lost /\ d0.disarmed = t.disarmed
        /\ d0.missed = t.missed
        /\ \A d \in Tas!Channels : d0.chip[d].set = t.chip[d].set
        /\ \A d \in Tas!Channels \ on : d0.chip[d] = t.chip[d] /\ d0.init_work[d] = t.init_work[d]
    BY <1>1 DEF WentOff
  <1>3. \A d \in on : d0.chip[d].power = "off" /\ d0.chip[d].intr = FALSE
    BY <1>1 DEF WentOff
  <1>5. PowerAt(t) /\ Remembered(t, w) /\ KeptAt(t, w)
    BY DEF Whole, Core
  <1>6. PowerAt(d0)
    <2>1. d0.chip[1].power = "off" /\ (setting # "profile" => d0.chip[2].power = "off")
      BY <1>0, <1>3, <1>a
    <2> QED BY <1>0, <1>2, <1>5, <2>1 DEF PowerAt
  <1>7. Remembered(d0, w)
    BY <1>2, <1>5 DEF Remembered, Params
  <1>8. KeptAt(d0, w)
    BY <1>2, <1>5, RestKept
  <1>9. \A d \in Tas!Channels : ArmedAt(d0, d)
    BY <1>2 DEF ArmedAt
  <1>10. \A d \in Tas!Channels \ d0.missed : HeardAt(d0, d)
    <2> SUFFICES ASSUME NEW d \in Tas!Channels \ d0.missed, d0.chip[d].intr, d0.latched[d] # {}
                 PROVE  d0.irq_work
      BY DEF HeardAt
    <2>1. d \notin on
      BY <1>3
    <2>2. d0.chip[d] = t.chip[d] /\ d \notin t.missed
      BY <1>2, <2>1
    <2>3. HeardAt(t, d)
      BY <2>2 DEF Whole
    <2> QED BY <1>2, <2>2, <2>3 DEF HeardAt
  <1>11. SilentAt(d0, TRUE)
    BY DEF SilentAt
  <1>12. Whole(d0, TRUE, w)
    BY <1>2, <1>6, <1>7, <1>8, <1>9, <1>10, <1>11 DEF Whole, Core
  <1>13. d0.fw_state = t.fw_state
    BY <1>2 DEF Params
  <1>14. \A c \in Tas!Channels \ s : d0.chip[c].power = "off" /\ ~d0.chip[c].intr
    <2> SUFFICES ASSUME NEW c \in Tas!Channels \ s PROVE d0.chip[c].power = "off" /\ ~d0.chip[c].intr
      OBVIOUS
    <2>1. d0.chip[c].power = "off" /\ d0.chip[c].intr = FALSE
      BY <1>3, <1>a
    <2> QED BY <2>1
  <1>15. s \in SUBSET Tas!Channels
    BY <1>a
  <1>16. Whole(r, FALSE, w) /\ r.fw_state = d0.fw_state
    BY <1>12, <1>14, <1>15, MarkedKept
  <1> QED BY <1>13, <1>16 DEF d0, s

(* A work of an interrupt that is done with, or is given up. *)
LEMMA IdleCore ==
    ASSUME Setting, NEW w, NEW t, NEW p, Whole(t, p, w)
    PROVE  LET r == [t EXCEPT !.irq_work = FALSE]
           IN  /\ r \in TasStates /\ Core(r, p, w) /\ Params(r) = Params(t)
               /\ r.chip = t.chip /\ r.latched = t.latched /\ r.irq_work = FALSE
               /\ r.missed = t.missed
               /\ \A d \in Tas!Channels : ArmedAt(r, d)
  <1> DEFINE r == [t EXCEPT !.irq_work = FALSE]
  <1>0. t \in TasStates /\ PowerAt(t) /\ Remembered(t, w) /\ KeptAt(t, w) /\ SilentAt(t, p)
        /\ 1 \in Tas!Channels /\ 2 \in Tas!Channels /\ FALSE \in BOOLEAN
    BY DEF Whole, Core, Tas!Channels
  <1>1. /\ r \in TasStates /\ r.irq_work = FALSE
        /\ Params(r) = Params(t) /\ r.m_power_state = t.m_power_state
        /\ r.chip = t.chip /\ r.latched = t.latched /\ r.detected = t.detected
        /\ r.irq_count = t.irq_count /\ r.init_work = t.init_work /\ r.lost = t.lost
        /\ r.stray = t.stray /\ r.disarmed = t.disarmed /\ r.missed = t.missed
    BY <1>0, WithWork
  <1> HIDE DEF r
  <1>2. PowerAt(r)
    BY <1>0, <1>1 DEF PowerAt, Rested
  <1>3. SilentAt(r, p)
    BY <1>0, <1>1 DEF SilentAt
  <1>4. Remembered(r, w)
    BY <1>0, <1>1 DEF Remembered, Params
  <1>5. KeptAt(r, w)
    BY <1>0, <1>1, SteadyKept
  <1>6. \A d \in Tas!Channels : ArmedAt(r, d)
    <2>1. Tas!Opmode(r) = Tas!Opmode(t)
      BY <1>1 DEF Params, Tas!Opmode
    <2> QED BY <1>1, <2>1 DEF ArmedAt, Whole
  <1>7. Core(r, p, w)
    BY <1>1, <1>2, <1>3, <1>4, <1>5 DEF Core
  <1> QED BY <1>1, <1>6, <1>7 DEF r

LEMMA IdleKept ==
    ASSUME Setting, NEW w, NEW t, NEW p, Whole(t, p, w), NEW s \in SUBSET Tas!Channels,
           \A c \in Tas!Channels \ s : t.latched[c] = {} \/ ~t.chip[c].intr
    PROVE  LET r == [t EXCEPT !.irq_work = FALSE, !.missed = s]
           IN  Whole(r, p, w) /\ r.fw_state = t.fw_state
  <1> DEFINE x == [t EXCEPT !.irq_work = FALSE]
             r == [x EXCEPT !.missed = s]
  <1>1. /\ x \in TasStates /\ Core(x, p, w) /\ Params(x) = Params(t)
        /\ x.chip = t.chip /\ x.latched = t.latched /\ x.irq_work = FALSE
        /\ \A d \in Tas!Channels : ArmedAt(x, d)
    BY IdleCore
  <1>2. [t EXCEPT !.irq_work = FALSE, !.missed = s] = r
    BY DEF Whole, TasStates
  <1> HIDE DEF x
  <1>3. /\ r \in TasStates /\ r.missed = s /\ Core(r, p, w)
        /\ r.chip = x.chip /\ r.latched = x.latched /\ r.irq_work = x.irq_work
        /\ Params(r) = Params(x)
        /\ \A d \in Tas!Channels : ArmedAt(x, d) => ArmedAt(r, d)
    BY <1>1, MissedCore
  <1> HIDE DEF r
  <1>4. \A d \in Tas!Channels \ r.missed : HeardAt(r, d)
    BY <1>1, <1>3 DEF HeardAt
  <1>5. Whole(r, p, w) /\ r.fw_state = t.fw_state
    BY <1>1, <1>3, <1>4 DEF Whole, Params
  <1> QED BY <1>2, <1>5

LEMMA SuspendKept ==
    ASSUME Setting, NEW w, NEW t, NEW p, Whole(t, p, w)
    PROVE  LET r == [t EXCEPT !.irq_work = FALSE,
                              !.missed = IF t.irq_work
                                           THEN {c \in Tas!Channels : t.latched[c] # {}} ELSE @]
           IN  Whole(r, p, w) /\ r.fw_state = t.fw_state
  <1> DEFINE s == IF t.irq_work THEN {c \in Tas!Channels : t.latched[c] # {}} ELSE t.missed
             r == [t EXCEPT !.irq_work = FALSE, !.missed = s]
  <1>1. s \in SUBSET Tas!Channels
    BY DEF Whole, TasStates
  <1>2. \A c \in Tas!Channels \ s : t.latched[c] = {} \/ ~t.chip[c].intr
    <2> SUFFICES ASSUME NEW c \in Tas!Channels \ s, t.latched[c] # {} PROVE ~t.chip[c].intr
      OBVIOUS
    <2>1. ~t.irq_work /\ c \notin t.missed
      OBVIOUS
    <2>2. HeardAt(t, c)
      BY <2>1 DEF Whole
    <2> QED BY <2>1, <2>2 DEF HeardAt
  <1>3. r = [t EXCEPT !.irq_work = FALSE,
                      !.missed = IF t.irq_work
                                   THEN {c \in Tas!Channels : t.latched[c] # {}} ELSE @]
    OBVIOUS
  <1> HIDE DEF s
  <1>4. Whole(r, p, w) /\ r.fw_state = t.fw_state
    BY <1>1, <1>2, IdleKept
  <1> QED BY <1>3, <1>4

(* A chip that is on reports a fault. *)
Faulted(t, c, k) ==
    [t EXCEPT !.latched[c] = @ \cup {k}, !.missed = @ \ {c}, !.irq_work = @ \/ t.chip[c].intr]

LEMMA FaultKept ==
    ASSUME Setting, NEW w \in Nat, NEW t, NEW p, Whole(t, p, w), NEW c \in Tas!Channels, NEW k \in Kinds,
           c = 1 \/ setup = "hardware", t.chip[c].power # "off"
    PROVE  Held(Faulted(t, c, k), t, p, w)
  <1> DEFINE l == [t.latched EXCEPT ![c] = @ \cup {k}]
             x == [t EXCEPT !.latched = l]
             s == t.missed \ {c}
             y == [x EXCEPT !.missed = s]
             b == (t.irq_work \/ t.chip[c].intr)
             r == [y EXCEPT !.irq_work = b]
  <1>0. t \in TasStates /\ PowerAt(t) /\ Remembered(t, w) /\ KeptAt(t, w) /\ SilentAt(t, p)
        /\ 1 \in Tas!Channels /\ 2 \in Tas!Channels /\ \A d \in Tas!Channels : d = 1 \/ d = 2
    BY DEF Whole, Core, Tas!Channels
  <1>1. /\ l \in [Tas!Channels -> SUBSET Kinds] /\ \A d \in Tas!Channels \ {c} : l[d] = t.latched[d]
    BY <1>0 DEF TasStates
  <1>2. s \in SUBSET Tas!Channels
    BY <1>0 DEF TasStates
  <1>3. b \in BOOLEAN
    OBVIOUS
  <1> HIDE DEF l
  <1>4. /\ x \in TasStates /\ x.latched = l
        /\ Params(x) = Params(t) /\ x.m_power_state = t.m_power_state
        /\ x.chip = t.chip /\ x.detected = t.detected /\ x.irq_count = t.irq_count
        /\ x.irq_work = t.irq_work /\ x.init_work = t.init_work /\ x.lost = t.lost
        /\ x.stray = t.stray /\ x.disarmed = t.disarmed /\ x.missed = t.missed
    BY <1>0, <1>1, WithLatched
  <1>a. Faulted(t, c, k) = r
    BY <1>0 DEF TasStates, Faulted, l
  <1> HIDE DEF x
  <1>5. /\ y \in TasStates /\ y.missed = s
        /\ Params(y) = Params(x) /\ y.m_power_state = x.m_power_state
        /\ y.chip = x.chip /\ y.latched = x.latched /\ y.detected = x.detected
        /\ y.irq_count = x.irq_count /\ y.irq_work = x.irq_work
        /\ y.init_work = x.init_work /\ y.lost = x.lost /\ y.stray = x.stray
        /\ y.disarmed = x.disarmed
    <2> HIDE DEF s
    <2> QED BY <1>2, <1>4, WithMissed
  <1> HIDE DEF y
  <1>6. /\ r \in TasStates /\ r.irq_work = b
        /\ Params(r) = Params(y) /\ r.m_power_state = y.m_power_state
        /\ r.chip = y.chip /\ r.latched = y.latched /\ r.detected = y.detected
        /\ r.irq_count = y.irq_count /\ r.init_work = y.init_work /\ r.lost = y.lost
        /\ r.stray = y.stray /\ r.disarmed = y.disarmed /\ r.missed = y.missed
    <2> HIDE DEF b
    <2> QED BY <1>3, <1>5, WithWork
  <1>7. r.irq_work = (t.irq_work \/ t.chip[c].intr)
    BY <1>6
  <1> HIDE DEF r, b
  <1>8. /\ r \in TasStates /\ r.missed = s
        /\ Params(r) = Params(t) /\ r.m_power_state = t.m_power_state
        /\ r.chip = t.chip /\ r.latched = l /\ r.detected = t.detected
        /\ r.irq_count = t.irq_count /\ r.init_work = t.init_work /\ r.lost = t.lost
        /\ r.stray = t.stray /\ r.disarmed = t.disarmed
    BY <1>4, <1>5, <1>6
  <1>9. PowerAt(r)
    <2>1. setup # "hardware" => c = 1
      OBVIOUS
    <2>2. c = 1 => t.m_power_state # "shutdown"
      BY <1>0 DEF PowerAt
    <2>3. setup # "hardware" => r.latched[2] = {} /\ r.detected[2] = {}
      BY <1>0, <1>1, <1>8, <2>1 DEF PowerAt
    <2>4. ~(r.m_power_state = "shutdown" /\ setting # "profile" /\ r.chip[2].power = "on")
          \/ setup = "shutdown" \/ (setup = "clock" /\ Rested(r))
      <3>1. CASE c = 1
        BY <1>8, <2>2, <3>1
      <3>2. CASE c = 2
        BY <1>0, <1>8, <3>2 DEF PowerAt
      <3> QED BY <1>0, <3>1, <3>2
    <2> QED BY <1>0, <1>8, <2>3, <2>4 DEF PowerAt
  <1>10. SilentAt(r, p)
    BY <1>0, <1>8 DEF SilentAt
  <1>11. Remembered(r, w)
    BY <1>0, <1>8 DEF Remembered, Params
  <1>12. KeptAt(r, w)
    BY <1>0, <1>8, SteadyKept
  <1>13. \A d \in Tas!Channels : ArmedAt(r, d)
    <2>1. Tas!Opmode(r) = Tas!Opmode(t)
      BY <1>8 DEF Params, Tas!Opmode
    <2> QED BY <1>8, <2>1 DEF ArmedAt, Whole
  <1>14. \A d \in Tas!Channels \ r.missed : HeardAt(r, d)
    <2> SUFFICES ASSUME NEW d \in Tas!Channels \ r.missed, r.chip[d].intr, r.latched[d] # {}
                 PROVE  r.irq_work
      BY DEF HeardAt
    <2>1. CASE d = c
      BY <1>7, <1>8, <2>1
    <2>2. CASE d # c
      <3>1. d \notin t.missed /\ t.chip[d].intr /\ t.latched[d] # {}
        BY <1>1, <1>8, <2>2
      <3>2. HeardAt(t, d)
        BY <3>1 DEF Whole
      <3> QED BY <1>7, <3>1, <3>2 DEF HeardAt
    <2> QED BY <2>1, <2>2
  <1>15. Whole(r, p, w)
    BY <1>8, <1>9, <1>10, <1>11, <1>12, <1>13, <1>14 DEF Whole, Core
  <1>16. r.fw_state = t.fw_state
    BY <1>8 DEF Params
  <1>17. Held(r, t, p, w)
    BY <1>15, <1>16 DEF Held
  <1> QED BY <1>a, <1>17

(* What is queued to end the power-ups is another, and nothing else changes. *)
Requeued(r, t, q) ==
    /\ r \in TasStates /\ r.init_work = q
    /\ Params(r) = Params(t) /\ r.m_power_state = t.m_power_state
    /\ r.chip = t.chip /\ r.latched = t.latched /\ r.detected = t.detected
    /\ r.irq_count = t.irq_count /\ r.irq_work = t.irq_work /\ r.lost = t.lost
    /\ r.stray = t.stray /\ r.disarmed = t.disarmed /\ r.missed = t.missed

LEMMA RequeuedParts ==
    ASSUME Setting, NEW w, NEW t, NEW p, Whole(t, p, w), NEW r, NEW q, Requeued(r, t, q)
    PROVE  /\ PowerAt(r) /\ SilentAt(r, p) /\ Remembered(r, w)
           /\ \A d \in Tas!Channels \ r.missed : HeardAt(r, d)
           /\ \A d \in Tas!Channels : q[d] = t.init_work[d] \/ q[d] # {} => ArmedAt(r, d)
           /\ (q[1] = t.init_work[1] \/ q[1] # {} => KeptAt(r, w))
           /\ (setting # "post" \/ r.m_power_state # "active" => KeptAt(r, w))
  <1>0. t \in TasStates /\ PowerAt(t) /\ Remembered(t, w) /\ KeptAt(t, w) /\ SilentAt(t, p)
        /\ 1 \in Tas!Channels /\ 2 \in Tas!Channels /\ \A d \in Tas!Channels : d = 1 \/ d = 2
    BY DEF Whole, Core, Tas!Channels
  <1>1. /\ r \in TasStates /\ r.init_work = q
        /\ Params(r) = Params(t) /\ r.m_power_state = t.m_power_state
        /\ r.chip = t.chip /\ r.latched = t.latched /\ r.detected = t.detected
        /\ r.irq_count = t.irq_count /\ r.irq_work = t.irq_work /\ r.lost = t.lost
        /\ r.stray = t.stray /\ r.disarmed = t.disarmed /\ r.missed = t.missed
    BY DEF Requeued
  <1>2. PowerAt(r)
    BY <1>0, <1>1 DEF PowerAt, Rested
  <1>3. SilentAt(r, p)
    BY <1>0, <1>1 DEF SilentAt
  <1>4. Remembered(r, w)
    BY <1>0, <1>1 DEF Remembered, Params
  <1>5. \A d \in Tas!Channels \ r.missed : HeardAt(r, d)
    BY <1>1 DEF HeardAt, Whole
  <1>6. \A d \in Tas!Channels : q[d] = t.init_work[d] \/ q[d] # {} => ArmedAt(r, d)
    <2>1. Tas!Opmode(r) = Tas!Opmode(t)
      BY <1>1 DEF Params, Tas!Opmode
    <2> QED BY <1>1, <2>1 DEF ArmedAt, Whole
  <1>7. setting # "post" \/ r.m_power_state # "active" => KeptAt(r, w)
    <2>1. CASE setting \in Everywhere \cup {"anytime", "em", "pre"}
      BY <1>0, <1>1, <2>1 DEF KeptAt, Everywhere
    <2>2. CASE setting \in {"post", "profile"}
      BY <2>2 DEF KeptAt
    <2> QED BY <2>1, <2>2, SettingCases DEF Tas!Settings, Everywhere
  <1>8. q[1] = t.init_work[1] \/ q[1] # {} => KeptAt(r, w)
    <2>1. CASE setting = "post"
      BY <1>0, <1>1, <2>1 DEF KeptAt
    <2> QED BY <1>7, <2>1
  <1> QED BY <1>2, <1>3, <1>4, <1>5, <1>6, <1>7, <1>8

LEMMA RequeuedSome ==
    ASSUME NEW t \in TasStates, NEW c \in Tas!Channels, NEW s \in SUBSET {"pending", "started"}
    PROVE  Requeued([t EXCEPT !.init_work[c] = s], t, [t.init_work EXCEPT ![c] = s])
  <1> DEFINE q == [t.init_work EXCEPT ![c] = s]
             r == [t EXCEPT !.init_work = q]
  <1>1. q \in [Tas!Channels -> SUBSET {"pending", "started"}] /\ q[c] = s
        /\ \A d \in Tas!Channels \ {c} : q[d] = t.init_work[d]
    BY DEF TasStates
  <1>2. r = [t EXCEPT !.init_work[c] = s]
    OBVIOUS
  <1> HIDE DEF q
  <1>3. /\ r \in TasStates /\ r.init_work = q
        /\ Params(r) = Params(t) /\ r.m_power_state = t.m_power_state
        /\ r.chip = t.chip /\ r.latched = t.latched /\ r.detected = t.detected
        /\ r.irq_count = t.irq_count /\ r.irq_work = t.irq_work /\ r.lost = t.lost
        /\ r.stray = t.stray /\ r.disarmed = t.disarmed /\ r.missed = t.missed
    BY <1>1, WithInit
  <1> HIDE DEF r
  <1>4. Requeued(r, t, q)
    BY <1>3 DEF Requeued
  <1> QED BY <1>1, <1>2, <1>4 DEF q

LEMMA StartsKept ==
    ASSUME Setting, NEW w, NEW t, NEW p, Whole(t, p, w), NEW c \in Tas!Channels
    PROVE  LET r == [t EXCEPT !.init_work[c] = {"started"}]
           IN  Whole(r, p, w) /\ r.fw_state = t.fw_state
  <1> DEFINE s == {"started"}
             q == [t.init_work EXCEPT ![c] = s]
             r == [t EXCEPT !.init_work[c] = s]
  <1>1. t \in TasStates /\ s \in SUBSET {"pending", "started"} /\ s # {} /\ 1 \in Tas!Channels
    BY DEF Whole, Tas!Channels
  <1> HIDE DEF s
  <1>2. Requeued(r, t, q)
    BY <1>1, RequeuedSome
  <1>2a. q[c] = s /\ \A d \in Tas!Channels \ {c} : q[d] = t.init_work[d]
    BY <1>1 DEF TasStates
  <1> HIDE DEF q, r
  <1>3. \A d \in Tas!Channels : q[d] = t.init_work[d] \/ q[d] # {}
    BY <1>1, <1>2a
  <1>4. /\ PowerAt(r) /\ SilentAt(r, p) /\ Remembered(r, w)
        /\ \A d \in Tas!Channels \ r.missed : HeardAt(r, d)
        /\ \A d \in Tas!Channels : q[d] = t.init_work[d] \/ q[d] # {} => ArmedAt(r, d)
        /\ (q[1] = t.init_work[1] \/ q[1] # {} => KeptAt(r, w))
    BY <1>2, RequeuedParts
  <1>5. KeptAt(r, w) /\ \A d \in Tas!Channels : ArmedAt(r, d)
    BY <1>1, <1>3, <1>4
  <1>6. Whole(r, p, w) /\ r.fw_state = t.fw_state
    BY <1>2, <1>4, <1>5 DEF Whole, Core, Requeued, Params
  <1> QED BY <1>6 DEF r, s

(* Interrupts of a chip are allowed with what it already reported. *)
LEMMA EnabledCore ==
    ASSUME Setting, Tas!TasAssumption, NEW t \in TasStates, NEW c \in Tas!Channels, NEW p, NEW w,
           Core(t, p, w), p \/ c \in t.stray,
           \A d \in Tas!Channels \ {c} : ArmedAt(t, d),
           \A d \in Tas!Channels \ ({c} \cup t.missed) : HeardAt(t, d)
    PROVE  Whole(Tas!InterruptEnable(t, c), p, w)
  <1> DEFINE r == Tas!InterruptEnable(t, c)
  <1>0. Enabled(r, t, c)
    BY EnableEffect
  <1> HIDE DEF r
  <1>1. /\ r \in TasStates
        /\ r.chip[c].power = t.chip[c].power /\ r.chip[c].set = t.chip[c].set
        /\ \A d \in Tas!Channels \ {c} : r.chip[d] = t.chip[d]
        /\ r.irq_count[c] = 0
        /\ \A d \in Tas!Channels \ {c} : r.irq_count[d] = t.irq_count[d]
        /\ r.disarmed = t.disarmed \ {c}
        /\ Params(r) = Params(t) /\ r.m_power_state = t.m_power_state
        /\ r.latched = t.latched /\ r.detected = t.detected /\ r.missed = t.missed
        /\ r.init_work = t.init_work /\ r.lost = t.lost /\ r.stray = t.stray
    BY <1>0, Zenon DEF Enabled
  <1>2. r.chip[c].intr = TRUE
    BY <1>0, Zenon DEF Enabled
  <1>w. r.irq_work = (t.irq_work \/ t.latched[c] # {})
    BY <1>0, Zenon DEF Enabled
  <1>3. 1 \in Tas!Channels /\ 2 \in Tas!Channels
    BY DEF Tas!Channels
  <1>4. \A d \in Tas!Channels : r.chip[d].power = t.chip[d].power /\ r.chip[d].set = t.chip[d].set
    BY <1>1
  <1>5. \A d \in Tas!Channels : r.irq_count[d] <= IrqLimit
    <2>1. t.irq_count \in [Tas!Channels -> Nat] /\ 0 <= IrqLimit
      BY DEF TasStates, Tas!TasAssumption
    <2>2. \A d \in Tas!Channels : r.irq_count[d] = 0 \/ r.irq_count[d] = t.irq_count[d]
      BY <1>1, <2>1
    <2> QED BY <2>1, <2>2 DEF Core, PowerAt
  <1>6. PowerAt(r)
    <2>1. PowerAt(t)
      BY DEF Core
    <2> QED BY <1>1, <1>3, <1>4, <1>5, <2>1 DEF PowerAt, Rested
  <1>7. SilentAt(r, p)
    <2> SUFFICES ASSUME ~p, NEW d \in Tas!Channels \ r.stray
                 PROVE  r.chip[d].power = "off" /\ ~r.chip[d].intr
      BY DEF SilentAt
    <2>1. d # c
      BY <1>1
    <2>2. r.chip[d] = t.chip[d]
      BY <1>1, <2>1
    <2> QED BY <1>1, <2>2 DEF Core, SilentAt
  <1>8. Remembered(r, w)
    BY <1>1 DEF Core, Remembered, Params
  <1>9. KeptAt(r, w)
    BY <1>1, <1>3, <1>4, SteadyKept DEF Core
  <1>10. ArmedAt(r, c)
    BY <1>2, Zenon DEF ArmedAt
  <1>11. \A d \in Tas!Channels \ {c} : ArmedAt(r, d)
    <2> SUFFICES ASSUME NEW d \in Tas!Channels \ {c}, r.m_power_state = "active",
                        d \in Tas!Opmode(r) \ r.disarmed, r.chip[d].power = "on"
                 PROVE  r.chip[d].intr \/ r.init_work[d] # {}
      BY DEF ArmedAt
    <2>1. Tas!Opmode(r) = Tas!Opmode(t)
      BY <1>1 DEF Params, Tas!Opmode
    <2>2. /\ t.m_power_state = "active" /\ d \in Tas!Opmode(t) \ t.disarmed
          /\ r.chip[d] = t.chip[d] /\ r.init_work = t.init_work
      BY <1>1, <2>1
    <2> QED BY <2>2 DEF ArmedAt
  <1>12. \A d \in Tas!Channels \ r.missed : HeardAt(r, d)
    <2> SUFFICES ASSUME NEW d \in Tas!Channels \ r.missed, r.chip[d].intr, r.latched[d] # {}
                 PROVE  r.irq_work
      BY DEF HeardAt
    <2>1. CASE d = c
      BY <1>1, <1>w, <2>1
    <2>2. CASE d # c
      <3>1. HeardAt(t, d) /\ t.chip[d].intr /\ t.latched[d] # {}
        BY <1>1, <2>2
      <3>2. t.irq_work
        BY <3>1 DEF HeardAt
      <3> QED BY <1>w, <3>2
    <2> QED BY <2>1, <2>2
  <1>13. Whole(r, p, w)
    BY <1>1, <1>6, <1>7, <1>8, <1>9, <1>10, <1>11, <1>12 DEF Core, Whole
  <1> QED BY <1>13 DEF r

(* What a chip reported is forgotten. *)
LEMMA ClearCore ==
    ASSUME Setting, NEW t \in TasStates, NEW c \in Tas!Channels, NEW p, NEW w, Core(t, p, w),
           \A d \in Tas!Channels \ {c} : ArmedAt(t, d),
           \A d \in Tas!Channels \ ({c} \cup t.missed) : HeardAt(t, d)
    PROVE  LET r == Tas!InterruptClear(t, c)
           IN  /\ r \in TasStates /\ Core(r, p, w) /\ r.stray = t.stray /\ Params(r) = Params(t)
               /\ \A d \in Tas!Channels \ {c} : ArmedAt(r, d)
               /\ \A d \in Tas!Channels \ ({c} \cup r.missed) : HeardAt(r, d)
  <1> DEFINE r == Tas!InterruptClear(t, c)
  <1>1. /\ r \in TasStates /\ r.latched[c] = {} /\ r.missed = t.missed \ {c}
        /\ Params(r) = Params(t) /\ r.m_power_state = t.m_power_state
        /\ r.chip = t.chip /\ r.detected = t.detected /\ r.irq_count = t.irq_count
        /\ r.irq_work = t.irq_work /\ r.init_work = t.init_work /\ r.lost = t.lost
        /\ r.stray = t.stray /\ r.disarmed = t.disarmed
    BY ClearEffect
  <1>2. \A d \in Tas!Channels \ {c} : r.latched[d] = t.latched[d]
    BY ClearEffect
  <1> HIDE DEF r
  <1>3. Tamer(r, t, c)
    <2>1. \A d \in Tas!Channels : r.latched[d] = t.latched[d] \/ r.latched[d] = {}
      BY <1>1, <1>2
    <2> QED BY <1>1, <2>1 DEF Tamer
  <1>4. \A d \in Tas!Channels : r.irq_count[d] <= IrqLimit
    BY <1>1 DEF Core, PowerAt
  <1>5. KeptAt(r, w)
    BY <1>1, SteadyKept DEF Core
  <1>6. Core(r, p, w) /\ \A d \in Tas!Channels \ {c} : ArmedAt(t, d) => ArmedAt(r, d)
    BY <1>1, <1>3, <1>4, <1>5, TamerCore
  <1>7. \A d \in Tas!Channels \ ({c} \cup r.missed) : HeardAt(r, d)
    BY <1>1, <1>2 DEF HeardAt
  <1> QED BY <1>1, <1>6, <1>7 DEF r

(* The work that ends a power-up, after what is only written in the first channel's. *)
LEMMA InitEnds ==
    ASSUME Setting, Tas!TasAssumption, NEW a \in TasStates, NEW c \in Tas!Channels, NEW p, NEW w,
           Core(a, p, w), p \/ c \in a.stray, NEW kinds,
           \A d \in Tas!Channels \ {c} : ArmedAt(a, d),
           \A d \in Tas!Channels \ ({c} \cup a.missed) : HeardAt(a, d)
    PROVE  LET b == Tas!Detect(a, c)
               r == Tas!InterruptEnable(IF kinds = {"clock"} THEN Tas!InterruptClear(b, c) ELSE b, c)
           IN  Whole(r, p, w) /\ r.fw_state = a.fw_state
  <1> DEFINE b == Tas!Detect(a, c)
             f == Tas!InterruptClear(b, c)
             e == IF kinds = {"clock"} THEN f ELSE b
             r == Tas!InterruptEnable(e, c)
  <1>1. /\ b \in TasStates /\ Core(b, p, w) /\ b.chip = a.chip /\ b.latched = a.latched
        /\ Params(b) = Params(a) /\ b.irq_work = a.irq_work
        /\ \A d \in Tas!Channels : ArmedAt(a, d) => ArmedAt(b, d)
    BY DetectCore
  <1>2. b.stray = a.stray /\ b.missed = a.missed
    BY DetectEffect
  <1> HIDE DEF b
  <1>3. /\ \A d \in Tas!Channels \ {c} : ArmedAt(b, d)
        /\ \A d \in Tas!Channels \ ({c} \cup b.missed) : HeardAt(b, d)
    BY <1>1, <1>2 DEF HeardAt
  <1>4. /\ f \in TasStates /\ Core(f, p, w) /\ f.stray = b.stray /\ Params(f) = Params(b)
        /\ \A d \in Tas!Channels \ {c} : ArmedAt(f, d)
        /\ \A d \in Tas!Channels \ ({c} \cup f.missed) : HeardAt(f, d)
    BY <1>1, <1>3, ClearCore
  <1> HIDE DEF f
  <1>5. /\ e \in TasStates /\ Core(e, p, w) /\ (p \/ c \in e.stray) /\ Params(e) = Params(a)
        /\ \A d \in Tas!Channels \ {c} : ArmedAt(e, d)
        /\ \A d \in Tas!Channels \ ({c} \cup e.missed) : HeardAt(e, d)
    <2>1. CASE kinds = {"clock"}
      <3>1. e = f
        BY <2>1
      <3> HIDE DEF e
      <3> QED BY <1>1, <1>2, <1>4, <3>1
    <2>2. CASE kinds # {"clock"}
      <3>1. e = b
        BY <2>2
      <3> HIDE DEF e
      <3> QED BY <1>1, <1>2, <1>3, <3>1
    <2> QED BY <2>1, <2>2
  <1> HIDE DEF e
  <1>6. Whole(r, p, w)
    BY <1>5, EnabledCore
  <1>7. Params(r) = Params(e)
    <2>1. Enabled(r, e, c)
      BY <1>5, EnableEffect
    <2> QED BY <2>1, Zenon DEF Enabled
  <1>8. r.fw_state = a.fw_state
    BY <1>5, <1>7 DEF Params
  <1> QED BY <1>6, <1>8 DEF r, e, f, b

(* All but what the settings of a control are. *)
Nearly(r, t, c, p, w) ==
    /\ r \in TasStates /\ PowerAt(r) /\ SilentAt(r, p) /\ Remembered(r, w)
    /\ Params(r) = Params(t) /\ (p \/ c \in r.stray)
    /\ \A d \in Tas!Channels \ {c} : ArmedAt(r, d)
    /\ \A d \in Tas!Channels \ ({c} \cup r.missed) : HeardAt(r, d)
    /\ (setting # "post" \/ c # 1 => KeptAt(r, w))

MarkedOff(t, c, p) == IF ~p THEN [t EXCEPT !.stray = @ \cup {c}] ELSE t

(* One channel's work is another. *)
OneRequeued(t, o, c, q) ==
    Requeued(t, o, q) /\ \A d \in Tas!Channels \ {c} : q[d] = o.init_work[d]

LEMMA NearlyMarked ==
    ASSUME Setting, NEW o, NEW t, NEW c \in Tas!Channels, NEW q, NEW w, NEW p,
           Whole(o, p, w), OneRequeued(t, o, c, q)
    PROVE  Nearly(MarkedOff(t, c, p), o, c, p, w)
  <1>r. Requeued(t, o, q) /\ \A d \in Tas!Channels \ {c} : q[d] = o.init_work[d]
    BY DEF OneRequeued
  <1>0. t \in TasStates /\ Params(t) = Params(o) /\ t.missed = o.missed
        /\ 1 \in Tas!Channels /\ 2 \in Tas!Channels /\ \A d \in Tas!Channels : d = 1 \/ d = 2
    BY <1>r DEF Requeued, Tas!Channels
  <1>1. /\ PowerAt(t) /\ SilentAt(t, p) /\ Remembered(t, w)
        /\ \A d \in Tas!Channels \ t.missed : HeardAt(t, d)
        /\ \A d \in Tas!Channels : q[d] = o.init_work[d] \/ q[d] # {} => ArmedAt(t, d)
        /\ (q[1] = o.init_work[1] \/ q[1] # {} => KeptAt(t, w))
        /\ (setting # "post" \/ t.m_power_state # "active" => KeptAt(t, w))
    BY <1>r, RequeuedParts
  <1>2. setting # "post" \/ c # 1 => KeptAt(t, w)
    BY <1>0, <1>1, <1>r
  <1>3. \A d \in Tas!Channels \ {c} : ArmedAt(t, d)
    BY <1>1, <1>r
  <1>4. CASE p
    BY <1>0, <1>1, <1>2, <1>3, <1>4 DEF Nearly, MarkedOff
  <1>5. CASE ~p
    <2> DEFINE s == t.stray \cup {c}
               u == [t EXCEPT !.stray = s]
    <2>1. s \in SUBSET Tas!Channels /\ c \in s /\ t.stray \subseteq s
      BY <1>0 DEF TasStates
    <2> HIDE DEF s
    <2>2. /\ u \in TasStates /\ u.stray = s
          /\ Params(u) = Params(t) /\ u.m_power_state = t.m_power_state
          /\ u.chip = t.chip /\ u.latched = t.latched /\ u.detected = t.detected
          /\ u.irq_count = t.irq_count /\ u.irq_work = t.irq_work
          /\ u.init_work = t.init_work /\ u.lost = t.lost /\ u.disarmed = t.disarmed
          /\ u.missed = t.missed
      BY <1>0, <2>1, WithStray
    <2> HIDE DEF u
    <2>3. PowerAt(u)
      BY <1>0, <1>1, <2>2 DEF PowerAt, Rested
    <2>4. SilentAt(u, p)
      BY <1>1, <2>1, <2>2 DEF SilentAt
    <2>5. Remembered(u, w)
      BY <1>1, <2>2 DEF Remembered, Params
    <2>6. setting # "post" \/ c # 1 => KeptAt(u, w)
      BY <1>2, <2>2, SteadyKept
    <2>7. \A d \in Tas!Channels \ {c} : ArmedAt(u, d)
      <3>1. Tas!Opmode(u) = Tas!Opmode(t)
        BY <2>2 DEF Params, Tas!Opmode
      <3> QED BY <1>3, <2>2, <3>1 DEF ArmedAt
    <2>8. \A d \in Tas!Channels \ ({c} \cup u.missed) : HeardAt(u, d)
      BY <1>1, <2>2 DEF HeardAt
    <2>9. Nearly(u, o, c, p, w)
      BY <1>0, <2>1, <2>2, <2>3, <2>4, <2>5, <2>6, <2>7, <2>8 DEF Nearly
    <2> QED BY <1>5, <2>9 DEF u, s, MarkedOff
  <1> QED BY <1>4, <1>5

LEMMA InitFuncKept ==
    ASSUME Setting, Tas!TasAssumption, NEW o, NEW u, NEW c \in Tas!Channels, NEW w, NEW p,
           Nearly(u, o, c, p, w)
    PROVE  LET r == Tas!InitWorkFunc(u, c)
           IN  Whole(r, p, w) /\ r.fw_state = o.fw_state
  <1> DEFINE k == Tas!UpdateKcontrolData(u, "post")
             a == IF c = 1 THEN k ELSE u
  <1>0. u \in TasStates /\ 1 \in Tas!Channels /\ \A d \in Tas!Channels : d = 1 \/ d = 2
    BY DEF Nearly, Tas!Channels
  <1>1. /\ a \in TasStates /\ Core(a, p, w) /\ (p \/ c \in a.stray) /\ Params(a) = Params(o)
        /\ \A d \in Tas!Channels \ {c} : ArmedAt(a, d)
        /\ \A d \in Tas!Channels \ ({c} \cup a.missed) : HeardAt(a, d)
    <2>1. CASE c # 1
      <3>1. a = u
        BY <2>1
      <3> HIDE DEF a
      <3> QED BY <2>1, <3>1 DEF Nearly, Core
    <2>2. CASE c = 1
      <3>1. /\ k \in TasStates
            /\ k.chip[1].set = IF setting = "post" THEN u.curr_val ELSE u.chip[1].set
            /\ k.chip[1].power = u.chip[1].power /\ k.chip[1].intr = u.chip[1].intr
            /\ k.chip[2] = u.chip[2]
            /\ Params(k) = Params(u) /\ k.m_power_state = u.m_power_state
            /\ k.latched = u.latched /\ k.detected = u.detected
            /\ k.irq_count = u.irq_count /\ k.irq_work = u.irq_work
            /\ k.init_work = u.init_work /\ k.lost = u.lost /\ k.stray = u.stray
            /\ k.disarmed = u.disarmed /\ k.missed = u.missed
        BY <1>0, KcontrolEffect
      <3>2. a = k
        BY <2>2
      <3> HIDE DEF a, k
      <3>3. PowerAt(u) /\ SilentAt(u, p) /\ Remembered(u, w)
        BY DEF Nearly
      <3>4. PowerAt(k)
        BY <1>0, <3>1, <3>3 DEF PowerAt, Rested
      <3>5. SilentAt(k, p)
        BY <1>0, <3>1, <3>3 DEF SilentAt
      <3>6. Remembered(k, w)
        BY <3>1, <3>3 DEF Remembered, Params
      <3>7. KeptAt(k, w)
        <4>1. CASE setting = "post"
          <5>1. u.curr_val = w
            BY <3>3, <4>1 DEF Remembered, Tas!Controls
          <5> QED BY <3>1, <4>1, <5>1 DEF KeptAt
        <4>2. CASE setting # "post"
          <5>1. KeptAt(u, w)
            BY <4>2 DEF Nearly
          <5>2. \A d \in Tas!Channels : k.chip[d].set = u.chip[d].set
            BY <1>0, <3>1, <4>2
          <5> QED BY <3>1, <5>1, <5>2, SteadyKept
        <4> QED BY <4>1, <4>2
      <3>8. \A d \in Tas!Channels \ {c} : ArmedAt(k, d)
        <4>1. Tas!Opmode(k) = Tas!Opmode(u)
          BY <3>1 DEF Params, Tas!Opmode
        <4>2. \A d \in Tas!Channels : k.chip[d].power = u.chip[d].power /\ k.chip[d].intr = u.chip[d].intr
          BY <1>0, <3>1
        <4>3. \A d \in Tas!Channels \ {c} : ArmedAt(u, d)
          BY DEF Nearly
        <4> QED BY <3>1, <4>1, <4>2, <4>3 DEF ArmedAt
      <3>9. \A d \in Tas!Channels \ ({c} \cup k.missed) : HeardAt(k, d)
        <4>1. \A d \in Tas!Channels \ ({c} \cup u.missed) : HeardAt(u, d)
          BY DEF Nearly
        <4> QED BY <1>0, <2>2, <3>1, <4>1 DEF HeardAt
      <3>10. Core(k, p, w)
        BY <3>1, <3>4, <3>5, <3>6, <3>7 DEF Core
      <3>11. (p \/ c \in k.stray) /\ Params(k) = Params(o)
        BY <3>1 DEF Nearly
      <3> QED BY <3>1, <3>2, <3>8, <3>9, <3>10, <3>11
    <2> QED BY <2>1, <2>2
  <1> DEFINE b == Tas!Detect(a, c)
             kinds == Tas!InterruptRead(a, c)
             r == Tas!InterruptEnable(IF kinds = {"clock"} THEN Tas!InterruptClear(b, c) ELSE b, c)
  <1>2. Tas!InitWorkFunc(u, c) = r
    BY DEF Tas!InitWorkFunc
  <1> HIDE DEF a
  <1>3. Whole(r, p, w) /\ r.fw_state = a.fw_state
    <2> HIDE DEF kinds
    <2> QED BY <1>1, InitEnds
  <1> HIDE DEF r
  <1>4. a.fw_state = o.fw_state
    BY <1>1 DEF Params
  <1> QED BY <1>2, <1>3, <1>4

(* A work that ends a power-up while the registers are not written to. *)
Cached(t, c) ==
    [Tas!Armless(t, c) EXCEPT !.irq_count[c] = 0, !.lost = @ \/ (setting = "post" /\ c = 1)]

LEMMA InitCachedKept ==
    ASSUME Setting, Tas!TasAssumption, NEW o, NEW t, NEW c \in Tas!Channels, NEW q, NEW w \in Nat, NEW p,
           Whole(o, p, w), OneRequeued(t, o, c, q)
    PROVE  Held(Cached(t, c), o, p, w)
  <1>r. Requeued(t, o, q) /\ \A d \in Tas!Channels \ {c} : q[d] = o.init_work[d]
    BY DEF OneRequeued
  <1> DEFINE a == Tas!Armless(t, c)
             n == [a.irq_count EXCEPT ![c] = 0]
             x == [a EXCEPT !.irq_count = n]
             b == (t.lost \/ (setting = "post" /\ c = 1))
             r == [x EXCEPT !.lost = b]
  <1>0. t \in TasStates /\ Params(t) = Params(o) /\ t.missed = o.missed /\ t.init_work = q
        /\ 1 \in Tas!Channels /\ 2 \in Tas!Channels /\ \A d \in Tas!Channels : d = 1 \/ d = 2
    BY <1>r DEF Requeued, Tas!Channels
  <1>1. /\ PowerAt(t) /\ SilentAt(t, p) /\ Remembered(t, w)
        /\ \A d \in Tas!Channels \ t.missed : HeardAt(t, d)
        /\ \A d \in Tas!Channels : q[d] = o.init_work[d] \/ q[d] # {} => ArmedAt(t, d)
        /\ (q[1] = o.init_work[1] \/ q[1] # {} => KeptAt(t, w))
        /\ (setting # "post" \/ t.m_power_state # "active" => KeptAt(t, w))
    BY <1>r, RequeuedParts
  <1>2. /\ a \in TasStates
        /\ a.disarmed = t.disarmed \cup {c}
        /\ Params(a) = Params(t) /\ a.m_power_state = t.m_power_state
        /\ a.chip = t.chip /\ a.latched = t.latched /\ a.detected = t.detected
        /\ a.irq_count = t.irq_count /\ a.irq_work = t.irq_work
        /\ a.init_work = t.init_work /\ a.lost = t.lost /\ a.stray = t.stray
        /\ a.missed = t.missed
    BY <1>0, ArmlessEffect
  <1>e. Cached(t, c) = r
    BY <1>2 DEF TasStates, Cached
  <1> HIDE DEF a
  <1>3. n \in [Tas!Channels -> Nat] /\ n[c] = 0 /\ \A d \in Tas!Channels \ {c} : n[d] = a.irq_count[d]
    BY <1>2 DEF TasStates
  <1> HIDE DEF n
  <1>4. /\ x \in TasStates /\ x.irq_count = n
        /\ Params(x) = Params(a) /\ x.m_power_state = a.m_power_state
        /\ x.chip = a.chip /\ x.latched = a.latched /\ x.detected = a.detected
        /\ x.irq_work = a.irq_work /\ x.init_work = a.init_work /\ x.lost = a.lost
        /\ x.stray = a.stray /\ x.disarmed = a.disarmed /\ x.missed = a.missed
    BY <1>2, <1>3, WithCount
  <1> HIDE DEF x
  <1>5. b \in BOOLEAN
    BY <1>0 DEF TasStates
  <1>6. /\ r \in TasStates /\ r.lost = b
        /\ Params(r) = Params(x) /\ r.m_power_state = x.m_power_state
        /\ r.chip = x.chip /\ r.latched = x.latched /\ r.detected = x.detected
        /\ r.irq_count = x.irq_count /\ r.irq_work = x.irq_work
        /\ r.init_work = x.init_work /\ r.stray = x.stray /\ r.disarmed = x.disarmed
        /\ r.missed = x.missed
    <2> HIDE DEF b
    <2> QED BY <1>4, <1>5, WithLost
  <1>b. (setting = "post" /\ c = 1 => r.lost) /\ (t.lost => r.lost)
    BY <1>6
  <1> HIDE DEF r, b
  <1>7. /\ Params(r) = Params(t) /\ r.m_power_state = t.m_power_state
        /\ r.chip = t.chip /\ r.latched = t.latched /\ r.detected = t.detected
        /\ r.irq_count = n /\ r.irq_work = t.irq_work
        /\ r.init_work = t.init_work /\ r.stray = t.stray /\ r.disarmed = t.disarmed \cup {c}
        /\ r.missed = t.missed
    BY <1>2, <1>4, <1>6
  <1>8. PowerAt(r)
    <2>1. t.irq_count \in [Tas!Channels -> Nat] /\ 0 <= IrqLimit
      BY <1>0 DEF TasStates, Tas!TasAssumption
    <2>2. \A d \in Tas!Channels : n[d] = 0 \/ n[d] = t.irq_count[d]
      BY <1>2, <1>3
    <2>3. \A d \in Tas!Channels : r.irq_count[d] <= IrqLimit
      BY <1>1, <1>7, <2>1, <2>2 DEF PowerAt
    <2> QED BY <1>1, <1>7, <2>3 DEF PowerAt, Rested
  <1>9. SilentAt(r, p)
    BY <1>1, <1>7 DEF SilentAt
  <1>10. Remembered(r, w)
    BY <1>1, <1>7 DEF Remembered, Params
  <1>11. KeptAt(r, w)
    <2>1. CASE setting = "post" /\ c = 1
      BY <1>b, <2>1 DEF KeptAt
    <2>2. CASE ~(setting = "post" /\ c = 1)
      <3>1. KeptAt(t, w)
        BY <1>0, <1>1, <1>r, <2>2
      <3> QED BY <1>7, <1>b, <3>1, SteadyKept
    <2> QED BY <2>1, <2>2
  <1>12. \A d \in Tas!Channels : ArmedAt(r, d)
    <2> SUFFICES ASSUME NEW d \in Tas!Channels, r.m_power_state = "active",
                        d \in Tas!Opmode(r) \ r.disarmed, r.chip[d].power = "on"
                 PROVE  r.chip[d].intr \/ r.init_work[d] # {}
      BY DEF ArmedAt
    <2>1. Tas!Opmode(r) = Tas!Opmode(t)
      BY <1>7 DEF Params, Tas!Opmode
    <2>2. d # c /\ d \in Tas!Opmode(t) \ t.disarmed
      BY <1>7, <2>1
    <2>3. ArmedAt(t, d)
      BY <1>1, <1>r, <2>2
    <2> QED BY <1>7, <2>2, <2>3 DEF ArmedAt
  <1>13. \A d \in Tas!Channels \ r.missed : HeardAt(r, d)
    BY <1>1, <1>7 DEF HeardAt
  <1>14. Whole(r, p, w)
    BY <1>6, <1>8, <1>9, <1>10, <1>11, <1>12, <1>13 DEF Whole, Core
  <1>15. r.fw_state = o.fw_state
    BY <1>0, <1>7 DEF Params
  <1>16. Held(r, o, p, w)
    BY <1>14, <1>15 DEF Held
  <1> QED BY <1>e, <1>16

LEMMA InitLateKept ==
    ASSUME Setting, NEW o, NEW t, NEW c \in Tas!Channels, NEW q, NEW w, NEW p,
           Whole(o, p, w), Requeued(t, o, q), t.m_power_state # "active"
    PROVE  Whole(t, p, w) /\ t.fw_state = o.fw_state
  <1>1. /\ PowerAt(t) /\ SilentAt(t, p) /\ Remembered(t, w)
        /\ \A d \in Tas!Channels \ t.missed : HeardAt(t, d)
        /\ (setting # "post" \/ t.m_power_state # "active" => KeptAt(t, w))
    BY RequeuedParts
  <1>2. \A d \in Tas!Channels : ArmedAt(t, d)
    BY DEF ArmedAt
  <1>3. t \in TasStates /\ t.fw_state = o.fw_state
    BY DEF Requeued, Params
  <1> QED BY <1>1, <1>2, <1>3 DEF Whole, Core

(* What a behaviour sets stays, the driver holds what it was asked to, and a device whose
   binary was not found was asked nothing. *)
TasInv ==
    /\ Setting /\ setup \in TasSetups /\ wanted_tas \in Nat
    /\ dac_power \in BOOLEAN /\ suspended \in BOOLEAN
    /\ faults \in Nat /\ faults <= MaxFaults
    /\ Whole(tas, dac_power, wanted_tas)
    /\ (tas.fw_state = "LOAD_FAIL" => wanted_tas = 0)

LEMMA FreshTas ==
    ASSUME Tas!Init
    PROVE  /\ tas \in TasStates
           /\ tas.m_power_state = "shutdown" /\ tas.mn_fmt = 0 /\ tas.mn_fmt_mode = 0
           /\ tas.mn_rx_width = 0 /\ tas.mn_tx_slot_width = 0 /\ tas.curr_val = 0
           /\ \A c \in Tas!Channels :
                /\ tas.chip[c].power = "off" /\ tas.chip[c].intr = FALSE /\ tas.chip[c].set = 0
                /\ tas.latched[c] = {} /\ tas.detected[c] = {} /\ tas.irq_count[c] = 0
  <1>1. Tas!Reset \in ChipStates /\ Tas!Reset.power = "off" /\ Tas!Reset.intr = FALSE /\ Tas!Reset.set = 0
    BY DEF Tas!Reset, ChipStates
  <1>2. tas.chip = [c \in Tas!Channels |-> Tas!Reset]
    BY DEF Tas!Init
  <1>3. tas.chip \in [Tas!Channels -> ChipStates] /\ \A c \in Tas!Channels : tas.chip[c] = Tas!Reset
    BY <1>1, <1>2
  <1>4. tas \in [fw_state : {"LOAD_FAIL", "OK"}, m_power_state : {"active", "mute", "shutdown"},
     mn_fmt : Nat, mn_fmt_mode : {0, 1, 2}, mn_rx_width : Nat, mn_tx_slot_width : Nat,
     sample_rate : Nat, curr_val : Nat,
     chip : {tas.chip}, latched : [Tas!Channels -> SUBSET Kinds],
     detected : [Tas!Channels -> SUBSET Kinds], irq_count : [Tas!Channels -> Nat],
     init_work : [Tas!Channels -> SUBSET {"pending", "started"}], irq_work : BOOLEAN,
     lost : BOOLEAN, stray : SUBSET Tas!Channels, disarmed : SUBSET Tas!Channels,
     missed : SUBSET Tas!Channels]
    BY DEF Tas!Init
  <1>5. tas \in TasStates
    BY <1>3, <1>4 DEF TasStates
  <1>6. /\ tas.m_power_state = "shutdown" /\ tas.mn_fmt = 0 /\ tas.mn_fmt_mode = 0
        /\ tas.mn_rx_width = 0 /\ tas.mn_tx_slot_width = 0 /\ tas.curr_val = 0
    BY DEF Tas!Init
  <1>7. \A c \in Tas!Channels : tas.latched[c] = {} /\ tas.detected[c] = {} /\ tas.irq_count[c] = 0
    BY DEF Tas!Init
  <1> QED BY <1>1, <1>3, <1>5, <1>6, <1>7

LEMMA TasStart ==
    ASSUME Tas!TasAssumption, Tas!Init
    PROVE  TasInv
  <1>1. Setting
    <2>1. fmt_table \in {{1}, {2, 4}, {}}
      BY DEF Tas!Init
    <2>2. setup \in Tas!SetupsKnown /\ setting \in Tas!SettingsOf(setup)
      BY DEF Tas!Init, Tas!TasAssumption
    <2> QED BY <2>1, <2>2 DEF Setting
  <1>2. wanted_tas = 0 /\ dac_power = FALSE /\ suspended = FALSE /\ faults = 0 /\ setup \in TasSetups
    BY DEF Tas!Init
  <1>3. 1 \in Tas!Channels /\ 2 \in Tas!Channels /\ IrqLimit \in Nat /\ MaxFaults \in Nat
    BY DEF Tas!Channels, Tas!TasAssumption
  <1>4. PowerAt(tas)
    <2>1. /\ tas.m_power_state = "shutdown"
          /\ \A c \in Tas!Channels : tas.chip[c].power = "off" /\ tas.latched[c] = {}
                                /\ tas.detected[c] = {} /\ tas.irq_count[c] = 0
      BY FreshTas
    <2>2. \A c \in Tas!Channels : tas.irq_count[c] <= IrqLimit
      BY <1>3, <2>1
    <2> QED BY <1>3, <2>1, <2>2 DEF PowerAt
  <1>5. SilentAt(tas, FALSE)
    BY FreshTas DEF SilentAt
  <1>6. Remembered(tas, 0)
    BY FreshTas DEF Remembered, Tas!Controls
  <1>7. KeptAt(tas, 0)
    BY <1>1, <1>3, FreshTas, SettingCases DEF KeptAt
  <1>8. \A c \in Tas!Channels : ArmedAt(tas, c)
    BY FreshTas DEF ArmedAt
  <1>9. \A c \in Tas!Channels \ tas.missed : HeardAt(tas, c)
    BY FreshTas DEF HeardAt
  <1>10. Whole(tas, FALSE, 0)
    BY <1>4, <1>5, <1>6, <1>7, <1>8, <1>9, FreshTas DEF Whole, Core
  <1>11. Whole(tas, dac_power, wanted_tas)
    BY <1>2, <1>10, Zenon
  <1>12. faults \in Nat /\ faults <= MaxFaults /\ wanted_tas \in Nat
    BY <1>2, <1>3
  <1>13. dac_power \in BOOLEAN /\ suspended \in BOOLEAN
    BY <1>2
  <1> QED BY <1>1, <1>2, <1>11, <1>12, <1>13, Zenon DEF TasInv

LEMMA TasSafe ==
    ASSUME Tas!TasAssumption, TasInv
    PROVE  Tas!SmartAmpSound /\ Tas!TypeOK
  <1>1. /\ tas \in TasStates /\ PowerAt(tas) /\ SilentAt(tas, dac_power)
        /\ KeptAt(tas, wanted_tas) /\ \A c \in Tas!Channels : ArmedAt(tas, c)
        /\ \A c \in Tas!Channels \ tas.missed : HeardAt(tas, c)
    BY DEF TasInv, Whole, Core
  <1>2. Setting /\ 1 \in Tas!Channels /\ 2 \in Tas!Channels
    BY DEF TasInv, Tas!Channels
  <1>3. Tas!Silent
    BY <1>1 DEF Tas!Silent, SilentAt
  <1>4. Tas!Kept
    <2> SUFFICES ASSUME setting # "profile", ~tas.lost, tas.m_power_state = "active",
                        NEW c \in (IF setting \in Tas!Controls THEN {1} ELSE Tas!Channels),
                        tas.chip[c].power = "on", setting = "post" => tas.init_work[c] = {}
                 PROVE  tas.chip[c].set = wanted_tas
      BY DEF Tas!Kept
    <2>1. CASE setting \in Everywhere
      BY <1>1, <2>1 DEF KeptAt, Everywhere, Tas!Controls
    <2>2. CASE setting \in {"anytime", "em"}
      BY <1>1, <2>2 DEF KeptAt, Tas!Controls
    <2>3. CASE setting = "pre"
      BY <1>1, <2>3 DEF KeptAt, Tas!Controls
    <2>4. CASE setting = "post"
      BY <1>1, <2>4 DEF KeptAt, Tas!Controls
    <2> QED BY <1>2, <2>1, <2>2, <2>3, <2>4, SettingCases DEF Tas!Settings, Everywhere
  <1>5. Tas!Armed
    <2> SUFFICES ASSUME tas.m_power_state = "active", NEW c \in Tas!Opmode(tas) \ tas.disarmed,
                        tas.chip[c].power = "on"
                 PROVE  tas.chip[c].intr \/ tas.init_work[c] # {}
      BY DEF Tas!Armed
    <2>1. ArmedAt(tas, c)
      BY <1>1, OpmodeSub
    <2> QED BY <2>1 DEF ArmedAt
  <1>6. Tas!Heard
    BY <1>1 DEF Tas!Heard, HeardAt
  <1>7. Tas!TypeOK
    <2>1. \A c \in Tas!Channels :
            /\ tas.chip[c].power \in {"off", "on", "muted"} /\ tas.chip[c].intr \in BOOLEAN
            /\ tas.latched[c] \subseteq {"clock", "other"} /\ tas.detected[c] \subseteq {"clock", "other"}
            /\ tas.irq_count[c] \in 0..IrqLimit /\ tas.init_work[c] \subseteq {"pending", "started"}
      <3> SUFFICES ASSUME NEW c \in Tas!Channels
                   PROVE  /\ tas.chip[c].power \in {"off", "on", "muted"} /\ tas.chip[c].intr \in BOOLEAN
                          /\ tas.latched[c] \subseteq {"clock", "other"}
                          /\ tas.detected[c] \subseteq {"clock", "other"}
                          /\ tas.irq_count[c] \in 0..IrqLimit
                          /\ tas.init_work[c] \subseteq {"pending", "started"}
        OBVIOUS
      <3>0. tas.chip \in [Tas!Channels -> ChipStates]
        BY <1>1 DEF TasStates
      <3>1. tas.chip[c].power \in {"off", "on", "muted"} /\ tas.chip[c].intr \in BOOLEAN
        BY <3>0, ChipPart
      <3>2. /\ tas.latched[c] \subseteq {"clock", "other"}
            /\ tas.detected[c] \subseteq {"clock", "other"}
            /\ tas.init_work[c] \subseteq {"pending", "started"}
        BY <1>1 DEF TasStates, Kinds
      <3>3. tas.irq_count[c] \in Nat /\ IrqLimit \in Nat
        BY <1>1 DEF TasStates, Tas!TasAssumption
      <3>4. tas.irq_count[c] <= IrqLimit
        BY <1>1 DEF PowerAt
      <3>5. tas.irq_count[c] \in 0..IrqLimit
        BY <3>3, <3>4
      <3> QED BY <3>1, <3>2, <3>5
    <2>2. faults \in 0..MaxFaults
      <3>1. faults \in Nat /\ MaxFaults \in Nat /\ faults <= MaxFaults
        BY DEF TasInv, Tas!TasAssumption
      <3> QED BY <3>1
    <2>3. setup \in TasSetups /\ setting \in Tas!Settings /\ dac_power \in BOOLEAN /\ suspended \in BOOLEAN
      BY <1>2, SettingCases, Zenon DEF TasInv
    <2>4. /\ tas.fw_state \in {"LOAD_FAIL", "OK"}
          /\ tas.m_power_state \in {"active", "mute", "shutdown"} /\ tas.irq_work \in BOOLEAN
      BY <1>1 DEF TasStates
    <2> QED BY <2>1, <2>2, <2>3, <2>4 DEF Tas!TypeOK
  <1> QED BY <1>3, <1>4, <1>5, <1>6, <1>7 DEF Tas!SmartAmpSound

(* A step that leaves the setting as it is, and no binary wanting after one was asked. *)
TasKept ==
    /\ wanted_tas' \in Nat /\ dac_power' \in BOOLEAN /\ suspended' \in BOOLEAN
    /\ faults' \in Nat /\ faults' <= MaxFaults
    /\ Whole(tas', dac_power', wanted_tas')
    /\ (tas'.fw_state = "LOAD_FAIL" => wanted_tas' = 0)

LEMMA StartFwLoadGo ==
    ASSUME TasInv, Tas!StartFwLoad
    PROVE  TasKept
  <1>1. /\ tas.fw_state = "LOAD_FAIL" /\ wanted_tas' = wanted_tas /\ dac_power' = dac_power
        /\ suspended' = suspended /\ faults' = faults
    BY DEF Tas!StartFwLoad
  <1>2. tas' = [Tas!WriteInitConfigParams(Tas!HardReset(tas)) EXCEPT !.fw_state = "OK", !.lost = FALSE]
    BY DEF Tas!StartFwLoad
  <1>3. wanted_tas = 0 /\ tas \in TasStates /\ Setting /\ wanted_tas' = 0
    BY <1>1 DEF TasInv, Whole
  <1>4. Whole(tas, dac_power, 0)
    BY <1>3, Zenon DEF TasInv
  <1>5. Whole(tas', dac_power, 0) /\ tas'.fw_state = "OK"
    BY <1>2, <1>3, <1>4, LoadKept
  <1>6. Whole(tas', dac_power', wanted_tas')
    BY <1>1, <1>3, <1>5, Zenon
  <1>7. /\ wanted_tas' \in Nat /\ dac_power' \in BOOLEAN /\ suspended' \in BOOLEAN
        /\ faults' \in Nat /\ faults' <= MaxFaults
    BY <1>1, Zenon DEF TasInv
  <1>8. tas'.fw_state = "LOAD_FAIL" => wanted_tas' = 0
    BY <1>3
  <1> QED BY <1>6, <1>7, <1>8, Zenon DEF TasKept

(* The steps of a device that has its binary. *)
LEMMA LoadedGo ==
    ASSUME TasInv, tas.fw_state = "OK", NEW w \in Nat, NEW p, p \in BOOLEAN, wanted_tas' = w, dac_power' = p,
           suspended' = suspended, faults' = faults,
           Whole(tas', p, w), tas'.fw_state = tas.fw_state
    PROVE  TasKept
  <1>1. Whole(tas', dac_power', wanted_tas')
    BY Zenon
  <1>2. /\ wanted_tas' \in Nat /\ dac_power' \in BOOLEAN /\ suspended' \in BOOLEAN
        /\ faults' \in Nat /\ faults' <= MaxFaults
    BY Zenon DEF TasInv
  <1>3. tas'.fw_state # "LOAD_FAIL"
    OBVIOUS
  <1> QED BY <1>1, <1>2, <1>3, Zenon DEF TasKept

(* The steps that are not of the stream. *)
LEMMA AsideGo ==
    ASSUME TasInv, wanted_tas' = wanted_tas, dac_power' = dac_power, suspended' \in BOOLEAN,
           faults' \in Nat, faults' <= MaxFaults,
           Whole(tas', dac_power, wanted_tas), tas'.fw_state = tas.fw_state
    PROVE  TasKept
  <1>1. Whole(tas', dac_power', wanted_tas')
    BY Zenon
  <1>2. wanted_tas' \in Nat /\ dac_power' \in BOOLEAN
    BY Zenon DEF TasInv
  <1>3. tas'.fw_state = "LOAD_FAIL" => wanted_tas' = 0
    BY Zenon DEF TasInv
  <1> QED BY <1>1, <1>2, <1>3, Zenon DEF TasKept

LEMMA SetDaiFmtGo ==
    ASSUME TasInv, Tas!SetDaiFmt
    PROVE  TasKept
  <1>1. PICK fmt \in {1, 2} :
          /\ tas' = [Tas!SetDaiFmtForFmt([tas EXCEPT !.mn_fmt = fmt]) EXCEPT !.lost = FALSE]
          /\ wanted_tas' = fmt
    BY DEF Tas!SetDaiFmt
  <1>2. /\ tas.fw_state = "OK" /\ setting = "fmt" /\ dac_power' = dac_power
        /\ suspended' = suspended /\ faults' = faults
    BY DEF Tas!SetDaiFmt, Tas!Ready
  <1>3. fmt \in Nat /\ tas \in TasStates /\ Setting /\ Whole(tas, dac_power, wanted_tas)
        /\ dac_power \in BOOLEAN
    BY DEF TasInv, Whole
  <1>4. Whole(tas', dac_power, fmt) /\ tas'.fw_state = tas.fw_state
    BY <1>1, <1>2, <1>3, SetDaiFmtKept
  <1> QED BY <1>1, <1>2, <1>3, <1>4, LoadedGo, Zenon

LEMMA HwParamsGo ==
    ASSUME TasInv, Tas!HwParams
    PROVE  TasKept
  <1>0. /\ tas \in TasStates /\ Setting /\ Whole(tas, dac_power, wanted_tas) /\ wanted_tas \in Nat
        /\ dac_power \in BOOLEAN
    BY Zenon DEF TasInv, Whole
  <1>1. PICK mode \in {1, 2} :
          \/ \E width \in {16, 24}, rate \in {0, 1, 2} : Tas!HwParamsPlayback(mode, width, rate)
          \/ Tas!HwParamsCapture(mode)
    BY DEF Tas!HwParams
  <1>2. ASSUME NEW width \in {16, 24}, NEW rate \in {0, 1, 2}, Tas!HwParamsPlayback(mode, width, rate)
        PROVE  TasKept
    <2> DEFINE u == Tas!SetSampleRate(Tas!RxSetBitwidth([tas EXCEPT !.mn_fmt_mode = mode], width), rate)
               r == [u EXCEPT !.lost = @ /\ setting \notin {"rx_width", "rate"}]
               w == CASE setting = "rx_width" -> width [] setting = "rate" -> rate
                      [] OTHER -> wanted_tas
    <2>1. width \in Nat /\ rate \in Nat
      OBVIOUS
    <2>2. tas' = r /\ wanted_tas' = w
      BY <1>2, Zenon DEF Tas!HwParamsPlayback
    <2>3. tas.fw_state = "OK" /\ dac_power' = dac_power /\ suspended' = suspended
          /\ faults' = faults
      BY <1>2 DEF Tas!HwParamsPlayback, Tas!Ready
    <2>3a. r = Playback(tas, mode, width, rate) /\ w = PlaybackWanted(wanted_tas, width, rate)
      BY DEF Playback, PlaybackWanted
    <2> HIDE DEF r, w
    <2>3b. Held(Playback(tas, mode, width, rate), tas, dac_power, PlaybackWanted(wanted_tas, width, rate))
      BY <1>0, <2>1, PlaybackKept
    <2>4. Whole(r, dac_power, w) /\ r.fw_state = tas.fw_state /\ w \in Nat
      BY <2>3a, <2>3b, Zenon DEF Held
    <2> HIDE DEF r, w
    <2> QED BY <1>0, <2>2, <2>3, <2>4, LoadedGo, Zenon
  <1>3. ASSUME Tas!HwParamsCapture(mode)
        PROVE  TasKept
    <2> DEFINE x == [tas EXCEPT !.mn_fmt_mode = mode]
               r == IF fmt_table = {} THEN x
                    ELSE [Tas!IvVbatSlotConfig(x, 16) EXCEPT !.lost = @ /\ setting # "tx_format"]
               w == IF setting = "tx_format" /\ fmt_table # {} THEN Best ELSE wanted_tas
    <2>2. tas' = r /\ wanted_tas' = w
      BY <1>3, Zenon DEF Tas!HwParamsCapture, Best
    <2>3. tas.fw_state = "OK" /\ dac_power' = dac_power /\ suspended' = suspended
          /\ faults' = faults
      BY <1>3 DEF Tas!HwParamsCapture, Tas!Ready
    <2>4. Whole(r, dac_power, w) /\ r.fw_state = tas.fw_state /\ w \in Nat
      BY <1>0, CaptureKept
    <2> HIDE DEF r, w
    <2> QED BY <1>0, <2>2, <2>3, <2>4, LoadedGo, Zenon
  <1> QED BY <1>1, <1>2, <1>3

LEMMA DacPostPmuGo ==
    ASSUME TasInv, NEW fails, Tas!DacPostPmu(fails)
    PROVE  TasKept
  <1> DEFINE v == Tas!SetPowerState(tas, "active", Tas!Channels, fails)
  <1>0. Setting /\ Whole(tas, dac_power, wanted_tas) /\ wanted_tas \in Nat /\ fails \in Tas!Failing
    BY Zenon DEF TasInv, Tas!DacPostPmu
  <1>1. /\ tas.fw_state = "OK" /\ dac_power' = TRUE /\ wanted_tas' = wanted_tas
        /\ suspended' = suspended /\ faults' = faults
    BY DEF Tas!DacPostPmu, Tas!Ready
  <1>2. tas' = [v EXCEPT !.stray = {}]
    BY DEF Tas!DacPostPmu
  <1>3. Whole(v, TRUE, wanted_tas) /\ v.fw_state = tas.fw_state
    BY <1>0, PlayedKept
  <1> HIDE DEF v
  <1>4. Whole(tas', TRUE, wanted_tas) /\ tas'.fw_state = v.fw_state
    <2>1. {} \in SUBSET Tas!Channels
      OBVIOUS
    <2> QED BY <1>0, <1>2, <1>3, <2>1, MarkedKept
  <1> QED BY <1>0, <1>1, <1>3, <1>4, LoadedGo, Zenon

LEMMA DacPrePmdGo ==
    ASSUME TasInv, Tas!DacPrePmd
    PROVE  TasKept
  <1>0. Setting /\ Whole(tas, dac_power, wanted_tas) /\ wanted_tas \in Nat
    BY Zenon DEF TasInv
  <1>1. /\ tas.fw_state = "OK" /\ dac_power' = FALSE /\ wanted_tas' = wanted_tas
        /\ suspended' = suspended /\ faults' = faults
    BY DEF Tas!DacPrePmd, Tas!Ready
  <1>2. Whole(tas', FALSE, wanted_tas) /\ tas'.fw_state = tas.fw_state
    <2>1. CASE tas.m_power_state # "shutdown"
      <3>1. tas' = [Tas!SetPowerState(tas, "shutdown", Tas!Channels, {}) EXCEPT !.stray = Tas!Channels \ Tas!Opmode(tas)]
        BY <2>1 DEF Tas!DacPrePmd
      <3> QED BY <1>0, <3>1, StoppedKept
    <2>2. CASE tas.m_power_state = "shutdown"
      <3> DEFINE s == {c \in Tas!Channels : tas.chip[c].power # "off" \/ tas.chip[c].intr}
      <3>1. tas' = [tas EXCEPT !.stray = s]
        BY <2>2 DEF Tas!DacPrePmd
      <3>2. s \in SUBSET Tas!Channels
            /\ \A c \in Tas!Channels \ s : tas.chip[c].power = "off" /\ ~tas.chip[c].intr
        OBVIOUS
      <3> HIDE DEF s
      <3> QED BY <1>0, <3>1, <3>2, MarkedKept
    <2> QED BY <2>1, <2>2
  <1> QED BY <1>0, <1>1, <1>2, LoadedGo, Zenon

LEMMA MuteStreamGo ==
    ASSUME TasInv, NEW mute \in BOOLEAN, NEW fails, Tas!MuteStream(mute, fails)
    PROVE  TasKept
  <1>0. Setting /\ Whole(tas, dac_power, wanted_tas) /\ wanted_tas \in Nat /\ fails \in Tas!Failing
    BY Zenon DEF TasInv, Tas!MuteStream
  <1>1. /\ tas.fw_state = "OK" /\ dac_power' = dac_power /\ wanted_tas' = wanted_tas
        /\ suspended' = suspended /\ faults' = faults
    BY DEF Tas!MuteStream, Tas!Ready
  <1>2. dac_power = TRUE
    BY Zenon DEF Tas!MuteStream, TasInv
  <1>3. Whole(tas', TRUE, wanted_tas) /\ tas'.fw_state = tas.fw_state
    <2>1. CASE mute
      <3>1. tas' = Tas!SetPowerState(tas, "mute", Tas!Channels, fails)
        BY <2>1, Zenon DEF Tas!MuteStream
      <3> QED BY <1>0, <3>1, MutedKept
    <2>2. CASE ~mute
      <3>1. tas' = Tas!SetPowerState(tas, "active", Tas!Channels, fails)
        BY <2>2, Zenon DEF Tas!MuteStream
      <3> QED BY <1>0, <3>1, PlayedKept
    <2> QED BY <2>1, <2>2
  <1>4. dac_power' = TRUE
    BY <1>1, <1>2, Zenon
  <1> QED BY <1>0, <1>1, <1>3, <1>4, LoadedGo, Zenon

LEMMA PutGo ==
    ASSUME TasInv, NEW v \in {0, 1}, Tas!Put(v)
    PROVE  TasKept
  <1> DEFINE now == setting \in {"anytime", "em"} \/ tas.m_power_state = "active"
             x == [tas EXCEPT !.curr_val = v, !.lost = FALSE,
                              !.disarmed = IF setting = "profile" THEN @ \cup {2} ELSE @]
             r == IF now THEN Tas!UpdateKcontrolData(x, setting) ELSE x
  <1>0. /\ tas \in TasStates /\ Setting /\ Whole(tas, dac_power, wanted_tas) /\ wanted_tas \in Nat
        /\ dac_power \in BOOLEAN
    BY Zenon DEF TasInv, Whole
  <1>1. /\ tas.fw_state = "OK" /\ dac_power' = dac_power /\ suspended' = suspended
        /\ faults' = faults /\ wanted_tas' = v /\ setting \in Tas!Controls
    BY DEF Tas!Put, Tas!Ready
  <1>2. tas' = r
    BY Zenon DEF Tas!Put
  <1>3. Whole(r, dac_power, v) /\ r.fw_state = tas.fw_state
    BY <1>0, <1>1, PutKept
  <1>4. v \in Nat
    OBVIOUS
  <1> HIDE DEF r
  <1> QED BY <1>0, <1>1, <1>2, <1>3, <1>4, LoadedGo, Zenon

LEMMA SuspendGo ==
    ASSUME TasInv, Tas!Suspend
    PROVE  TasKept
  <1>0. Setting /\ Whole(tas, dac_power, wanted_tas) /\ faults \in Nat /\ faults <= MaxFaults
    BY Zenon DEF TasInv
  <1>1. dac_power' = dac_power /\ wanted_tas' = wanted_tas /\ suspended' \in BOOLEAN /\ faults' = faults
    BY DEF Tas!Suspend
  <1>2. tas' = [tas EXCEPT !.irq_work = FALSE,
                           !.missed = IF tas.irq_work
                                        THEN {c \in Tas!Channels : tas.latched[c] # {}} ELSE @]
    BY DEF Tas!Suspend
  <1>3. Whole(tas', dac_power, wanted_tas) /\ tas'.fw_state = tas.fw_state
    BY <1>0, <1>2, SuspendKept
  <1> QED BY <1>0, <1>1, <1>3, AsideGo, Zenon

LEMMA ResumeGo ==
    ASSUME TasInv, Tas!Resume
    PROVE  TasKept
  <1>0. Setting /\ Whole(tas, dac_power, wanted_tas) /\ faults \in Nat /\ faults <= MaxFaults
    BY Zenon DEF TasInv
  <1>1. dac_power' = dac_power /\ wanted_tas' = wanted_tas /\ suspended' \in BOOLEAN /\ faults' = faults
        /\ tas' = tas
    BY DEF Tas!Resume
  <1> QED BY <1>0, <1>1, AsideGo, Zenon

LEMMA FaultGo ==
    ASSUME Tas!TasAssumption, TasInv, NEW c \in Tas!Channels, NEW k \in {"clock", "other"}, Tas!Fault(c, k)
    PROVE  TasKept
  <1>0. Setting /\ Whole(tas, dac_power, wanted_tas) /\ faults \in Nat /\ suspended \in BOOLEAN
        /\ MaxFaults \in Nat
    BY Zenon DEF TasInv, Tas!TasAssumption
  <1>1. dac_power' = dac_power /\ wanted_tas' = wanted_tas /\ suspended' = suspended
        /\ faults' = faults + 1 /\ faults < MaxFaults
    BY DEF Tas!Fault
  <1>2. tas' = [tas EXCEPT !.latched[c] = @ \cup {k}, !.missed = @ \ {c},
                           !.irq_work = @ \/ tas.chip[c].intr]
    BY DEF Tas!Fault
  <1>3. k \in Kinds /\ (c = 1 \/ setup = "hardware") /\ tas.chip[c].power # "off"
    BY DEF Tas!Fault, Kinds
  <1>2a. tas' = Faulted(tas, c, k)
    BY <1>2, Zenon DEF Faulted
  <1>2b. wanted_tas \in Nat
    BY Zenon DEF TasInv
  <1>2c. Held(Faulted(tas, c, k), tas, dac_power, wanted_tas)
    BY <1>0, <1>2b, <1>3, FaultKept
  <1>4. Whole(tas', dac_power, wanted_tas) /\ tas'.fw_state = tas.fw_state
    BY <1>2a, <1>2c, Zenon DEF Held
  <1>5. faults' \in Nat /\ faults' <= MaxFaults
    BY <1>0, <1>1
  <1>6. suspended' \in BOOLEAN
    BY <1>0, <1>1, Zenon
  <1> QED BY <1>1, <1>4, <1>5, <1>6, AsideGo, Zenon

LEMMA InitStartsGo ==
    ASSUME TasInv, NEW c \in Tas!Channels, Tas!InitStarts(c)
    PROVE  TasKept
  <1>0. /\ Setting /\ Whole(tas, dac_power, wanted_tas) /\ faults \in Nat /\ faults <= MaxFaults
        /\ suspended \in BOOLEAN
    BY Zenon DEF TasInv
  <1>1. dac_power' = dac_power /\ wanted_tas' = wanted_tas /\ suspended' = suspended /\ faults' = faults
    BY DEF Tas!InitStarts
  <1>2. tas' = [tas EXCEPT !.init_work[c] = {"started"}]
    BY DEF Tas!InitStarts
  <1>3. Whole(tas', dac_power, wanted_tas) /\ tas'.fw_state = tas.fw_state
    BY <1>0, <1>2, StartsKept
  <1>4. suspended' \in BOOLEAN /\ faults' \in Nat /\ faults' <= MaxFaults
    BY <1>0, <1>1, Zenon
  <1> QED BY <1>1, <1>3, <1>4, AsideGo, Zenon

LEMMA InitWorkGo ==
    ASSUME Tas!TasAssumption, TasInv, NEW c \in Tas!Channels, Tas!InitWorkRoutine(c)
    PROVE  TasKept
  <1> DEFINE s == tas.init_work[c] \ {"started"}
             q == [tas.init_work EXCEPT ![c] = s]
             t == [tas EXCEPT !.init_work[c] = s]
  <1>0. /\ Setting /\ Whole(tas, dac_power, wanted_tas) /\ faults \in Nat /\ faults <= MaxFaults
        /\ suspended \in BOOLEAN /\ dac_power \in BOOLEAN /\ tas \in TasStates
    BY Zenon DEF TasInv, Whole
  <1>1. dac_power' = dac_power /\ wanted_tas' = wanted_tas /\ suspended' = suspended /\ faults' = faults
    BY DEF Tas!InitWorkRoutine
  <1>2. s \in SUBSET {"pending", "started"}
    BY <1>0 DEF TasStates
  <1>3. t = [tas EXCEPT !.init_work[c] = @ \ {"started"}]
    OBVIOUS
  <1>4. \A d \in Tas!Channels \ {c} : q[d] = tas.init_work[d]
    BY <1>0 DEF TasStates
  <1>6. tas' = IF ~Tas!MayInit(t) THEN t
               ELSE IF suspended
                 THEN [Tas!Armless(t, c) EXCEPT !.irq_count[c] = 0,
                                            !.lost = @ \/ (setting = "post" /\ c = 1)]
               ELSE Tas!InitWorkFunc(IF t.m_power_state = "active" /\ ~dac_power
                                   THEN [t EXCEPT !.stray = @ \cup {c}] ELSE t, c)
    BY Zenon DEF Tas!InitWorkRoutine
  <1> HIDE DEF s
  <1>5. Requeued(t, tas, q)
    BY <1>0, <1>2, RequeuedSome
  <1>5a. OneRequeued(t, tas, c, q) /\ wanted_tas \in Nat
    BY <1>4, <1>5, Zenon DEF OneRequeued, TasInv
  <1> HIDE DEF q, t
  <1>7. Whole(tas', dac_power, wanted_tas) /\ tas'.fw_state = tas.fw_state
    <2>1. CASE t.m_power_state # "active"
      <3>1. tas' = t
        BY <1>6, <2>1 DEF Tas!MayInit
      <3> QED BY <1>0, <1>5, <2>1, <3>1, InitLateKept
    <2>2. CASE t.m_power_state = "active" /\ suspended
      <3>1. tas' = Cached(t, c)
        BY <1>6, <2>2, Zenon DEF Tas!MayInit, Cached
      <3>2. Held(Cached(t, c), tas, dac_power, wanted_tas)
        BY <1>0, <1>5a, InitCachedKept
      <3> QED BY <3>1, <3>2, Zenon DEF Held
    <2>3. CASE t.m_power_state = "active" /\ ~suspended
      <3> DEFINE u == MarkedOff(t, c, dac_power)
      <3>1. tas' = Tas!InitWorkFunc(u, c)
        BY <1>6, <2>3, Zenon DEF Tas!MayInit, MarkedOff
      <3>2. Nearly(u, tas, c, dac_power, wanted_tas)
        BY <1>0, <1>5a, NearlyMarked
      <3> HIDE DEF u
      <3> QED BY <1>0, <3>1, <3>2, InitFuncKept
    <2> QED BY <2>1, <2>2, <2>3
  <1>8. suspended' \in BOOLEAN /\ faults' \in Nat /\ faults' <= MaxFaults
    BY <1>0, <1>1, Zenon
  <1> QED BY <1>1, <1>7, <1>8, AsideGo, Zenon

LEMMA IrqWorkGo ==
    ASSUME Tas!TasAssumption, TasInv, NEW late, NEW fails, Tas!IrqWorkRoutine(late, fails)
    PROVE  TasKept
  <1> DEFINE t == [tas EXCEPT !.irq_work = FALSE]
  <1>0. /\ Setting /\ Whole(tas, dac_power, wanted_tas) /\ faults \in Nat /\ faults <= MaxFaults
        /\ suspended \in BOOLEAN /\ dac_power \in BOOLEAN /\ tas \in TasStates /\ wanted_tas \in Nat
    BY Zenon DEF TasInv, Whole
  <1>1. dac_power' = dac_power /\ wanted_tas' = wanted_tas /\ suspended' = suspended /\ faults' = faults
        /\ fails \in Tas!Failing
    BY DEF Tas!IrqWorkRoutine
  <1>2. tas' = IF suspended
                 THEN [t EXCEPT !.missed = {c \in Tas!Channels : t.latched[c] # {}}]
                 ELSE Tas!IrqWorkFunc(t, late, fails)
    BY DEF Tas!IrqWorkRoutine
  <1>3. Whole(tas', dac_power, wanted_tas) /\ tas'.fw_state = tas.fw_state
    <2>1. CASE suspended
      <3> DEFINE s == {c \in Tas!Channels : tas.latched[c] # {}}
      <3>1. t.latched = tas.latched
        BY <1>0 DEF TasStates
      <3>2. tas' = [t EXCEPT !.missed = s]
        BY <1>2, <2>1, <3>1
      <3>3. [t EXCEPT !.missed = s] = [tas EXCEPT !.irq_work = FALSE, !.missed = s]
        BY <1>0 DEF TasStates
      <3>4. s \in SUBSET Tas!Channels
            /\ \A c \in Tas!Channels \ s : tas.latched[c] = {} \/ ~tas.chip[c].intr
        OBVIOUS
      <3> HIDE DEF s
      <3>5. tas' = [tas EXCEPT !.irq_work = FALSE, !.missed = s]
        BY <3>2, <3>3
      <3> QED BY <1>0, <3>4, <3>5, IdleKept
    <2>2. CASE ~suspended
      <3> DEFINE r == Tas!IrqWorkFunc(t, late, fails)
      <3>1. tas' = r
        BY <1>2, <2>2
      <3>2. /\ t \in TasStates /\ Core(t, dac_power, wanted_tas) /\ Params(t) = Params(tas)
            /\ \A d \in Tas!Channels : ArmedAt(t, d)
        BY <1>0, IdleCore
      <3> HIDE DEF t
      <3>3. Whole(r, dac_power, wanted_tas) /\ Params(r) = Params(t)
        BY <1>0, <1>1, <3>2, IrqWorkKept
      <3> HIDE DEF r
      <3> QED BY <3>1, <3>2, <3>3 DEF Params
    <2> QED BY <2>1, <2>2
  <1>4. suspended' \in BOOLEAN /\ faults' \in Nat /\ faults' <= MaxFaults
    BY <1>0, <1>1, Zenon
  <1> QED BY <1>1, <1>3, <1>4, AsideGo, Zenon

LEMMA TasStep ==
    ASSUME Tas!TasAssumption, TasInv, [Tas!Next]_tas_vars
    PROVE  TasInv'
  <1>1. TasKept /\ setup' = setup /\ setting' = setting /\ fmt_table' = fmt_table
    <2>1. CASE Tas!StartFwLoad
      BY <2>1, StartFwLoadGo, Zenon DEF Tas!StartFwLoad
    <2>2. CASE Tas!SetDaiFmt
      BY <2>2, SetDaiFmtGo, Zenon DEF Tas!SetDaiFmt
    <2>3. CASE Tas!HwParams
      <3>1. setup' = setup /\ setting' = setting /\ fmt_table' = fmt_table
        BY <2>3 DEF Tas!HwParams, Tas!HwParamsPlayback, Tas!HwParamsCapture
      <3> QED BY <2>3, <3>1, HwParamsGo, Zenon
    <2>4. CASE Tas!DacPrePmd
      BY <2>4, DacPrePmdGo, Zenon DEF Tas!DacPrePmd
    <2>5. CASE Tas!Suspend
      BY <2>5, SuspendGo, Zenon DEF Tas!Suspend
    <2>6. CASE Tas!Resume
      BY <2>6, ResumeGo, Zenon DEF Tas!Resume
    <2>7. ASSUME NEW v \in {0, 1}, Tas!Put(v) PROVE TasKept /\ setup' = setup /\ setting' = setting /\ fmt_table' = fmt_table
      BY <2>7, PutGo, Zenon DEF Tas!Put
    <2>8. ASSUME NEW fails, Tas!DacPostPmu(fails) PROVE TasKept /\ setup' = setup /\ setting' = setting /\ fmt_table' = fmt_table
      BY <2>8, DacPostPmuGo, Zenon DEF Tas!DacPostPmu
    <2>9. ASSUME NEW fails, NEW mute \in BOOLEAN, Tas!MuteStream(mute, fails)
          PROVE  TasKept /\ setup' = setup /\ setting' = setting /\ fmt_table' = fmt_table
      BY <2>9, MuteStreamGo, Zenon DEF Tas!MuteStream
    <2>10. ASSUME NEW fails, NEW late, Tas!IrqWorkRoutine(late, fails)
           PROVE  TasKept /\ setup' = setup /\ setting' = setting /\ fmt_table' = fmt_table
      BY <2>10, IrqWorkGo, Zenon DEF Tas!IrqWorkRoutine
    <2>11. ASSUME NEW c \in Tas!Channels, Tas!InitStarts(c)
           PROVE  TasKept /\ setup' = setup /\ setting' = setting /\ fmt_table' = fmt_table
      BY <2>11, InitStartsGo, Zenon DEF Tas!InitStarts
    <2>12. ASSUME NEW c \in Tas!Channels, Tas!InitWorkRoutine(c)
           PROVE  TasKept /\ setup' = setup /\ setting' = setting /\ fmt_table' = fmt_table
      BY <2>12, InitWorkGo, Zenon DEF Tas!InitWorkRoutine
    <2>13. ASSUME NEW c \in Tas!Channels, NEW k \in {"clock", "other"}, Tas!Fault(c, k)
           PROVE  TasKept /\ setup' = setup /\ setting' = setting /\ fmt_table' = fmt_table
      BY <2>13, FaultGo, Zenon DEF Tas!Fault
    <2>14. CASE UNCHANGED tas_vars
      <3>1. /\ setup' = setup /\ setting' = setting /\ fmt_table' = fmt_table /\ tas' = tas
            /\ wanted_tas' = wanted_tas /\ dac_power' = dac_power /\ suspended' = suspended
            /\ faults' = faults
        BY <2>14, Zenon DEF tas_vars
      <3>2. TasKept
        BY <3>1, Zenon DEF TasInv, TasKept
      <3> QED BY <3>1, <3>2, Zenon
    <2>a. Tas!Next \/ UNCHANGED tas_vars
      OBVIOUS
    <2>b. CASE Tas!Next
      <3>1. \/ Tas!StartFwLoad \/ Tas!SetDaiFmt \/ Tas!HwParams \/ Tas!DacPrePmd \/ Tas!Suspend \/ Tas!Resume
            \/ \E v \in {0, 1} : Tas!Put(v)
            \/ \E fails \in SUBSET Tas!Channels : Tas!DacPostPmu(fails)
            \/ \E fails \in SUBSET Tas!Channels, mute \in BOOLEAN : Tas!MuteStream(mute, fails)
            \/ \E fails \in SUBSET Tas!Channels, late \in SUBSET Tas!Channels : Tas!IrqWorkRoutine(late, fails)
            \/ \E c \in Tas!Channels : Tas!InitStarts(c)
            \/ \E c \in Tas!Channels : Tas!InitWorkRoutine(c)
            \/ \E c \in Tas!Channels, k \in {"clock", "other"} : Tas!Fault(c, k)
        BY <2>b, Zenon DEF Tas!Next
      <3> QED BY <3>1, <2>1, <2>2, <2>3, <2>4, <2>5, <2>6, <2>7, <2>8, <2>9, <2>10, <2>11,
                 <2>12, <2>13, Zenon
    <2> QED BY <2>14, <2>a, <2>b, Zenon
  <1>2. Setting' /\ setup' \in TasSetups
    BY <1>1 DEF TasInv, Setting, Tas!SettingsOf
  <1>3. Whole(tas', dac_power', wanted_tas') = Whole(tas, dac_power, wanted_tas)'
    BY <1>1 DEF Whole, Core, PowerAt, Rested, SilentAt, Remembered, KeptAt, Best, ArmedAt,
                HeardAt, Tas!Opmode
  <1>4. Whole(tas, dac_power, wanted_tas)'
    BY <1>1, <1>3, Zenon DEF TasKept
  <1> QED BY <1>1, <1>2, <1>4, Zenon DEF TasKept, TasInv

--------------------------------------------------------------------------------
(* The settings *)

SettingsInv ==
    /\ part \in Parts /\ WaveformsInv /\ AttributesInv /\ ConfigInv
    /\ SpeakersInv /\ TasInv /\ OldInv

LEMMA SettingsAssumed ==
    /\ Owt!WaveformsAssumption /\ Attributes!AttributesAssumption /\ Calib!CalibAssumption
    /\ Tas!TasAssumption /\ Old!TasAssumption /\ Config!ConfigAssumption
  BY SettingsAssumption, Zenon

LEMMA SettingsStart ==
    ASSUME Init
    PROVE  SettingsInv
  <1>1. part \in Parts /\ Owt!Init /\ Attributes!Init /\ Calib!Init /\ Tas!Init
        /\ Config!Init
    BY Zenon DEF Init
  <1>2. OldInv
    <2>1. /\ setup_old \in Start("tas256x", OldSetups)
          /\ setting_old \in Start("tas256x", Old!SettingsOf(setup_old)) /\ Old!Init
      BY Zenon DEF Init
    <2>2. setup_old \in OldSetups /\ setting_old \in Old!SettingsOf(setup_old)
      BY <2>1, Zenon DEF Old!Init
    <2> QED BY <2>1, <2>2, SettingsAssumed, OldStart, Zenon
  <1> QED BY <1>1, <1>2, SettingsAssumed, FreshWaveforms, AttributesInit, SpeakersInit, TasStart,
          ConfigStart, Zenon DEF SettingsInv

LEMMA SettingsGoOn ==
    ASSUME [Next]_vars
    PROVE  /\ part' = part
           /\ [Owt!Next]_waveform_vars /\ [Attributes!Next]_attribute_vars
           /\ [Calib!Next]_calib_vars /\ [Tas!Next]_tas_vars /\ [Old!Next]_old_vars
           /\ [Config!Next]_config_vars
  <1>1. CASE part = "attributes" /\ Attributes!Next /\ Others("attributes")
    <2>1. /\ part' = part /\ UNCHANGED waveform_vars /\ UNCHANGED calib_vars
          /\ UNCHANGED tas_vars /\ UNCHANGED old_vars /\ UNCHANGED config_vars
      BY <1>1 DEF Others
    <2> QED BY <1>1, <2>1, Zenon
  <1>2. CASE part = "speakers" /\ Calib!Next /\ Others("speakers")
    <2>1. /\ part' = part /\ UNCHANGED waveform_vars /\ UNCHANGED attribute_vars
          /\ UNCHANGED tas_vars /\ UNCHANGED old_vars /\ UNCHANGED config_vars
      BY <1>2 DEF Others
    <2> QED BY <1>2, <2>1, Zenon
  <1>3. CASE part = "tas25xx" /\ Tas!Next /\ Others("tas25xx")
    <2>1. /\ part' = part /\ UNCHANGED waveform_vars /\ UNCHANGED attribute_vars
          /\ UNCHANGED calib_vars /\ UNCHANGED old_vars /\ UNCHANGED config_vars
      BY <1>3 DEF Others
    <2> QED BY <1>3, <2>1, Zenon
  <1>4. CASE part = "tas256x" /\ Old!Next /\ Others("tas256x")
    <2>1. /\ part' = part /\ UNCHANGED waveform_vars /\ UNCHANGED attribute_vars
          /\ UNCHANGED calib_vars /\ UNCHANGED tas_vars /\ UNCHANGED config_vars
      BY <1>4 DEF Others
    <2> QED BY <1>4, <2>1, Zenon
  <1>5. CASE part = "waveforms" /\ Owt!Next /\ Others("waveforms")
    <2>1. /\ part' = part /\ UNCHANGED attribute_vars /\ UNCHANGED calib_vars
          /\ UNCHANGED tas_vars /\ UNCHANGED old_vars /\ UNCHANGED config_vars
      BY <1>5 DEF Others
    <2> QED BY <1>5, <2>1, Zenon
  <1>6. CASE part = "config" /\ Config!Next /\ Others("config")
    <2>1. /\ part' = part /\ UNCHANGED waveform_vars /\ UNCHANGED attribute_vars
          /\ UNCHANGED calib_vars /\ UNCHANGED tas_vars /\ UNCHANGED old_vars
      BY <1>6 DEF Others
    <2> QED BY <1>6, <2>1, Zenon
  <1>7. CASE UNCHANGED vars
    BY <1>7, Zenon DEF vars
  <1> QED BY <1>1, <1>2, <1>3, <1>4, <1>5, <1>6, <1>7, Zenon DEF Next

LEMMA SettingsGoKept ==
    ASSUME SettingsInv, [Next]_vars
    PROVE  SettingsInv'
  <1>1. part' \in Parts
    BY SettingsGoOn, Zenon DEF SettingsInv
  <1>2. WaveformsInv'
    BY SettingsGoOn, SettingsAssumed, WaveformsStep, Zenon DEF SettingsInv
  <1>3. AttributesInv' /\ SpeakersInv' /\ TasInv'
    BY SettingsGoOn, SettingsAssumed, AttributesStep, SpeakersStep, TasStep, Zenon DEF SettingsInv
  <1>4. OldInv'
    BY SettingsGoOn, SettingsAssumed, OldStep, Zenon DEF SettingsInv
  <1>5. ConfigInv'
    BY SettingsGoOn, SettingsAssumed, ConfigStep, Zenon DEF SettingsInv
  <1> QED BY <1>1, <1>2, <1>3, <1>4, <1>5, Zenon DEF SettingsInv

LEMMA SettingsAlways == Spec => []SettingsInv
  <1>1. Init => SettingsInv
    BY SettingsStart
  <1>2. SettingsInv /\ [Next]_vars => SettingsInv'
    BY SettingsGoKept
  <1> QED BY <1>1, <1>2, PTL DEF Spec

(* A slot that is triggered holds what was saved under its index, or was entered last,
   whatever was loaded into the slots, and whichever firmware and wavetable, in between
   (cs40l2x_cp_trigger_index_impl, cs40l2x_gpio_edge_index_set,
   cs40l2x_write_virtual_waveform), unless a load has erased it. *)
THEOREM SavedPlayed == Spec => []Owt!PlaysSaved
  <1>1. SettingsInv => Owt!PlaysSaved
    BY WaveformsSafe, SettingsAssumed, Zenon DEF SettingsInv
  <1> QED BY <1>1, SettingsAlways, PTL

(* Appending slots to a wavetable, whatever its waveforms and however much is granted, leaves
   every waveform where its entry says, and the slots lie behind them, beside each other and
   within what the firmware has room for (cs40l2x_add_wt_slots,
   cs40l2x_update_wt_header_offsets, cs40l2x_insert_comp_wt_header). *)
THEOREM SlotsBeside == Spec => []Owt!SlotsApart
  <1>1. SettingsInv => Owt!SlotsApart
    BY WaveformsSafe, SettingsAssumed, Zenon DEF SettingsInv
  <1> QED BY <1>1, SettingsAlways, PTL

(* cs40l2x_dyn_f0_table and cs40l2x_hw_err_chk, for any resonances and any limit of errors:
   what is shown of the table is what the DSP measured or was given, and an error that was
   given up on shows in its count.  tas25xx_calib_validation, for any rounds, resistances,
   requests and failures: a speaker that shows as calibrated or validated shows what the
   DSP answered last, the greatest excursion is not forgotten, and a resistance reads back
   as it was stored. *)
THEOREM ShownTruly == Spec => []ShownIsTrue
  <1>1. SettingsInv => ShownIsTrue
    <2> SUFFICES ASSUME SettingsInv PROVE ShownIsTrue
      OBVIOUS
    <2>1. Attributes!ResonancesShown /\ Attributes!GivenUpShown
      BY AttributesSafe, SettingsAssumed, Zenon DEF SettingsInv
    <2>2. Calib!ResultsShown /\ Calib!ExcursionsKept /\ Calib!Rounded
      BY SpeakersSafe, Zenon DEF SettingsInv
    <2> QED BY <2>1, <2>2 DEF ShownIsTrue
  <1> QED BY <1>1, SettingsAlways, PTL

(* cs40l2x_dsp_cache and the stores of attributes: whatever words share attributes and
   however often the chip loses its state, what was stored last in an attribute is in the
   chip while it has its state, and in the cache when it is to come back. *)
THEOREM AttributesInForce == Spec => []Attributes!InForce
  <1>1. SettingsInv => Attributes!InForce
    BY AttributesSafe, SettingsAssumed, Zenon DEF SettingsInv
  <1> QED BY <1>1, SettingsAlways, PTL

(* tas25xx_calib_validation: whatever fails, speakers are not left in calibration or
   validation; temperatures are read and set only in speakers that are not in calibration,
   and a stream starts with the calibration that is stored. *)
THEOREM SpeakersLeftClean == Spec => [](Calib!LeftClean /\ Calib!CalibrationSent)
  <1>1. SettingsInv => Calib!LeftClean /\ Calib!CalibrationSent
    BY SpeakersSafe, Zenon DEF SettingsInv
  <1> QED BY <1>1, SettingsAlways, PTL

(* The TAS25xx of two amplifiers, over any course of streams, faults, failed power-ups,
   suspends, works that end a power-up late and works that answer an interrupt: without a
   stream no chip is on or interrupts; a chip that is on has what was last set, over
   whatever resets it went through; a chip that plays can report a fault, and what it
   reports is looked at; each but for what is known to be mishandled, which is marked. *)
THEOREM ResetsMadeGood == Spec => []Tas!SmartAmpSound
  <1>1. SettingsInv => Tas!SmartAmpSound
    BY TasSafe, SettingsAssumed, Zenon DEF SettingsInv
  <1> QED BY <1>1, SettingsAlways, PTL

(* The TAS256x of two amplifiers, over any course of streams, switched channels, mutes,
   faults, resets that fail, reloads the algorithm asks for and suspends, with any chips and
   any limit of restarts: without a stream no chip is on; while one plays the device is not
   shut down and each channel that is switched on sounds, or its fault is being handled; a
   chip that is on has what was last set, over whatever resets it went through; and a fault
   that a playing chip reports is looked at; each but for what is known to be mishandled,
   which is marked.  With the TAS25xx and the speakers this is all that is claimed of the
   smart amplifiers. *)
THEOREM SmartAmpsSound == Spec => []SmartAmpSound
  <1>1. SettingsInv => SmartAmpSound
    <2> SUFFICES ASSUME SettingsInv PROVE SmartAmpSound
      OBVIOUS
    <2>1. Tas!SmartAmpSound
      BY TasSafe, SettingsAssumed, Zenon DEF SettingsInv
    <2>2. Old!SmartAmpSound
      BY OldSafe, SettingsAssumed, Zenon DEF SettingsInv
    <2>3. Calib!LeftClean /\ Calib!CalibrationSent
      BY SpeakersSafe, Zenon DEF SettingsInv
    <2> QED BY <2>1, <2>2, <2>3 DEF SmartAmpSound
  <1> QED BY <1>1, SettingsAlways, PTL

(* cs40l2x_firmware_load, cs40l2x_coeff_file_load: user space answers for the files of a
   firmware in any order, a file may be missing or refused, and any access may fail in
   between.  With the answer to the last file that was asked for the load is over, unless
   one was refused or one that is listed was not asked for; and a device that is offered has
   no answer outstanding and none of its files refused, whatever swaps, recoveries and
   suspends follow. *)
THEOREM AnswersAwaited == Spec => []Config!AllAnswered
  <1>1. SettingsInv => Config!AllAnswered
    BY ConfigSafe, Zenon DEF SettingsInv
  <1> QED BY <1>1, SettingsAlways, PTL

(* The driver's copies, the chips' words, what is saved of waveforms, what a load of firmware
   counts and what the works, streams and stores of the amplifiers and their speakers share
   keep their types. *)
THEOREM TypeCorrect == Spec => []TypeOK
  <1>1. SettingsInv => TypeOK
    <2> SUFFICES ASSUME SettingsInv PROVE TypeOK
      OBVIOUS
    <2>1. Owt!TypeOK /\ Attributes!TypeOK /\ Calib!TypeOK /\ Tas!TypeOK /\ Old!TypeOK
      BY WaveformsSafe, AttributesSafe, SpeakersSafe, TasSafe, OldSafe, SettingsAssumed, Zenon
         DEF SettingsInv
    <2>2. Config!TypeOK /\ part \in Parts
      BY ConfigSafe, Zenon DEF SettingsInv
    <2>3. part \in {"waveforms", "attributes", "config", "tas25xx", "tas256x", "speakers", "binary"}
      BY <2>2, SettingsAssumption, Zenon
    <2> QED BY <2>1, <2>2, <2>3 DEF TypeOK
  <1> QED BY <1>1, SettingsAlways, PTL
================================================================================
