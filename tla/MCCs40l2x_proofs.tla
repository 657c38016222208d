---------------------------- MODULE MCCs40l2x_proofs ----------------------------
(***************************************************************************)
(* Proofs about the driver of the CS40L25: its playback (Cs40l2xVibe), its *)
(* playback queue (Cs40l2xQueue) and its settings (Cs40l2xSettings), which *)
(* share nothing.  Each has a section of its own, with an inductive        *)
(* invariant for every property, its initial states and its steps; the     *)
(* last section has the invariant of the whole and the theorems.  The      *)
(* composite of a queue is parsed token by token: the first section has    *)
(* the induction over the string that this takes, from the well-founded    *)
(* order of the natural numbers.                                           *)
(***************************************************************************)
EXTENDS MCCs40l2x, Sequences, FiniteSets, NaturalsInduction, WellFoundedInduction,
        SequenceTheorems, TLAPS

--------------------------------------------------------------------------------
(* Induction and recursion over numbers, of sets and functions *)

LEMMA LeastNatural ==
    ASSUME NEW S, S \subseteq Nat, S # {}
    PROVE  \E n \in S : \A m \in S : n <= m
  <1>1. \E n \in S : \A m \in S : ~ (<<m, n>> \in OpToRel(<, Nat))
    BY NatLessThanWellFounded, WFMin
  <1>2. ASSUME NEW m \in Nat, NEW n \in Nat, ~ (<<m, n>> \in OpToRel(<, Nat))
        PROVE  n <= m
    BY <1>2 DEF OpToRel
  <1> QED BY <1>1, <1>2

(* What holds of 0, and of a number up to n if it holds of the one before, holds of n. *)
LEMMA Induction ==
    ASSUME NEW n \in Nat, NEW S, 0 \in S,
           \A m \in Nat : m < n /\ m \in S => m + 1 \in S
    PROVE  \A m \in 0..n : m \in S
  <1> SUFFICES ASSUME {m \in 0..n : m \notin S} # {} PROVE FALSE
    OBVIOUS
  <1>1. PICK m \in {k \in 0..n : k \notin S} : \A k \in {k \in 0..n : k \notin S} : m <= k
    <2>1. {k \in 0..n : k \notin S} \subseteq Nat
      OBVIOUS
    <2> QED BY <2>1, LeastNatural
  <1>2. m \in Nat /\ m # 0 /\ m <= n /\ m \notin S
    BY <1>1
  <1>3. m - 1 \in Nat /\ m - 1 < n /\ m - 1 \in 0..n /\ (m - 1) + 1 = m /\ ~(m <= m - 1)
    BY <1>2
  <1>4. m - 1 \in S
    BY <1>1, <1>3
  <1> QED BY <1>2, <1>3, <1>4

(* A function that is defined by steps exists. *)
Steps(T, n) == [1..n -> [T -> T]]

Iterates(g, T, base, n, step) ==
    g \in [0..n -> T] /\ g[0] = base /\ \A i \in 1..n : g[i] = step[i][g[i - 1]]

LEMMA Iteration ==
    ASSUME NEW T, NEW base \in T, NEW n \in Nat, NEW step \in Steps(T, n)
    PROVE  \E g : Iterates(g, T, base, n, step)
  <1> USE DEF Steps
  <1> DEFINE Iter(m) == \E g \in [0..m -> T] : g[0] = base /\ \A i \in 1..m : g[i] = step[i][g[i - 1]]
             Good == {m \in Nat : Iter(m)}
  <1>1. Iter(0)
    <2> DEFINE g == [i \in 0..0 |-> base]
    <2>1. g \in [0..0 -> T] /\ g[0] = base /\ \A i \in 1..0 : g[i] = step[i][g[i - 1]]
      OBVIOUS
    <2> QED BY <2>1
  <1>2. ASSUME NEW m \in Nat, m < n, Iter(m) PROVE Iter(m + 1)
    <2>1. PICK g \in [0..m -> T] : g[0] = base /\ \A i \in 1..m : g[i] = step[i][g[i - 1]]
      BY <1>2
    <2>2. step[m + 1] \in [T -> T] /\ g[m] \in T
      BY <1>2, <2>1
    <2>3. step[m + 1][g[m]] \in T
      BY <2>2
    <2> DEFINE h == [i \in 0..(m + 1) |-> IF i = m + 1 THEN step[m + 1][g[m]] ELSE g[i]]
    <2>4. h \in [0..(m + 1) -> T]
      BY <2>3
    <2>5. h[0] = base /\ \A i \in 0..m : h[i] = g[i]
      BY <1>2, <2>1
    <2>6. h[m + 1] = step[m + 1][h[m]]
      BY <1>2, <2>5
    <2>7. ASSUME NEW i \in 1..(m + 1) PROVE h[i] = step[i][h[i - 1]]
      <3> HIDE DEF h
      <3>1. CASE i = m + 1
        BY <3>1, <2>6, <1>2
      <3>2. CASE i # m + 1
        <4>1. i \in 1..m /\ i \in 0..m /\ i - 1 \in 0..m
          BY <3>2, <1>2
        <4> QED BY <4>1, <2>1, <2>5
      <3> QED BY <3>1, <3>2
    <2> QED BY <2>4, <2>5, <2>7
  <1> HIDE DEF Iter
  <1>3. 0 \in Good /\ \A m \in Nat : m < n /\ m \in Good => m + 1 \in Good
    BY <1>1, <1>2
  <1>4. n \in Good
    <2> HIDE DEF Good
    <2>1. \A m \in 0..n : m \in Good
      BY <1>3, Induction
    <2> QED BY <2>1
  <1> QED BY <1>4 DEF Iter, Iterates

--------------------------------------------------------------------------------
(* Cs40l2xVibe *)

LEMMA VibeConstants ==
    /\ FreshScale \in Scales /\ Scales \cap {"QUEUE", "RESET"} = {}
    /\ MaxWakes \in Nat \ {0}
BY PartsAssumption, Zenon DEF PartsAssumption, Vibe!VibeAssumption

Unique(q) == \A i, j \in 1..Len(q) : q[i] = q[j] => i = j

LEMMA EnqueueTyped ==
    ASSUME NEW q \in Seq(Vibe!Works), Unique(q), NEW w \in Vibe!Works
    PROVE  Vibe!Enqueue(q, w) \in Seq(Vibe!Works) /\ Unique(Vibe!Enqueue(q, w))
<1>1. CASE Vibe!Contains(q, w)
  BY <1>1 DEF Vibe!Enqueue
<1>2. CASE ~Vibe!Contains(q, w)
  <2>1. \A i \in 1..Len(q) : q[i] # w
    BY <1>2 DEF Vibe!Contains
  <2>2. Vibe!Enqueue(q, w) = Append(q, w)
    BY <1>2 DEF Vibe!Enqueue
  <2> QED BY <2>1, <2>2 DEF Unique
<1> QED BY <1>1, <1>2

LEMMA TailTyped ==
    ASSUME NEW q \in Seq(Vibe!Works), Unique(q), q # <<>>
    PROVE  Tail(q) \in Seq(Vibe!Works) /\ Unique(Tail(q)) /\ Head(q) \in Vibe!Works
BY DEF Unique

LEMMA NotifiedTyped ==
    ASSUME NEW q \in Seq(Vibe!Works), Unique(q)
    PROVE  Vibe!Notified(q) \in Seq(Vibe!Works) /\ Unique(Vibe!Notified(q))
<1> DEFINE Mode(p, stop) == IF stop /\ "asp" \notin setup THEN Vibe!Enqueue(p, "mode") ELSE p
           Pbq(p) == IF trigger_stop THEN Vibe!Enqueue(p, "pbq") ELSE p
           VibeTyped(p) == p \in Seq(Vibe!Works) /\ Unique(p)
<1>1. ASSUME NEW p, VibeTyped(p), NEW stop PROVE VibeTyped(Mode(p, stop)) /\ VibeTyped(Pbq(p))
  BY <1>1, EnqueueTyped DEF Vibe!Works
<1>2. Vibe!Notified(q) = Mode(Pbq(Mode(q, gpio_stop)), trigger_stop)
  BY DEF Vibe!Notified
<1> HIDE DEF Mode, Pbq
<1>3. VibeTyped(Mode(q, gpio_stop))
  BY <1>1
<1>4. VibeTyped(Pbq(Mode(q, gpio_stop)))
  BY <1>1, <1>3
<1>5. VibeTyped(Mode(Pbq(Mode(q, gpio_stop)), trigger_stop))
  BY <1>1, <1>4
<1> QED BY <1>2, <1>5

LEMMA SaturateTyped ==
    ASSUME NEW n \in Int
    PROVE  Vibe!Saturate(n) \in -MaxWakes..MaxWakes
BY VibeConstants DEF Vibe!Saturate

--------------------------------------------------------------------------------
VibeQueue == queue \in Seq(Vibe!Works) /\ Unique(queue)

(* The queue holds each work at most once. *)
LEMMA VibeQueueStep == VibeQueue /\ [Vibe!Next]_vibe_vars => VibeQueue'
<1> SUFFICES ASSUME VibeQueue, [Vibe!Next]_vibe_vars PROVE VibeQueue'
  OBVIOUS
<1> USE DEF VibeQueue
<1>e. \A w \in Vibe!Works : Vibe!Enqueue(queue, w) \in Seq(Vibe!Works) /\ Unique(Vibe!Enqueue(queue, w))
  BY EnqueueTyped
<1>1. CASE UNCHANGED queue
  BY <1>1
<1>2. CASE \E w : Vibe!Runs(w)
  BY <1>2, TailTyped DEF Vibe!Runs
<1>3. CASE \E w \in Vibe!Works : queue' = Vibe!Enqueue(queue, w)
  BY <1>3, <1>e
<1>4. CASE queue' = Vibe!Notified(queue)
  BY <1>4, NotifiedTyped
<1>5. CASE Vibe!StartChecks \/ Vibe!StopWork \/ Vibe!ModeWork \/ Vibe!PbqWork
  BY <1>2, <1>5 DEF Vibe!StartChecks, Vibe!StopWork, Vibe!ModeWork, Vibe!PbqWork
<1>6. CASE Vibe!StartLaunches
  BY <1>1, <1>6 DEF Vibe!StartLaunches, Vibe!StartUnadministered, Vibe!StartEffect,
       Vibe!StartQueue, Vibe!StartMeasure
<1>7. CASE Vibe!Irq
  BY <1>1, <1>4, <1>7 DEF Vibe!Irq
<1>8. CASE Vibe!PbqTimer \/ Vibe!AspTimer \/ \E w \in {"start", "stop"} : Vibe!Request(w)
  BY <1>3, <1>8 DEF Vibe!PbqTimer, Vibe!AspTimer, Vibe!Request, Vibe!Works
<1>9. CASE \/ \E e \in Vibe!Indices : Vibe!StoreIndex(e)
           \/ \E s \in Scales : Vibe!StoreScale(s)
  BY <1>1, <1>9 DEF Vibe!StoreIndex, Vibe!StoreScale
<1>10. CASE Vibe!SwapFirmware \/ Vibe!HwReset \/ Vibe!ClkEn \/ Vibe!DspEnds \/ Vibe!DspPad \/ Vibe!ChipBreaks
  BY <1>1, <1>10 DEF Vibe!SwapFirmware, Vibe!HwReset, Vibe!ClkEn, Vibe!DspEnds, Vibe!DspPad,
       Vibe!ChipBreaks
<1>11. CASE UNCHANGED vibe_vars
  BY <1>1, <1>11 DEF vibe_vars
<1> QED
  BY <1>5, <1>6, <1>7, <1>8, <1>9, <1>10, <1>11 DEF Vibe!Next, Vibe!Work

--------------------------------------------------------------------------------
VibeDriver ==
    /\ setup \in Setups /\ lock \in {"FREE", "START"}
    /\ vibe_state \in {"RUNNING", "STOPPED"} /\ wakes \in -MaxWakes..MaxWakes
    /\ pbq_state \in {"IDLE", "PLAYING", "SILENT"}
    /\ cp_trigger_index \in Vibe!Indices /\ cp_trailer_index \in Vibe!Indices \cup {"IDLE"}
    /\ diag_state \in {"INIT", "RUN1", "DONE1", "RUN2", "DONE2"}
    /\ vibe_fw \in {"REMAP", "CAL"}

VibeGains ==
    /\ user_scale \in Scales \cup {"QUEUE"} /\ scale \in Scales \cup {"QUEUE"}
    /\ pbq_cp_dig_scale \in Scales \cup {"QUEUE", "RESET"}
    /\ dig_scale \in {"USER", "ZERO"} /\ diag_dig_scale \in {"USER", "ZERO", "RESET"}

VibeDsp ==
    /\ vibe_chip \in {"OK", "LOST", "PANIC", "PARKED"}
    /\ plays \in {"NONE", "TONE", "CLICK", "PBQ", "PAD"} \cup Vibe!Continuous
    /\ a2h_enable \in BOOLEAN /\ grounded \in BOOLEAN /\ ending \in BOOLEAN
    /\ trigger_stop \in BOOLEAN /\ gpio_stop \in BOOLEAN
    /\ pbq_timer \in BOOLEAN /\ asp_timer \in BOOLEAN

VibeTyped == VibeDriver /\ VibeGains /\ VibeDsp

(* The driver's, the DSP's and the chip's state keep their types, and no work is queued
   twice. *)
LEMMA VibeTypedInit ==
    ASSUME Vibe!Init
    PROVE  VibeTyped /\ VibeQueue
<1> SUFFICES ASSUME Vibe!Init PROVE VibeTyped /\ VibeQueue
  OBVIOUS
<1>1. VibeDriver /\ VibeGains
  BY VibeConstants DEF Vibe!Init, VibeDriver, VibeGains, Vibe!Indices, Vibe!Continuous
<1>2. ("gnd" \in setup) \in BOOLEAN
  OBVIOUS
<1>3. VibeDsp
  BY <1>2 DEF Vibe!Init, VibeDsp
<1>4. VibeQueue
  BY DEF Vibe!Init, VibeQueue, Unique
<1> QED BY <1>1, <1>3, <1>4 DEF VibeTyped

LEMMA VibeTypedStep ==
    ASSUME VibeTyped, [Vibe!Next]_vibe_vars
    PROVE  VibeTyped'
<1> SUFFICES ASSUME VibeTyped, [Vibe!Next]_vibe_vars PROVE VibeTyped'
  OBVIOUS
<1>s. /\ Vibe!Saturate(wakes - 1) \in -MaxWakes..MaxWakes
      /\ Vibe!Saturate(Vibe!Applied) \in -MaxWakes..MaxWakes
      /\ Vibe!Saturate(Vibe!Applied - 1) \in -MaxWakes..MaxWakes
  <2>1. wakes \in Int /\ Vibe!Applied \in Int
    BY VibeConstants DEF VibeTyped, VibeDriver, Vibe!Applied
  <2> QED BY <2>1, SaturateTyped
<1>d. FreshScale \in Scales
  BY VibeConstants
<1>b. ("gnd" \in setup) \in BOOLEAN /\ (grounded \/ "gnd" \in setup) \in BOOLEAN
  OBVIOUS
<1> USE DEF Vibe!vibe, Vibe!index, Vibe!scales, Vibe!measure, Vibe!dsp, Vibe!timers
<1>1. CASE Vibe!StartChecks
  <2>1. VibeDriver'
    BY <1>1, <1>s, <1>d DEF VibeTyped, VibeDriver, Vibe!StartChecks, Vibe!Recover,
         Vibe!RecoverFails,
       Vibe!Loaded, Vibe!Silent
  <2>2. VibeGains'
    BY <1>1, <1>d DEF VibeTyped, VibeGains, Vibe!StartChecks, Vibe!Recover, Vibe!RecoverFails,
       Vibe!Loaded, Vibe!Silent
  <2>3. VibeDsp'
    BY <1>1, <1>b DEF VibeTyped, VibeDsp, Vibe!StartChecks, Vibe!Recover, Vibe!RecoverFails,
       Vibe!Loaded, Vibe!Silent
  <2> QED BY <2>1, <2>2, <2>3 DEF VibeTyped
<1>2. CASE Vibe!StartUnadministered
  BY <1>2 DEF VibeTyped, VibeDriver, VibeGains, VibeDsp, Vibe!StartUnadministered,
       Vibe!Launching
<1>3. CASE Vibe!StartEffect
  <2>1. VibeDriver' /\ VibeGains'
    BY <1>3, <1>s, ZenonT(60) DEF VibeTyped, VibeDriver, VibeGains, Vibe!StartEffect, Vibe!Launching,
         Vibe!Launched, Vibe!LaunchFailed
  <2>2. VibeDsp'
    BY <1>3, ZenonT(60) DEF VibeTyped, VibeDsp, Vibe!StartEffect, Vibe!Trigger, Vibe!Continuous
  <2> QED BY <2>1, <2>2 DEF VibeTyped
<1>4. CASE Vibe!StartQueue
  <2>1. VibeDriver'
    BY <1>4, <1>s DEF VibeTyped, VibeDriver, Vibe!StartQueue, Vibe!Launching, Vibe!Launched,
         Vibe!LaunchFailed,
       Vibe!QueuePlays, Vibe!QueueWaits, Vibe!QueueEnds, Vibe!QueuePlayFails, Vibe!QueueEndFails
  <2>2. VibeGains'
    BY <1>4 DEF VibeTyped, VibeGains, Vibe!StartQueue, Vibe!QueuePlays, Vibe!QueueWaits,
         Vibe!QueueEnds,
       Vibe!QueuePlayFails, Vibe!QueueEndFails
  <2>3. VibeDsp'
    BY <1>4 DEF VibeTyped, VibeDsp, Vibe!StartQueue, Vibe!QueuePlays, Vibe!QueueWaits,
         Vibe!QueueEnds, Vibe!QueuePlayFails,
       Vibe!QueueEndFails, Vibe!Trigger
  <2> QED BY <2>1, <2>2, <2>3 DEF VibeTyped
<1>5. CASE Vibe!StartMeasure
  <2>1. VibeDriver'
    BY <1>5, <1>s, <1>d DEF VibeTyped, VibeDriver, Vibe!StartMeasure, Vibe!Launching,
       Vibe!Launched, Vibe!LaunchFailed
  <2>2. VibeGains'
    BY <1>5, <1>d DEF VibeTyped, VibeGains, Vibe!StartMeasure, Vibe!Launching,
       Vibe!Launched, Vibe!LaunchFailed
  <2>3. VibeDsp'
    BY <1>5, <1>b DEF VibeTyped, VibeDsp, Vibe!StartMeasure, Vibe!Launching,
       Vibe!Launched, Vibe!LaunchFailed
  <2> QED BY <2>1, <2>2, <2>3 DEF VibeTyped
<1>6. CASE Vibe!StopWork
  <2>1. VibeDriver'
    BY <1>6, <1>s DEF VibeTyped, VibeDriver, Vibe!StopWork, Vibe!StopContinuous,
         Vibe!StopClick, Vibe!StopQueue,
       Vibe!StopMeasure, Vibe!StopNothing, Vibe!Relax
  <2>2. VibeGains'
    BY <1>6 DEF VibeTyped, VibeGains, Vibe!StopWork, Vibe!StopContinuous, Vibe!StopClick,
         Vibe!StopQueue, Vibe!StopMeasure,
       Vibe!StopNothing
  <2>3. VibeDsp'
    <3>1. CASE Vibe!StopContinuous \/ Vibe!StopClick \/ Vibe!StopQueue
      BY <1>6, <3>1 DEF VibeTyped, VibeDsp, Vibe!StopWork, Vibe!StopContinuous,
           Vibe!StopClick, Vibe!StopQueue,
         Vibe!StopPlayback, Vibe!Silent, Vibe!Busy
    <3>2. CASE Vibe!StopMeasure \/ Vibe!StopNothing
      BY <1>6, <3>2 DEF VibeTyped, VibeDsp, Vibe!StopWork, Vibe!StopMeasure, Vibe!StopNothing
    <3> QED BY <1>6, <3>1, <3>2 DEF Vibe!StopWork
  <2> QED BY <2>1, <2>2, <2>3 DEF VibeTyped
<1>7. CASE Vibe!ModeWork
  <2>1. VibeDriver'
    BY <1>7, <1>s, <1>d DEF VibeTyped, VibeDriver, Vibe!ModeWork, Vibe!Relax
  <2>2. VibeGains'
    BY <1>7, <1>d DEF VibeTyped, VibeGains, Vibe!ModeWork, Vibe!Relax
  <2>3. VibeDsp'
    BY <1>7, <1>b DEF VibeTyped, VibeDsp, Vibe!ModeWork, Vibe!Relax
  <2> QED BY <2>1, <2>2, <2>3 DEF VibeTyped
<1>8. CASE Vibe!PbqWork
  <2>1. VibeDriver'
    BY <1>8, <1>s DEF VibeTyped, VibeDriver, Vibe!PbqWork, Vibe!QueuePlays, Vibe!QueueWaits,
         Vibe!QueuePlayFails,
       Vibe!QueueEndFails, Vibe!QueueEnds, Vibe!Relax
  <2>2. VibeGains'
    BY <1>8 DEF VibeTyped, VibeGains, Vibe!PbqWork, Vibe!QueuePlays, Vibe!QueueWaits,
         Vibe!QueuePlayFails,
       Vibe!QueueEndFails, Vibe!QueueEnds
  <2>3. VibeDsp'
    BY <1>8 DEF VibeTyped, VibeDsp, Vibe!PbqWork, Vibe!QueuePlays, Vibe!QueueWaits,
         Vibe!QueuePlayFails,
       Vibe!QueueEndFails, Vibe!QueueEnds, Vibe!Trigger
  <2> QED BY <2>1, <2>2, <2>3 DEF VibeTyped
<1>9. CASE Vibe!Irq
  <2>1. VibeDriver'
    BY <1>9, <1>s, <1>d DEF VibeTyped, VibeDriver, Vibe!Irq, Vibe!Recover, Vibe!RecoverFails,
         Vibe!Loaded, Vibe!Silent
  <2>2. VibeGains'
    BY <1>9, <1>d DEF VibeTyped, VibeGains, Vibe!Irq, Vibe!Recover, Vibe!RecoverFails,
         Vibe!Loaded, Vibe!Silent
  <2>3. VibeDsp'
    BY <1>9, <1>b DEF VibeTyped, VibeDsp, Vibe!Irq, Vibe!Recover, Vibe!RecoverFails,
         Vibe!Loaded, Vibe!Silent
  <2> QED BY <2>1, <2>2, <2>3 DEF VibeTyped
<1>10. CASE Vibe!PbqTimer \/ Vibe!AspTimer \/ \E w \in {"start", "stop"} : Vibe!Request(w)
  BY <1>10 DEF VibeTyped, VibeDriver, VibeGains, VibeDsp, Vibe!PbqTimer, Vibe!AspTimer,
       Vibe!Request
<1>11. CASE \E e \in Vibe!Indices : Vibe!StoreIndex(e)
  <2>1. VibeDriver'
    BY <1>11, <1>s, <1>d DEF VibeTyped, VibeDriver, Vibe!StoreIndex, Vibe!Swap, Vibe!Loaded,
         Vibe!Silent
  <2>2. VibeGains'
    BY <1>11, <1>d DEF VibeTyped, VibeGains, Vibe!StoreIndex, Vibe!Swap, Vibe!Loaded,
         Vibe!Silent
  <2>3. VibeDsp'
    BY <1>11, <1>b DEF VibeTyped, VibeDsp, Vibe!StoreIndex, Vibe!Swap, Vibe!Loaded, Vibe!Silent
  <2> QED BY <2>1, <2>2, <2>3 DEF VibeTyped
<1>12. CASE \E s \in Scales : Vibe!StoreScale(s)
  BY <1>12 DEF VibeTyped, VibeDriver, VibeGains, VibeDsp, Vibe!StoreScale
<1>13. CASE Vibe!SwapFirmware
  <2>1. VibeDriver'
    BY <1>13, <1>s, <1>d DEF VibeTyped, VibeDriver, Vibe!SwapFirmware, Vibe!Swap, Vibe!Loaded,
         Vibe!Silent
  <2>2. VibeGains'
    BY <1>13, <1>d DEF VibeTyped, VibeGains, Vibe!SwapFirmware, Vibe!Swap, Vibe!Loaded,
         Vibe!Silent
  <2>3. VibeDsp'
    BY <1>13, <1>b DEF VibeTyped, VibeDsp, Vibe!SwapFirmware, Vibe!Swap, Vibe!Loaded,
         Vibe!Silent
  <2> QED BY <2>1, <2>2, <2>3 DEF VibeTyped
<1>14. CASE Vibe!HwReset
  <2>1. VibeDriver'
    BY <1>14, <1>s, <1>d DEF VibeTyped, VibeDriver, Vibe!HwReset, Vibe!Loaded, Vibe!Silent
  <2>2. VibeGains'
    BY <1>14, <1>d DEF VibeTyped, VibeGains, Vibe!HwReset, Vibe!Loaded, Vibe!Silent
  <2>3. VibeDsp'
    BY <1>14, <1>b DEF VibeTyped, VibeDsp, Vibe!HwReset, Vibe!Loaded, Vibe!Silent
  <2> QED BY <2>1, <2>2, <2>3 DEF VibeTyped
<1>15. CASE Vibe!ClkEn \/ Vibe!DspEnds \/ Vibe!DspPad \/ Vibe!ChipBreaks
  BY <1>15 DEF VibeTyped, VibeDriver, VibeGains, VibeDsp, Vibe!ClkEn, Vibe!DspEnds,
       Vibe!DspPad, Vibe!ChipBreaks, Vibe!Silent
<1>16. CASE UNCHANGED vibe_vars
  BY <1>16 DEF vibe_vars, VibeTyped, VibeDriver, VibeGains, VibeDsp
<1> QED
  BY <1>1, <1>2, <1>3, <1>4, <1>5, <1>6, <1>7, <1>8, <1>9, <1>10, <1>11, <1>12, <1>13, <1>14,
     <1>15, <1>16 DEF Vibe!Next, Vibe!Work, Vibe!StartLaunches

LEMMA VibeTypedSafe ==
    ASSUME VibeTyped /\ VibeQueue
    PROVE  Vibe!TypeOK
  BY DEF VibeTyped, VibeDriver, VibeGains, VibeDsp, VibeQueue, Unique, Vibe!TypeOK

--------------------------------------------------------------------------------
(* On every board, and however ends, starts, stops and recoveries interleave, the amplifier
   is not clamped while the DSP plays what the driver has it play. *)
LEMMA VibeFreeInit ==
    ASSUME Vibe!Init
    PROVE  Vibe!FreeWhilePlaying
  BY DEF Vibe!Init, Vibe!FreeWhilePlaying, Vibe!DriversOwn

LEMMA VibeFreeStep ==
    ASSUME Vibe!TypeOK, Vibe!FreeWhilePlaying, [Vibe!Next]_vibe_vars
    PROVE  Vibe!FreeWhilePlaying'
<1> SUFFICES ASSUME Vibe!TypeOK, Vibe!FreeWhilePlaying, [Vibe!Next]_vibe_vars,
                    vibe_chip' = "OK", Vibe!DriversOwn', "faults" \notin setup'
             PROVE  ~grounded'
  BY DEF Vibe!FreeWhilePlaying
<1>t. plays # "IDLE" /\ cp_trailer_index \in {"VIBE", "PEAK", "DIAG", "QEST", "CLICK", "PBQ", "IDLE"}
  BY DEF Vibe!TypeOK, Vibe!Indices, Vibe!Continuous, Vibe!Measures
<1> USE DEF Vibe!FreeWhilePlaying, Vibe!DriversOwn, Vibe!vibe, Vibe!index, Vibe!scales,
     Vibe!measure, Vibe!dsp, Vibe!timers
<1>1. CASE Vibe!StartChecks
  BY <1>1, <1>t DEF Vibe!StartChecks, Vibe!Recover, Vibe!RecoverFails, Vibe!Loaded, Vibe!Silent
<1>2. CASE Vibe!StartUnadministered
  BY <1>2, <1>t DEF Vibe!StartUnadministered
<1>3. CASE Vibe!StartEffect
  BY <1>3, <1>t DEF Vibe!StartEffect, Vibe!AckFails
<1>4. CASE Vibe!StartQueue
  BY <1>4, <1>t DEF Vibe!StartQueue, Vibe!QueuePlays, Vibe!QueueWaits, Vibe!QueueEnds,
       Vibe!QueuePlayFails,
     Vibe!QueueEndFails, Vibe!AccessFails, Vibe!AckFails, Vibe!TypeOK
<1>5. CASE Vibe!StartMeasure
  <2>1. plays' \notin Vibe!Measures
    BY <1>5 DEF Vibe!StartMeasure, Vibe!TypeOK, Vibe!Continuous, Vibe!Measures
  <2> QED BY <1>5, <2>1 DEF Vibe!StartMeasure
<1>6. CASE Vibe!StopWork
  <2>1. cp_trailer_index' = "IDLE" /\ plays' # "IDLE"
    BY <1>6, <1>t DEF Vibe!StopWork, Vibe!StopContinuous, Vibe!StopClick, Vibe!StopQueue,
         Vibe!StopMeasure,
       Vibe!StopNothing, Vibe!StopPlayback, Vibe!Silent
  <2> QED BY <2>1
<1>7. CASE Vibe!ModeWork
  BY <1>7, <1>t DEF Vibe!ModeWork, Vibe!Busy
<1>8. CASE Vibe!PbqWork
  BY <1>8, <1>t DEF Vibe!PbqWork, Vibe!QueuePlays, Vibe!QueueWaits, Vibe!QueuePlayFails,
       Vibe!QueueEndFails,
     Vibe!QueueEnds, Vibe!AccessFails, Vibe!AckFails, Vibe!Busy
<1>9. CASE Vibe!Irq
  BY <1>9, <1>t DEF Vibe!Irq, Vibe!Recover, Vibe!RecoverFails, Vibe!Loaded, Vibe!Silent
<1>10. CASE Vibe!PbqTimer \/ Vibe!AspTimer \/ \E w \in {"start", "stop"} : Vibe!Request(w)
  BY <1>10 DEF Vibe!PbqTimer, Vibe!AspTimer, Vibe!Request
<1>11. CASE \E e \in Vibe!Indices : Vibe!StoreIndex(e)
  BY <1>11, <1>t DEF Vibe!StoreIndex, Vibe!Swap, Vibe!Loaded, Vibe!Silent
<1>12. CASE \E s \in Scales : Vibe!StoreScale(s)
  BY <1>12 DEF Vibe!StoreScale
<1>13. CASE Vibe!SwapFirmware \/ Vibe!HwReset
  BY <1>13, <1>t DEF Vibe!SwapFirmware, Vibe!Swap, Vibe!HwReset, Vibe!Loaded, Vibe!Silent
<1>14. CASE Vibe!ClkEn
  BY <1>14 DEF Vibe!ClkEn
<1>15. CASE Vibe!DspEnds \/ Vibe!DspPad \/ Vibe!ChipBreaks
  BY <1>15, <1>t DEF Vibe!DspEnds, Vibe!DspPad, Vibe!ChipBreaks, Vibe!Silent
<1>16. CASE UNCHANGED vibe_vars
  BY <1>16 DEF vibe_vars
<1> QED
  BY <1>1, <1>2, <1>3, <1>4, <1>5, <1>6, <1>7, <1>8, <1>9, <1>10, <1>11, <1>12, <1>13, <1>14,
     <1>15, <1>16 DEF Vibe!Next, Vibe!Work, Vibe!StartLaunches

--------------------------------------------------------------------------------
(* The count agrees with vibe_state, but for what stops of queues that could not be launched
   have relaxed too much.  A queue is in its states only while it is what is played, while
   the driver takes itself to run, and with a scale to return to; a start that has passed
   its checks finds none. *)
Lagging == Vibe!Blockers(vibe_state) - MaxWakes <= wakes /\ wakes <= Vibe!Blockers(vibe_state)

QueueHeld ==
    pbq_state # "IDLE" =>
        /\ cp_trailer_index = "PBQ" /\ vibe_state = "RUNNING"
        /\ vibe_chip # "PARKED" /\ pbq_cp_dig_scale # "RESET"

Checked == lock = "START" => ~Vibe!StartRefused

StreamTold == a2h_enable => "a2h" \in setup

VibeWake == {"a2h", "faults"} \cap setup = {} => Lagging /\ QueueHeld /\ Checked /\ StreamTold

WakeStep ==
    \/ {"a2h", "faults"} \cap setup # {} \/ Vibe!Orphaned
    \/ wakes' - wakes = Vibe!Blockers(vibe_state') - Vibe!Blockers(vibe_state)

(* Without streams and failures, every step of driver, DSP, recovery and user moves the
   suspend blocker by as much as vibe_state, except the stop of a queue that could not be
   launched. *)
LEMMA VibeWakeInit ==
    ASSUME Vibe!Init
    PROVE  VibeWake
  BY VibeConstants DEF Vibe!Init, VibeWake, Lagging, QueueHeld, Checked, StreamTold,
       Vibe!Blockers

LEMMA VibeWakeStep ==
    ASSUME Vibe!TypeOK, Vibe!TypeOK', VibeWake, [Vibe!Next]_vibe_vars
    PROVE  VibeWake' /\ (WakeStep \/ UNCHANGED vibe_vars)
<1>0. ASSUME [Vibe!Next]_vibe_vars PROVE setup' = setup
  BY <1>0 DEF Vibe!Next, vibe_vars, Vibe!Work, Vibe!StartLaunches, Vibe!StartChecks,
       Vibe!StartUnadministered, Vibe!StartEffect,
     Vibe!StartQueue, Vibe!StartMeasure, Vibe!StopWork, Vibe!ModeWork, Vibe!PbqWork,
     Vibe!PbqTimer, Vibe!AspTimer, Vibe!Irq, Vibe!Request,
     Vibe!StoreIndex, Vibe!StoreScale, Vibe!SwapFirmware, Vibe!HwReset, Vibe!ClkEn,
     Vibe!DspEnds, Vibe!DspPad, Vibe!ChipBreaks
<1> SUFFICES ASSUME Vibe!TypeOK, Vibe!TypeOK', [Vibe!Next]_vibe_vars, setup' = setup,
                    {"a2h", "faults"} \cap setup = {},
                    Lagging, QueueHeld, Checked, StreamTold
             PROVE  Lagging' /\ QueueHeld' /\ Checked' /\ StreamTold' /\ WakeStep
  BY <1>0 DEF VibeWake, WakeStep
<1>f. "a2h" \notin setup /\ "faults" \notin setup /\ ~a2h_enable
  BY DEF StreamTold
<1>n. MaxWakes \in Nat \ {0} /\ wakes \in Int
      /\ vibe_state \in {"RUNNING", "STOPPED"} /\ vibe_state' \in {"RUNNING", "STOPPED"}
  BY VibeConstants DEF Vibe!TypeOK
<1>m. Vibe!Blockers("RUNNING") = 1 /\ Vibe!Blockers("STOPPED") = 0
  BY DEF Vibe!Blockers
<1>a. ASSUME UNCHANGED <<vibe_state, wakes>> PROVE Lagging' /\ WakeStep
  BY <1>a, <1>n, <1>m DEF Lagging, WakeStep
<1>b. ASSUME Vibe!Relax, vibe_state = "RUNNING" \/ Vibe!Orphaned PROVE Lagging' /\ WakeStep
  BY <1>b, <1>n, <1>m DEF Vibe!Relax, Vibe!Saturate, Lagging, WakeStep, Vibe!Orphaned
<1>c. ASSUME vibe_state' = "STOPPED",
             wakes' = IF vibe_state = "RUNNING" THEN Vibe!Saturate(wakes - 1) ELSE wakes
      PROVE  Lagging' /\ WakeStep
  BY <1>c, <1>n, <1>m DEF Vibe!Saturate, Lagging, WakeStep
<1>d. ASSUME Vibe!Launched \/ Vibe!LaunchFailed \/ (vibe_state' = "STOPPED" /\ wakes' = Vibe!Saturate(Vibe!Applied - 1) /\ Vibe!Running)
      PROVE  Lagging' /\ WakeStep
  BY <1>d, <1>n, <1>m DEF Vibe!Launched, Vibe!LaunchFailed, Vibe!Applied, Vibe!Running,
       Vibe!Enters, Vibe!Saturate, Lagging, WakeStep
<1>e. ASSUME UNCHANGED <<vibe_state, pbq_state, cp_trailer_index, pbq_cp_dig_scale>>, vibe_chip' # "PARKED"
      PROVE  QueueHeld'
  BY <1>e DEF QueueHeld
<1> USE DEF Vibe!vibe, Vibe!index, Vibe!scales, Vibe!measure, Vibe!dsp, Vibe!timers
<1>1. CASE Vibe!StartChecks
  <2>1. Lagging' /\ WakeStep
    BY <1>1, <1>a, <1>c, <1>f DEF Vibe!StartChecks, Vibe!Recover, Vibe!RecoverFails
  <2>2. QueueHeld' /\ Checked' /\ StreamTold'
    BY <1>1, <1>f DEF Vibe!StartChecks, Vibe!Recover, Vibe!RecoverFails, QueueHeld, Checked,
         Vibe!StartRefused,
       StreamTold, Vibe!Runs, Vibe!Measures, Vibe!Loaded
  <2> QED BY <2>1, <2>2
<1>2. CASE Vibe!StartLaunches
  <2>0. lock = "START" /\ lock' = "FREE" /\ pbq_state = "IDLE"
    BY <1>2 DEF Vibe!StartLaunches, Vibe!StartUnadministered, Vibe!StartEffect,
         Vibe!StartQueue, Vibe!StartMeasure,
       Vibe!Launching, Checked, Vibe!StartRefused, QueueHeld
  <2>1. CASE Vibe!StartUnadministered
    BY <2>0, <2>1, <1>a DEF Vibe!StartUnadministered, QueueHeld, Checked, StreamTold
  <2>2. CASE Vibe!StartEffect
    BY <2>0, <2>2, <1>d DEF Vibe!StartEffect, QueueHeld, Checked, StreamTold
  <2>3. CASE Vibe!StartQueue
    <3>1. Vibe!Running
      BY <2>3 DEF Vibe!StartQueue, Vibe!Running, Vibe!Enters
    <3>2. Lagging' /\ WakeStep
      BY <2>3, <3>1, <1>d DEF Vibe!StartQueue
    <3>3. scale # "RESET"
      BY VibeConstants DEF Vibe!TypeOK
    <3>4. QueueHeld'
      BY <2>0, <2>3, <3>1, <3>3 DEF Vibe!StartQueue, Vibe!Launched, Vibe!QueuePlays,
           Vibe!QueueWaits, Vibe!QueueEnds,
         Vibe!QueuePlayFails, Vibe!QueueEndFails, Vibe!Reachable, QueueHeld
    <3> QED BY <2>0, <2>3, <3>2, <3>4 DEF Vibe!StartQueue, Checked, StreamTold
  <2>4. CASE Vibe!StartMeasure
    BY <2>0, <2>4, <1>d DEF Vibe!StartMeasure, QueueHeld, Checked, StreamTold
  <2> QED BY <1>2, <2>1, <2>2, <2>3, <2>4 DEF Vibe!StartLaunches
<1>3. CASE Vibe!StopWork
  <2>1. Checked' /\ StreamTold'
    BY <1>3 DEF Vibe!StopWork, Vibe!Runs, Checked, StreamTold
  <2>2. CASE Vibe!StopContinuous \/ Vibe!StopClick \/ Vibe!StopMeasure \/ Vibe!StopNothing
    <3>1. pbq_state' = "IDLE"
      BY <2>2 DEF Vibe!StopContinuous, Vibe!StopClick, Vibe!StopMeasure, Vibe!StopNothing,
           QueueHeld, Vibe!Continuous, Vibe!Measures
    <3>2. UNCHANGED <<vibe_state, wakes>> \/ (Vibe!Relax /\ vibe_state = "RUNNING")
      BY <2>2, <1>n DEF Vibe!StopContinuous, Vibe!StopClick, Vibe!StopMeasure, Vibe!StopNothing
    <3> QED BY <2>1, <3>1, <3>2, <1>a, <1>b DEF QueueHeld
  <2>3. CASE Vibe!StopQueue
    <3>1. vibe_state = "RUNNING" \/ Vibe!Orphaned
      BY <2>3, <1>n DEF Vibe!StopQueue, Vibe!Orphaned
    <3>2. UNCHANGED <<vibe_state, wakes>> \/ Vibe!Relax
      BY <2>3 DEF Vibe!StopQueue
    <3>3. pbq_state' = "IDLE"
      BY <2>3, <1>f DEF Vibe!StopQueue, Vibe!StopPlayback, Vibe!AccessFails, QueueHeld
    <3> QED BY <2>1, <3>1, <3>2, <3>3, <1>a, <1>b DEF QueueHeld
  <2> QED BY <1>3, <2>2, <2>3 DEF Vibe!StopWork
<1>4. CASE Vibe!ModeWork
  <2>1. UNCHANGED <<vibe_state, wakes>> \/ (Vibe!Relax /\ vibe_state = "RUNNING" /\ pbq_state = "IDLE")
    BY <1>4, <1>f DEF Vibe!ModeWork
  <2>2. QueueHeld' /\ Checked' /\ StreamTold'
    BY <1>4, <2>1 DEF Vibe!ModeWork, Vibe!Runs, QueueHeld, Checked, StreamTold
  <2> QED BY <2>1, <2>2, <1>a, <1>b
<1>5. CASE Vibe!PbqWork
  <2>1. \/ UNCHANGED <<vibe_state, wakes, cp_trailer_index>>
           /\ (pbq_state = "IDLE" => pbq_state' = "IDLE")
        \/ Vibe!Relax /\ vibe_state = "RUNNING" /\ pbq_state' = "IDLE"
    BY <1>5 DEF Vibe!PbqWork, Vibe!QueueEnds, QueueHeld
  <2>2. QueueHeld' /\ Checked' /\ StreamTold'
    BY <1>5, <2>1 DEF Vibe!PbqWork, Vibe!Runs, QueueHeld, Checked, StreamTold
  <2> QED BY <2>1, <2>2, <1>a, <1>b
<1>6. CASE Vibe!Irq
  <2>1. Lagging' /\ WakeStep
    BY <1>6, <1>a, <1>c, <1>f DEF Vibe!Irq, Vibe!Recover, Vibe!RecoverFails
  <2>2. QueueHeld' /\ Checked' /\ StreamTold'
    BY <1>6, <1>f DEF Vibe!Irq, Vibe!Recover, Vibe!RecoverFails, QueueHeld, Checked, StreamTold
  <2> QED BY <2>1, <2>2
<1>7. CASE Vibe!PbqTimer \/ Vibe!AspTimer \/ \E w \in {"start", "stop"} : Vibe!Request(w)
  BY <1>7, <1>a DEF Vibe!PbqTimer, Vibe!AspTimer, Vibe!Request, QueueHeld, Checked,
       Vibe!StartRefused, StreamTold
<1>8. CASE \E e \in Vibe!Indices : Vibe!StoreIndex(e)
  <2>1. \/ UNCHANGED <<vibe_chip, vibe_state, pbq_state, cp_trailer_index, pbq_cp_dig_scale>>
        \/ vibe_state = "STOPPED" /\ UNCHANGED <<vibe_state, pbq_state>>
    BY <1>8 DEF Vibe!StoreIndex, Vibe!Swap
  <2>2. QueueHeld'
    BY <2>1 DEF QueueHeld
  <2> QED BY <1>8, <2>2, <1>a DEF Vibe!StoreIndex, Checked, StreamTold
<1>9. CASE \E s \in Scales : Vibe!StoreScale(s)
  BY <1>9, <1>a DEF Vibe!StoreScale, QueueHeld, Checked, StreamTold
<1>10. CASE Vibe!SwapFirmware \/ Vibe!HwReset
  <2>1. vibe_state = "STOPPED" /\ UNCHANGED vibe_state /\ (pbq_state' = "IDLE" \/ UNCHANGED pbq_state)
    BY <1>10 DEF Vibe!SwapFirmware, Vibe!Swap, Vibe!HwReset
  <2>2. QueueHeld'
    BY <2>1 DEF QueueHeld
  <2> QED BY <1>10, <2>2, <1>a DEF Vibe!SwapFirmware, Vibe!HwReset, Checked, StreamTold
<1>11. CASE Vibe!ClkEn
  BY <1>11, <1>f DEF Vibe!ClkEn
<1>12. CASE Vibe!DspEnds \/ Vibe!DspPad \/ Vibe!ChipBreaks
  BY <1>12, <1>a DEF Vibe!DspEnds, Vibe!DspPad, Vibe!ChipBreaks, QueueHeld, Checked,
       Vibe!StartRefused, StreamTold
<1>13. CASE UNCHANGED vibe_vars
  BY <1>13, <1>a DEF vibe_vars, QueueHeld, Checked, Vibe!StartRefused, StreamTold
<1> QED
  BY <1>1, <1>2, <1>3, <1>4, <1>5, <1>6, <1>7, <1>8, <1>9, <1>10, <1>11, <1>12, <1>13
     DEF Vibe!Next, Vibe!Work

--------------------------------------------------------------------------------
(* Boards and users for which gains are promised *)
Orderly ==
    /\ {"faults", "panics", "auto", "resets"} \cap setup = {}
    /\ "a2h" \in setup => Vibe!Measures \cap setup = {}

(* There the chip stays well.  A queue is what is played exactly while it is in its states,
   has the user's scale to return to, and the driver takes itself to run, so that no other
   firmware is loaded, unless streams speak for vibe_state; then no measurement asks for it.
   A measurement has the user's volume to return to, or did not touch it. *)
Asked ==
    Vibe!Measures \cap setup = {} => vibe_fw = "REMAP" /\ cp_trigger_index \notin Vibe!Measures

QueueOwes ==
    /\ cp_trailer_index = "PBQ" <=> pbq_state # "IDLE"
    /\ pbq_state # "IDLE" =>
         /\ pbq_cp_dig_scale = user_scale
         /\ "a2h" \in setup \/ vibe_state = "RUNNING"

ScaleOwn == user_scale \in Scales /\ (pbq_state = "IDLE" => scale = user_scale)

VolumeOwn ==
    IF cp_trailer_index \in Vibe!Measures
    THEN diag_dig_scale = "USER" \/ (diag_dig_scale = "RESET" /\ dig_scale = "USER")
    ELSE dig_scale = "USER"

VibeKept ==
    Orderly => /\ vibe_chip = "OK" /\ Checked /\ StreamTold
               /\ Asked /\ QueueOwes /\ ScaleOwn /\ VolumeOwn

(* What queues and measurements change of the user's gains is put back, whatever starts,
   stops, stores and ends they meet. *)
LEMMA VibeKeptInit ==
    ASSUME Vibe!Init
    PROVE  VibeKept
  BY VibeConstants DEF Vibe!Init, VibeKept, Checked, StreamTold, Asked, QueueOwes, ScaleOwn,
       VolumeOwn, Vibe!Measures

LEMMA VibeKeptStep ==
    ASSUME Vibe!TypeOK, VibeKept, [Vibe!Next]_vibe_vars
    PROVE  VibeKept'
<1>0. ASSUME [Vibe!Next]_vibe_vars PROVE setup' = setup
  BY <1>0 DEF Vibe!Next, vibe_vars, Vibe!Work, Vibe!StartLaunches, Vibe!StartChecks,
       Vibe!StartUnadministered, Vibe!StartEffect,
     Vibe!StartQueue, Vibe!StartMeasure, Vibe!StopWork, Vibe!ModeWork, Vibe!PbqWork,
     Vibe!PbqTimer, Vibe!AspTimer, Vibe!Irq, Vibe!Request,
     Vibe!StoreIndex, Vibe!StoreScale, Vibe!SwapFirmware, Vibe!HwReset, Vibe!ClkEn,
     Vibe!DspEnds, Vibe!DspPad, Vibe!ChipBreaks
<1> SUFFICES ASSUME Vibe!TypeOK, [Vibe!Next]_vibe_vars, setup' = setup, Orderly,
                    vibe_chip = "OK", Checked, StreamTold, Asked, QueueOwes, ScaleOwn, VolumeOwn
             PROVE  /\ vibe_chip' = "OK" /\ Checked' /\ StreamTold'
                    /\ Asked' /\ QueueOwes' /\ ScaleOwn' /\ VolumeOwn'
  BY <1>0 DEF VibeKept, Orderly
<1>f. /\ {"faults", "panics", "auto", "resets"} \cap setup = {}
      /\ "a2h" \in setup => Vibe!Measures \cap setup = {}
      /\ ~Vibe!AccessFails /\ ~Vibe!AckFails
  BY DEF Orderly, Vibe!AccessFails, Vibe!AckFails
<1>v. Scales \cap {"QUEUE", "RESET"} = {} /\ FreshScale \in Scales /\ user_scale # "RESET"
  BY VibeConstants DEF ScaleOwn
<1>m. Vibe!Measures = {"DIAG", "QEST"}
  BY DEF Vibe!Measures
<1> USE DEF Vibe!vibe, Vibe!index, Vibe!scales, Vibe!measure, Vibe!dsp, Vibe!timers
<1>1. CASE Vibe!StartChecks
  BY <1>1, <1>f, <1>m DEF Vibe!StartChecks, Vibe!Runs, Checked, Vibe!StartRefused, StreamTold,
       Asked, QueueOwes,
     ScaleOwn, VolumeOwn
<1>2. CASE Vibe!StartLaunches
  <2>0. /\ lock = "START" /\ lock' = "FREE" /\ pbq_state = "IDLE"
        /\ cp_trailer_index \notin Vibe!Measures /\ scale = user_scale /\ dig_scale = "USER"
    BY <1>2 DEF Vibe!StartLaunches, Vibe!StartUnadministered, Vibe!StartEffect,
         Vibe!StartQueue, Vibe!StartMeasure,
       Vibe!Launching, Checked, Vibe!StartRefused, QueueOwes, ScaleOwn, VolumeOwn
  <2>1. CASE Vibe!StartUnadministered
    BY <2>0, <2>1, <1>m DEF Vibe!StartUnadministered, Checked, StreamTold, Asked, QueueOwes,
         ScaleOwn,
       VolumeOwn
  <2>2. CASE Vibe!StartEffect
    BY <2>0, <2>2, <1>m DEF Vibe!StartEffect, Vibe!Continuous, Checked, StreamTold, Asked,
         QueueOwes,
       ScaleOwn, VolumeOwn
  <2>3. CASE Vibe!StartQueue
    <3>1. \/ /\ cp_trailer_index' = "PBQ" /\ pbq_state' \in {"PLAYING", "SILENT"}
             /\ vibe_state' = "RUNNING"
          \/ cp_trailer_index' = "IDLE" /\ pbq_state' = "IDLE" /\ scale' = scale
      BY <2>3, <1>f DEF Vibe!StartQueue, Vibe!Launched, Vibe!Running, Vibe!Enters,
           Vibe!QueuePlays, Vibe!QueueWaits, Vibe!QueueEnds,
         Vibe!QueuePlayFails, Vibe!QueueEndFails, Vibe!Reachable
    <3>2. pbq_cp_dig_scale' = scale
      BY <2>3, <1>f DEF Vibe!StartQueue
    <3> QED BY <2>0, <2>3, <3>1, <3>2, <1>m DEF Vibe!StartQueue, Checked, StreamTold, Asked,
         QueueOwes,
           ScaleOwn, VolumeOwn
  <2>4. CASE Vibe!StartMeasure
    BY <2>0, <2>4, <1>m DEF Vibe!StartMeasure, Checked, StreamTold, Asked, QueueOwes,
         ScaleOwn, VolumeOwn
  <2> QED BY <1>2, <2>1, <2>2, <2>3, <2>4 DEF Vibe!StartLaunches
<1>3. CASE Vibe!StopWork
  <2>1. Checked' /\ StreamTold' /\ Asked' /\ cp_trailer_index' = "IDLE"
    BY <1>3 DEF Vibe!StopWork, Vibe!Runs, Checked, StreamTold, Asked
  <2>2. CASE Vibe!StopContinuous \/ Vibe!StopClick \/ Vibe!StopNothing
    <3>1. pbq_state = "IDLE" /\ cp_trailer_index \notin Vibe!Measures
      BY <2>2, <1>m DEF Vibe!StopContinuous, Vibe!StopClick, Vibe!StopNothing, QueueOwes,
           Vibe!Continuous
    <3>2. vibe_chip' = "OK" /\ UNCHANGED <<pbq_state, scale, Vibe!measure>>
      BY <2>2, <1>f DEF Vibe!StopContinuous, Vibe!StopClick, Vibe!StopNothing, Vibe!StopPlayback
    <3> QED BY <1>3, <2>1, <3>1, <3>2, <1>m DEF Vibe!StopWork, QueueOwes, ScaleOwn, VolumeOwn
  <2>3. CASE Vibe!StopQueue
    <3>1. vibe_chip' = "OK" /\ UNCHANGED Vibe!measure
      BY <2>3, <1>f DEF Vibe!StopQueue, Vibe!StopPlayback
    <3>2. pbq_state' = "IDLE" /\ scale' = user_scale
      BY <2>3, <3>1, <1>f, <1>v DEF Vibe!StopQueue, QueueOwes
    <3>3. dig_scale = "USER"
      BY <2>3, <1>m DEF Vibe!StopQueue, VolumeOwn
    <3> QED BY <1>3, <2>1, <3>1, <3>2, <3>3, <1>m DEF Vibe!StopWork, QueueOwes, ScaleOwn,
         VolumeOwn
  <2>4. CASE Vibe!StopMeasure
    <3>1. pbq_state = "IDLE" /\ dig_scale' = "USER"
      BY <2>4, <1>f, <1>m DEF Vibe!StopMeasure, QueueOwes, VolumeOwn
    <3>2. vibe_chip' = "OK" /\ UNCHANGED <<pbq_state, scale>>
      BY <2>4 DEF Vibe!StopMeasure
    <3> QED BY <1>3, <2>1, <3>1, <3>2, <1>m DEF Vibe!StopWork, QueueOwes, ScaleOwn, VolumeOwn
  <2> QED BY <1>3, <2>2, <2>3, <2>4 DEF Vibe!StopWork
<1>4. CASE Vibe!ModeWork
  <2>1. "a2h" \in setup \/ UNCHANGED vibe_state \/ pbq_state = "IDLE"
    BY <1>4 DEF Vibe!ModeWork, StreamTold
  <2> QED BY <1>4, <2>1, <1>m DEF Vibe!ModeWork, Vibe!Runs, Checked, StreamTold, Asked,
       QueueOwes, ScaleOwn,
         VolumeOwn
<1>5. CASE Vibe!PbqWork
  <2>1. \/ UNCHANGED <<vibe_state, pbq_state, cp_trailer_index, scale>>
        \/ /\ pbq_state # "IDLE" /\ UNCHANGED <<vibe_state, cp_trailer_index>>
           /\ pbq_state' # "IDLE"
        \/ /\ pbq_state # "IDLE" /\ cp_trailer_index' = "IDLE"
           /\ pbq_state' = "IDLE" /\ scale' = pbq_cp_dig_scale
    BY <1>5, <1>f DEF Vibe!PbqWork, Vibe!QueuePlays, Vibe!QueueWaits, Vibe!QueuePlayFails,
         Vibe!QueueEndFails, Vibe!QueueEnds
  <2>2. vibe_chip' = "OK" /\ UNCHANGED <<Vibe!index, Vibe!measure, pbq_cp_dig_scale, a2h_enable>> /\ lock' = "FREE"
    BY <1>5 DEF Vibe!PbqWork, Vibe!Runs
  <2> QED BY <2>1, <2>2, <1>m DEF Checked, StreamTold, Asked, QueueOwes, ScaleOwn, VolumeOwn
<1>6. CASE Vibe!Irq
  BY <1>6, <1>m DEF Vibe!Irq, Checked, StreamTold, Asked, QueueOwes, ScaleOwn, VolumeOwn
<1>7. CASE Vibe!PbqTimer \/ Vibe!AspTimer \/ \E w \in {"start", "stop"} : Vibe!Request(w)
  BY <1>7, <1>m DEF Vibe!PbqTimer, Vibe!AspTimer, Vibe!Request, Checked, Vibe!StartRefused,
       StreamTold, Asked,
     QueueOwes, ScaleOwn, VolumeOwn
<1>8. ASSUME NEW e \in Vibe!Indices, Vibe!StoreIndex(e)
      PROVE  /\ vibe_chip' = "OK" /\ Checked' /\ StreamTold'
             /\ Asked' /\ QueueOwes' /\ ScaleOwn' /\ VolumeOwn'
  <2>1. CASE vibe_fw = (IF e \in Vibe!Measures THEN "CAL" ELSE "REMAP")
    BY <1>8, <2>1, <1>m DEF Vibe!StoreIndex, Checked, StreamTold, Asked, QueueOwes, ScaleOwn,
         VolumeOwn
  <2>2. CASE vibe_fw # (IF e \in Vibe!Measures THEN "CAL" ELSE "REMAP")
    <3>1. vibe_state = "STOPPED" /\ vibe_chip' = "OK"
      BY <1>8, <2>2, <1>f DEF Vibe!StoreIndex, Vibe!Swap, Vibe!Loaded
    <3>2. Vibe!Measures \cap setup # {}
      BY <1>8, <2>2 DEF Vibe!StoreIndex, Asked
    <3>3. pbq_state = "IDLE"
      BY <3>1, <3>2, <1>f DEF QueueOwes
    <3> QED BY <1>8, <2>2, <3>1, <3>2, <3>3, <1>v, <1>m DEF Vibe!StoreIndex, Checked,
         StreamTold, Asked,
           QueueOwes, ScaleOwn, VolumeOwn
  <2> QED BY <2>1, <2>2
<1>9. CASE \E s \in Scales : Vibe!StoreScale(s)
  BY <1>9, <1>m DEF Vibe!StoreScale, Checked, StreamTold, Asked, QueueOwes, ScaleOwn, VolumeOwn
<1>10. CASE Vibe!SwapFirmware \/ Vibe!HwReset
  BY <1>10, <1>f DEF Vibe!SwapFirmware, Vibe!HwReset
<1>11. CASE Vibe!ClkEn
  BY <1>11, <1>m DEF Vibe!ClkEn, Checked, StreamTold, Asked, QueueOwes, ScaleOwn, VolumeOwn
<1>12. CASE Vibe!DspEnds \/ Vibe!DspPad \/ Vibe!ChipBreaks
  BY <1>12, <1>f, <1>m DEF Vibe!DspEnds, Vibe!DspPad, Vibe!ChipBreaks, Checked,
       Vibe!StartRefused, StreamTold, Asked,
     QueueOwes, ScaleOwn, VolumeOwn
<1>13. CASE UNCHANGED vibe_vars
  BY <1>13 DEF vibe_vars, Checked, Vibe!StartRefused, StreamTold, Asked, QueueOwes, ScaleOwn,
       VolumeOwn
<1> QED
  BY <1>1, <1>2, <1>3, <1>4, <1>5, <1>6, <1>7, <1>8, <1>9, <1>10, <1>11, <1>12, <1>13
     DEF Vibe!Next, Vibe!Work

LEMMA VibeKeptSafe ==
    ASSUME VibeKept
    PROVE  Vibe!GainsKept
  BY DEF VibeKept, Vibe!GainsKept, Orderly, ScaleOwn, VolumeOwn

--------------------------------------------------------------------------------
LEMMA EnqueueKeeps ==
    ASSUME NEW q \in Seq(Vibe!Works), NEW w \in Vibe!Works
    PROVE  /\ Vibe!Contains(Vibe!Enqueue(q, w), w)
           /\ \A x : Vibe!Contains(q, x) => Vibe!Contains(Vibe!Enqueue(q, w), x)
<1>1. CASE Vibe!Contains(q, w)
  BY <1>1 DEF Vibe!Enqueue
<1>2. CASE ~Vibe!Contains(q, w)
  BY <1>2 DEF Vibe!Enqueue, Vibe!Contains
<1> QED BY <1>1, <1>2

LEMMA TailKeeps ==
    ASSUME NEW q \in Seq(Vibe!Works), q # <<>>, NEW x, Vibe!Contains(q, x), Head(q) # x
    PROVE  Vibe!Contains(Tail(q), x)
<1>1. PICK i \in 1..Len(q) : q[i] = x
  BY DEF Vibe!Contains
<1>2. i - 1 \in 1..Len(Tail(q)) /\ Tail(q)[i - 1] = x
  BY <1>1
<1> QED BY <1>2 DEF Vibe!Contains

LEMMA NotifiedKeeps ==
    ASSUME NEW q \in Seq(Vibe!Works), Unique(q)
    PROVE  Vibe!Contains(q, "pbq") \/ trigger_stop => Vibe!Contains(Vibe!Notified(q), "pbq")
<1> DEFINE Mode(p, stop) == IF stop /\ "asp" \notin setup THEN Vibe!Enqueue(p, "mode") ELSE p
           Pbq(p) == IF trigger_stop THEN Vibe!Enqueue(p, "pbq") ELSE p
           Holds(p) == Vibe!Contains(p, "pbq")
<1>1. ASSUME NEW p \in Seq(Vibe!Works), NEW stop
      PROVE  /\ Mode(p, stop) \in Seq(Vibe!Works) /\ (Holds(p) => Holds(Mode(p, stop)))
             /\ Pbq(p) \in Seq(Vibe!Works) /\ (Holds(p) \/ trigger_stop => Holds(Pbq(p)))
  <2>1. ASSUME NEW w \in Vibe!Works PROVE Vibe!Enqueue(p, w) \in Seq(Vibe!Works)
    BY DEF Vibe!Enqueue
  <2> QED BY <1>1, <2>1, EnqueueKeeps DEF Vibe!Works
<1>2. Vibe!Notified(q) = Mode(Pbq(Mode(q, gpio_stop)), trigger_stop)
  BY DEF Vibe!Notified
<1> HIDE DEF Mode, Pbq, Holds
<1>3. Mode(q, gpio_stop) \in Seq(Vibe!Works) /\ (Holds(q) => Holds(Mode(q, gpio_stop)))
  BY <1>1
<1>4. /\ Pbq(Mode(q, gpio_stop)) \in Seq(Vibe!Works)
      /\ Holds(q) \/ trigger_stop => Holds(Pbq(Mode(q, gpio_stop)))
  BY <1>1, <1>3
<1>5. Holds(q) \/ trigger_stop => Holds(Vibe!Notified(q))
  BY <1>1, <1>2, <1>4
<1> QED BY <1>5 DEF Holds

--------------------------------------------------------------------------------
(* Boards and users for which a queue is promised to go on *)
Settled ==
    /\ {"pads", "faults", "auto", "panics"} \cap setup = {}
    /\ "a2h" \in setup => (Vibe!Measures \cup {"resets"}) \cap setup = {}

(* There only user space takes the chip away, and not under a queue; and without END events
   the timer or the work is there by itself. *)
ChipOwn == vibe_chip \in {"OK", "PARKED"} /\ ("resets" \notin setup => vibe_chip = "OK") /\ plays # "PAD"

QueueStays ==
    pbq_state # "IDLE" =>
        /\ cp_trailer_index = "PBQ" /\ pbq_cp_dig_scale # "RESET" /\ vibe_chip = "OK"
        /\ "a2h" \in setup \/ vibe_state = "RUNNING"

Driven ==
    pbq_state = "PLAYING" \/ (pbq_state = "SILENT" /\ "events" \in setup) =>
        pbq_timer \/ Vibe!Contains(queue, "pbq") \/ ("events" \in setup /\ (Vibe!Busy \/ trigger_stop))

VibeDriven ==
    Settled => Checked /\ StreamTold /\ Asked /\ ChipOwn /\ QueueStays /\ Driven

(* A queue that is not at its end has something to take it on, through starts, stops, ends,
   swaps and resets. *)
LEMMA VibeDrivenInit ==
    ASSUME Vibe!Init
    PROVE  VibeDriven
  BY DEF Vibe!Init, VibeDriven, Checked, StreamTold, Asked, ChipOwn, QueueStays, Driven,
       Vibe!Measures

LEMMA VibeDrivenStep ==
    ASSUME Vibe!TypeOK, VibeDriven, [Vibe!Next]_vibe_vars
    PROVE  VibeDriven'
<1>0. ASSUME [Vibe!Next]_vibe_vars PROVE setup' = setup
  BY <1>0 DEF Vibe!Next, vibe_vars, Vibe!Work, Vibe!StartLaunches, Vibe!StartChecks,
       Vibe!StartUnadministered, Vibe!StartEffect,
     Vibe!StartQueue, Vibe!StartMeasure, Vibe!StopWork, Vibe!ModeWork, Vibe!PbqWork,
     Vibe!PbqTimer, Vibe!AspTimer, Vibe!Irq, Vibe!Request,
     Vibe!StoreIndex, Vibe!StoreScale, Vibe!SwapFirmware, Vibe!HwReset, Vibe!ClkEn,
     Vibe!DspEnds, Vibe!DspPad, Vibe!ChipBreaks
<1> SUFFICES ASSUME Vibe!TypeOK, [Vibe!Next]_vibe_vars, setup' = setup, Settled,
                    Checked, StreamTold, Asked, ChipOwn, QueueStays, Driven
             PROVE  Checked' /\ StreamTold' /\ Asked' /\ ChipOwn' /\ QueueStays' /\ Driven'
  BY <1>0 DEF VibeDriven, Settled
<1>f. /\ "pads" \notin setup /\ "faults" \notin setup /\ "auto" \notin setup /\ "panics" \notin setup
      /\ "a2h" \in setup => Vibe!Measures \cap setup = {} /\ "resets" \notin setup
  BY DEF Settled
<1>m. Vibe!Measures = {"DIAG", "QEST"}
  BY DEF Vibe!Measures
<1>q. queue \in Seq(Vibe!Works) /\ Unique(queue)
  BY DEF Vibe!TypeOK, Unique
<1>r. ASSUME NEW w, Vibe!Runs(w), w # "pbq", Vibe!Contains(queue, "pbq") PROVE Vibe!Contains(queue', "pbq")
  BY <1>q, <1>r, TailKeeps DEF Vibe!Runs
<1>g. ASSUME Vibe!QueuePlays \/ Vibe!QueueWaits PROVE Driven'
  BY <1>g DEF Vibe!QueuePlays, Vibe!QueueWaits, Vibe!Trigger, Driven, Vibe!Busy
<1> USE DEF Vibe!vibe, Vibe!index, Vibe!scales, Vibe!measure, Vibe!dsp, Vibe!timers
<1>1. CASE Vibe!StartChecks
  <2>1. Checked' /\ StreamTold' /\ Asked' /\ ChipOwn' /\ QueueStays'
    BY <1>1, <1>f, <1>m DEF Vibe!StartChecks, Vibe!Runs, Checked, Vibe!StartRefused,
         StreamTold, Asked, ChipOwn, QueueStays
  <2>2. Driven'
    BY <1>1, <1>f, <1>r DEF Vibe!StartChecks, Driven, Vibe!Busy
  <2> QED BY <2>1, <2>2
<1>2. CASE Vibe!StartLaunches
  <2>0. lock = "START" /\ lock' = "FREE" /\ pbq_state = "IDLE"
    BY <1>2 DEF Vibe!StartLaunches, Vibe!StartUnadministered, Vibe!StartEffect,
         Vibe!StartQueue, Vibe!StartMeasure,
       Vibe!Launching, Checked, Vibe!StartRefused, QueueStays
  <2>1. CASE Vibe!StartUnadministered
    BY <2>0, <2>1 DEF Vibe!StartUnadministered, Checked, StreamTold, Asked, ChipOwn,
         QueueStays, Driven
  <2>2. CASE Vibe!StartEffect
    BY <2>0, <2>2, <1>m DEF Vibe!StartEffect, Vibe!Trigger, Vibe!Continuous, Checked,
         StreamTold, Asked, ChipOwn,
       QueueStays, Driven
  <2>3. CASE Vibe!StartQueue
    <3>1. scale # "RESET"
      BY VibeConstants DEF Vibe!TypeOK
    <3>2. QueueStays' /\ ChipOwn'
      BY <2>0, <2>3, <3>1, <1>f DEF Vibe!StartQueue, Vibe!Launched, Vibe!Running, Vibe!Enters,
           Vibe!QueuePlays, Vibe!QueueWaits,
         Vibe!QueueEnds, Vibe!QueuePlayFails, Vibe!QueueEndFails, Vibe!Trigger,
         Vibe!Reachable, ChipOwn, QueueStays
    <3>3. Driven'
      BY <2>0, <2>3, <1>g DEF Vibe!StartQueue, Vibe!QueueEnds, Vibe!QueuePlayFails,
           Vibe!QueueEndFails, Driven
    <3> QED BY <2>0, <2>3, <3>2, <3>3 DEF Vibe!StartQueue, Checked, StreamTold, Asked
  <2>4. CASE Vibe!StartMeasure
    BY <2>0, <2>4, <1>m DEF Vibe!StartMeasure, Checked, StreamTold, Asked, ChipOwn,
         QueueStays, Driven
  <2> QED BY <1>2, <2>1, <2>2, <2>3, <2>4 DEF Vibe!StartLaunches
<1>3. CASE Vibe!StopWork
  <2>1. Checked' /\ StreamTold' /\ Asked' /\ pbq_state' = "IDLE"
    <3>1. CASE Vibe!StopQueue
      BY <1>3, <3>1, <1>f DEF Vibe!StopWork, Vibe!Runs, Vibe!StopQueue, Vibe!StopPlayback,
           Vibe!AccessFails, QueueStays,
         Checked, StreamTold, Asked
    <3>2. CASE ~Vibe!StopQueue
      BY <1>3, <3>2, <1>m DEF Vibe!StopWork, Vibe!Runs, Vibe!StopContinuous, Vibe!StopClick,
           Vibe!StopMeasure, Vibe!StopNothing,
         Vibe!Continuous, QueueStays, Checked, StreamTold, Asked
    <3> QED BY <3>1, <3>2
  <2>2. ChipOwn'
    BY <1>3, <1>f DEF Vibe!StopWork, Vibe!StopContinuous, Vibe!StopClick, Vibe!StopQueue,
         Vibe!StopMeasure, Vibe!StopNothing,
       Vibe!StopPlayback, Vibe!Silent, Vibe!AccessFails, ChipOwn
  <2> QED BY <2>1, <2>2 DEF QueueStays, Driven
<1>4. CASE Vibe!ModeWork
  <2>1. "a2h" \in setup \/ UNCHANGED vibe_state \/ pbq_state = "IDLE"
    BY <1>4 DEF Vibe!ModeWork, StreamTold
  <2>2. Driven'
    BY <1>4, <1>r DEF Vibe!ModeWork, Driven, Vibe!Busy
  <2> QED BY <1>4, <2>1, <2>2 DEF Vibe!ModeWork, Vibe!Runs, Checked, StreamTold, Asked,
       ChipOwn, QueueStays
<1>5. CASE Vibe!PbqWork
  <2>1. Driven'
    <3>1. CASE pbq_state = "IDLE" \/ vibe_chip # "OK"
      BY <1>5, <3>1 DEF Vibe!PbqWork, Driven, QueueStays
    <3>2. CASE pbq_state # "IDLE" /\ vibe_chip = "OK" /\ Vibe!Busy
      BY <1>5, <3>2, <1>f DEF Vibe!PbqWork, Vibe!AccessFails, Driven, Vibe!Busy, Vibe!TypeOK
    <3>3. CASE pbq_state # "IDLE" /\ vibe_chip = "OK" /\ ~Vibe!Busy
      BY <1>5, <3>3, <1>f, <1>g DEF Vibe!PbqWork, Vibe!AccessFails, Vibe!AckFails,
           Vibe!QueuePlayFails,
         Vibe!QueueEndFails, Vibe!QueueEnds, Driven
    <3> QED BY <3>1, <3>2, <3>3
  <2>2. ChipOwn' /\ QueueStays'
    BY <1>5, <1>f DEF Vibe!PbqWork, Vibe!QueuePlays, Vibe!QueueWaits, Vibe!QueuePlayFails,
         Vibe!QueueEndFails, Vibe!QueueEnds,
       Vibe!Trigger, ChipOwn, QueueStays
  <2> QED BY <1>5, <2>1, <2>2 DEF Vibe!PbqWork, Vibe!Runs, Checked, StreamTold, Asked
<1>6. CASE Vibe!Irq
  <2>1. vibe_chip = "OK" /\ vibe_chip' = "OK" /\ queue' = Vibe!Notified(queue)
        /\ UNCHANGED <<Vibe!vibe, cp_trailer_index, plays, pbq_state, pbq_timer>>
    BY <1>6 DEF Vibe!Irq, ChipOwn
  <2>2. Driven'
    BY <1>q, <2>1, NotifiedKeeps DEF Driven, Vibe!Busy
  <2> QED BY <1>6, <2>1, <2>2 DEF Vibe!Irq, Checked, StreamTold, Asked, ChipOwn, QueueStays
<1>7. CASE Vibe!PbqTimer \/ Vibe!AspTimer \/ \E w \in {"start", "stop"} : Vibe!Request(w)
  <2>1. Driven'
    BY <1>7, <1>q, EnqueueKeeps DEF Vibe!PbqTimer, Vibe!AspTimer, Vibe!Request, Driven,
         Vibe!Busy, Vibe!Works
  <2> QED BY <1>7, <2>1 DEF Vibe!PbqTimer, Vibe!AspTimer, Vibe!Request, Checked,
       Vibe!StartRefused, StreamTold, Asked,
         ChipOwn, QueueStays
<1>8. ASSUME NEW e \in Vibe!Indices, Vibe!StoreIndex(e)
      PROVE  Checked' /\ StreamTold' /\ Asked' /\ ChipOwn' /\ QueueStays' /\ Driven'
  <2>1. CASE vibe_fw = (IF e \in Vibe!Measures THEN "CAL" ELSE "REMAP")
    BY <1>8, <2>1 DEF Vibe!StoreIndex, Checked, StreamTold, Asked, ChipOwn, QueueStays,
         Driven, Vibe!Busy
  <2>2. CASE vibe_fw # (IF e \in Vibe!Measures THEN "CAL" ELSE "REMAP")
    <3>1. vibe_state = "STOPPED" /\ vibe_chip = "OK" /\ vibe_chip' = "OK" /\ plays' = "NONE"
      BY <1>8, <2>2, <1>f DEF Vibe!StoreIndex, Vibe!Swap, Vibe!Loaded, Vibe!Silent
    <3>2. Vibe!Measures \cap setup # {}
      BY <1>8, <2>2 DEF Vibe!StoreIndex, Asked
    <3>3. pbq_state = "IDLE"
      BY <3>1, <3>2, <1>f DEF QueueStays
    <3> QED BY <1>8, <2>2, <3>1, <3>2, <3>3 DEF Vibe!StoreIndex, Checked, StreamTold, Asked,
         ChipOwn,
           QueueStays, Driven
  <2> QED BY <2>1, <2>2
<1>9. CASE \E s \in Scales : Vibe!StoreScale(s)
  BY <1>9 DEF Vibe!StoreScale, Checked, StreamTold, Asked, ChipOwn, QueueStays, Driven,
       Vibe!Busy
<1>10. CASE Vibe!SwapFirmware \/ Vibe!HwReset
  <2>1. pbq_state' = "IDLE"
    BY <1>10, <1>f DEF Vibe!SwapFirmware, Vibe!Swap, Vibe!HwReset, QueueStays
  <2>2. vibe_fw' \in {vibe_fw, "REMAP"} /\ vibe_chip' \in {"OK", "PARKED"} /\ plays' = "NONE"
    BY <1>10, <1>f DEF Vibe!SwapFirmware, Vibe!Swap, Vibe!HwReset, Vibe!Loaded, Vibe!Silent
  <2> QED BY <1>10, <2>1, <2>2 DEF Vibe!SwapFirmware, Vibe!HwReset, Checked, StreamTold,
       Asked, ChipOwn,
         QueueStays, Driven
<1>11. CASE Vibe!ClkEn
  BY <1>11 DEF Vibe!ClkEn, Checked, StreamTold, Asked, ChipOwn, QueueStays, Driven, Vibe!Busy
<1>12. CASE Vibe!DspEnds
  BY <1>12, <1>f DEF Vibe!DspEnds, Checked, Vibe!StartRefused, StreamTold, Asked, ChipOwn,
       QueueStays, Driven
<1>13. CASE Vibe!DspPad \/ Vibe!ChipBreaks
  BY <1>13, <1>f DEF Vibe!DspPad, Vibe!ChipBreaks
<1>14. CASE UNCHANGED vibe_vars
  BY <1>14 DEF vibe_vars, Checked, Vibe!StartRefused, StreamTold, Asked, ChipOwn, QueueStays,
       Driven, Vibe!Busy
<1> QED
  BY <1>1, <1>2, <1>3, <1>4, <1>5, <1>6, <1>7, <1>8, <1>9, <1>10, <1>11, <1>12, <1>13, <1>14
     DEF Vibe!Next, Vibe!Work

LEMMA VibeDrivenSafe ==
    ASSUME VibeDriven
    PROVE  Vibe!QueueDriven
  BY DEF VibeDriven, Vibe!QueueDriven, Settled, Driven

--------------------------------------------------------------------------------
(* Cs40l2xQueue *)

LEMMA QueueConstants ==
    /\ Lengths \in [Waveforms -> Nat] /\ Queue!None \notin Waveforms
    /\ Delays \subseteq Nat /\ Counts \subseteq Nat
    /\ Marker \in Nat \ {0} /\ MaxSections \in Nat \ {0}
  BY PartsAssumption DEF PartsAssumption, Queue!QueueAssumption

U8s == {n \in Nat : n <= Marker}

LEMMA U8Typed ==
    ASSUME NEW n \in Nat
    PROVE  Queue!U8(n) \in U8s
  BY QueueConstants DEF Queue!U8, U8s

(* The composite that is being parsed: room for a section is left unless one was refused. *)
Sections == [wave : Waveforms \cup {Queue!None}, delay : Delays \cup {0}, repeat : U8s]

Comps == [sections : Seq(Sections), section : Sections, repeat : U8s, wlength : Nat,
          inner : BOOLEAN, samples : Nat, ret : Nat, error : BOOLEAN]

Sized(p) == Len(p.sections) <= MaxSections /\ (~p.error => Len(p.sections) < MaxSections)

WellFormed == {p \in Comps : Sized(p)}

Like(p, q) == q \in Comps /\ q.sections = p.sections /\ q.error = p.error

LEMMA LikeSized ==
    ASSUME NEW p \in WellFormed, NEW q, Like(p, q)
    PROVE  q \in WellFormed
  BY DEF WellFormed, Like, Sized

LEMMA WithSections ==
    ASSUME NEW p \in Comps, NEW s \in Seq(Sections)
    PROVE  /\ [p EXCEPT !.sections = s] \in Comps
           /\ [p EXCEPT !.sections = s].sections = s
           /\ [p EXCEPT !.sections = s].error = p.error
  BY DEF Comps

LEMMA WithError ==
    ASSUME NEW p \in Comps, NEW e \in BOOLEAN
    PROVE  /\ [p EXCEPT !.error = e] \in Comps
           /\ [p EXCEPT !.error = e].error = e
           /\ [p EXCEPT !.error = e].sections = p.sections
  BY DEF Comps

LEMMA WithSection ==
    ASSUME NEW p \in Comps, NEW s \in Sections
    PROVE  Like(p, [p EXCEPT !.section = s])
  BY DEF Comps, Like

LEMMA WithRepeat ==
    ASSUME NEW p \in Comps, NEW n \in U8s
    PROVE  Like(p, [p EXCEPT !.repeat = n])
  BY DEF Comps, Like

LEMMA WithNumber ==
    ASSUME NEW p \in Comps, NEW n \in Nat
    PROVE  /\ Like(p, [p EXCEPT !.wlength = n])
           /\ Like(p, [p EXCEPT !.samples = n])
           /\ Like(p, [p EXCEPT !.ret = n])
  BY DEF Comps, Like

LEMMA WithInner ==
    ASSUME NEW p \in Comps, NEW b \in BOOLEAN
    PROVE  Like(p, [p EXCEPT !.inner = b])
  BY DEF Comps, Like

LEMMA LikeTwice ==
    ASSUME NEW p, NEW q, NEW r, Like(p, q), Like(q, r)
    PROVE  Like(p, r)
  BY DEF Like

LEMMA Marked ==
    /\ Marker \in U8s /\ 0 \in U8s
    /\ Queue!Blank \in Sections
    /\ \A s \in Sections, n \in U8s : [s EXCEPT !.repeat = n] \in Sections
    /\ \A s \in Sections, w \in Waveforms : [s EXCEPT !.wave = w] \in Sections
    /\ \A s \in Sections, d \in Delays : [s EXCEPT !.delay = d] \in Sections
    /\ \A s \in Sections : Queue!Samples(s) \in Nat
  BY QueueConstants DEF U8s, Queue!Blank, Sections, Queue!Samples

LEMMA FailedTyped ==
    ASSUME NEW p \in WellFormed
    PROVE  Queue!Failed(p) \in WellFormed
  BY WithError DEF Queue!Failed, WellFormed, Sized

LEMMA FinaliseTyped ==
    ASSUME NEW p \in WellFormed, ~p.error
    PROVE  Queue!Finalise(p) \in WellFormed
  <1>1. p \in Comps /\ Sized(p)
    BY DEF WellFormed
  <1>2. Queue!Samples(p.section) \in Nat /\ p.section \in Sections /\ Queue!Blank \in Sections
    BY <1>1, Marked DEF Comps
  <1>3. PICK e \in BOOLEAN : e = (Len(p.sections) + 1 = MaxSections)
    BY Zenon
  <1>4. PICK a : a = [p EXCEPT !.sections = Append(p.sections, p.section)]
    OBVIOUS
  <1>5. a \in Comps /\ a.sections = Append(p.sections, p.section)
    <2>1. Append(p.sections, p.section) \in Seq(Sections)
      BY <1>1, <1>2 DEF Comps
    <2> QED BY <1>1, <1>4, <2>1, WithSections
  <1>6. PICK b : b = [a EXCEPT !.section = Queue!Blank]
    OBVIOUS
  <1>7. PICK c : c = [b EXCEPT !.ret = Queue!Samples(p.section)]
    OBVIOUS
  <1>8. PICK d : d = [c EXCEPT !.wlength = p.wlength + Queue!Samples(p.section)]
    OBVIOUS
  <1>9. Queue!Finalise(p) = [d EXCEPT !.error = e]
    BY <1>3, <1>4, <1>6, <1>7, <1>8, Zenon DEF Queue!Finalise
  <1>10. Like(a, b)
    BY <1>2, <1>5, <1>6, WithSection
  <1>11. Like(b, c)
    BY <1>2, <1>7, <1>10, WithNumber DEF Like
  <1>12. Like(c, d)
    <2>1. p.wlength + Queue!Samples(p.section) \in Nat
      BY <1>1, <1>2 DEF Comps
    <2> QED BY <1>8, <1>11, <2>1, WithNumber DEF Like
  <1>13. d \in Comps /\ d.sections = Append(p.sections, p.section)
    BY <1>5, <1>10, <1>11, <1>12 DEF Like
  <1>14. Len(d.sections) = Len(p.sections) + 1
    BY <1>1, <1>2, <1>13 DEF Comps
  <1>15. /\ Queue!Finalise(p) \in Comps /\ Queue!Finalise(p).error = e
         /\ Queue!Finalise(p).sections = d.sections
    BY <1>9, <1>13, WithError
  <1>16. Sized(Queue!Finalise(p))
    BY <1>1, <1>3, <1>14, <1>15, QueueConstants DEF Sized, Comps
  <1> QED BY <1>15, <1>16 DEF WellFormed

LEMMA InLoopTyped ==
    ASSUME NEW p \in WellFormed
    PROVE  Queue!InLoop(p) \in WellFormed
  <1>1. p \in Comps /\ p.samples + p.ret \in Nat
    BY DEF WellFormed, Comps
  <1>2. Like(p, [p EXCEPT !.samples = p.samples + p.ret])
    BY <1>1, WithNumber
  <1> QED BY <1>2, LikeSized DEF Queue!InLoop

LEMMA OpenTyped ==
    ASSUME NEW p \in WellFormed, ~p.error
    PROVE  Queue!Open(p) \in WellFormed
  <1>1. PICK q : q = IF Queue!Pending(p) THEN Queue!Finalise(p) ELSE p
    OBVIOUS
  <1>2. q \in WellFormed
    BY <1>1, FinaliseTyped
  <1>3. [[q EXCEPT !.section.repeat = Marker] EXCEPT !.inner = TRUE] \in WellFormed
    <2>1. q \in Comps /\ [q.section EXCEPT !.repeat = Marker] \in Sections
      BY <1>2, Marked DEF WellFormed, Comps
    <2>2. PICK r : r = [q EXCEPT !.section = [q.section EXCEPT !.repeat = Marker]]
      OBVIOUS
    <2>3. Like(q, r)
      BY <2>1, <2>2, WithSection
    <2>4. Like(r, [r EXCEPT !.inner = TRUE])
      BY <2>3, WithInner DEF Like
    <2>5. [r EXCEPT !.inner = TRUE] \in WellFormed
      BY <1>2, <2>3, <2>4, LikeTwice, LikeSized
    <2> QED BY <2>2, <2>5, Zenon
  <1>4. Queue!Open(p) = IF p.inner THEN Queue!Failed(p) ELSE IF q.error THEN q
                  ELSE [[q EXCEPT !.section.repeat = Marker] EXCEPT !.inner = TRUE]
    BY <1>1, Zenon DEF Queue!Open
  <1> QED BY <1>2, <1>3, <1>4, FailedTyped

LEMMA CloseTyped ==
    ASSUME NEW p \in WellFormed, ~p.error, NEW n \in Nat
    PROVE  Queue!Close(p, n) \in WellFormed
  <1>1. PICK r : r = [p EXCEPT !.section = [p.section EXCEPT !.repeat = Queue!U8(n)]]
    OBVIOUS
  <1>2. Like(p, r)
    <2>1. p \in Comps /\ [p.section EXCEPT !.repeat = Queue!U8(n)] \in Sections
      BY U8Typed, Marked DEF WellFormed, Comps
    <2> QED BY <1>1, <2>1, WithSection
  <1>3. r \in WellFormed /\ ~r.error
    BY <1>2, LikeSized DEF Like
  <1>4. PICK q : q = Queue!Finalise(r)
    OBVIOUS
  <1>5. q \in WellFormed
    BY <1>3, <1>4, FinaliseTyped
  <1>6. q.wlength + (p.samples + q.ret) * n \in Nat
    <2>1. q.wlength \in Nat /\ p.samples + q.ret \in Nat
      BY <1>5 DEF WellFormed, Comps
    <2>2. \A a \in Nat, b \in Nat : b + a * n \in Nat
      OBVIOUS
    <2> QED BY <2>1, <2>2
  <1>7. PICK u : u = [q EXCEPT !.wlength = q.wlength + (p.samples + q.ret) * n]
    OBVIOUS
  <1>8. PICK v : v = [u EXCEPT !.inner = FALSE]
    OBVIOUS
  <1>9. Like(q, u)
    BY <1>5, <1>6, <1>7, WithNumber DEF WellFormed
  <1>10. Like(u, v)
    BY <1>8, <1>9, WithInner DEF Like
  <1>11. Like(v, [v EXCEPT !.samples = 0])
    BY <1>10, WithNumber DEF Like
  <1>12. [v EXCEPT !.samples = 0] \in WellFormed
    BY <1>5, <1>9, <1>10, <1>11, LikeSized
  <1>13. Queue!Close(p, n) = IF ~p.inner THEN Queue!Failed(p) ELSE IF q.error THEN q
                       ELSE [v EXCEPT !.samples = 0]
    BY <1>1, <1>4, <1>7, <1>8, Zenon DEF Queue!Close
  <1> QED BY <1>5, <1>12, <1>13, FailedTyped

LEMMA AgainTyped ==
    ASSUME NEW p \in WellFormed, NEW n \in Nat
    PROVE  Queue!Again(p, n) \in WellFormed
  <1>1. Like(p, [p EXCEPT !.repeat = Queue!U8(n)])
    BY U8Typed, WithRepeat DEF WellFormed
  <1> QED BY <1>1, LikeSized, FailedTyped DEF Queue!Again

LEMMA WaveTyped ==
    ASSUME NEW p \in WellFormed, ~p.error, NEW w \in Waveforms
    PROVE  Queue!Wave(p, w) \in WellFormed
  <1>1. PICK q : q = IF Queue!Pending(p) THEN Queue!InLoop(Queue!Finalise(p)) ELSE p
    OBVIOUS
  <1>2. q \in WellFormed
    BY <1>1, FinaliseTyped, InLoopTyped
  <1>3. Like(q, [q EXCEPT !.section = [q.section EXCEPT !.wave = w]])
    <2>1. q \in Comps /\ [q.section EXCEPT !.wave = w] \in Sections
      BY <1>2, Marked DEF WellFormed, Comps
    <2> QED BY <2>1, WithSection
  <1>4. Queue!Wave(p, w) = IF q.error THEN q ELSE [q EXCEPT !.section = [q.section EXCEPT !.wave = w]]
    BY <1>1, Zenon DEF Queue!Wave
  <1> QED BY <1>2, <1>3, <1>4, LikeSized

LEMMA DelayTyped ==
    ASSUME NEW p \in WellFormed, ~p.error, NEW d \in Delays
    PROVE  Queue!Delay(p, d) \in WellFormed
  <1>1. PICK q : q = IF p.section.delay > 0 THEN Queue!InLoop(Queue!Finalise(p)) ELSE p
    OBVIOUS
  <1>2. q \in WellFormed
    BY <1>1, FinaliseTyped, InLoopTyped
  <1>3. Like(q, [q EXCEPT !.section = [q.section EXCEPT !.delay = d]])
    <2>1. q \in Comps /\ [q.section EXCEPT !.delay = d] \in Sections
      BY <1>2, Marked DEF WellFormed, Comps
    <2> QED BY <2>1, WithSection
  <1>4. Queue!Delay(p, d) = IF q.error THEN q ELSE [q EXCEPT !.section = [q.section EXCEPT !.delay = d]]
    BY <1>1, Zenon DEF Queue!Delay
  <1> QED BY <1>2, <1>3, <1>4, LikeSized

LEMMA TokenTyped ==
    ASSUME NEW p \in WellFormed, NEW t \in Queue!Tokens
    PROVE  Queue!Token(p, t) \in WellFormed
  <1>1. /\ t.kind \in {"close", "again"} => t.arg \in Nat
        /\ t.kind = "wave" => t.arg \in Waveforms
        /\ t.kind = "delay" => t.arg \in Delays
    BY QueueConstants DEF Queue!Tokens
  <1>2. CASE p.error
    BY <1>2, Zenon DEF Queue!Token
  <1>3. CASE ~p.error /\ t.kind = "open"
    BY <1>3, OpenTyped, Zenon DEF Queue!Token
  <1>4. CASE ~p.error /\ t.kind = "close"
    <2>1. Queue!Token(p, t) = Queue!Close(p, t.arg)
      BY <1>4 DEF Queue!Token
    <2> QED BY <1>1, <1>4, <2>1, CloseTyped
  <1>5. CASE ~p.error /\ t.kind = "again"
    <2>1. Queue!Token(p, t) = Queue!Again(p, t.arg)
      BY <1>5 DEF Queue!Token
    <2> QED BY <1>1, <1>5, <2>1, AgainTyped
  <1>6. CASE ~p.error /\ t.kind = "forever"
    <2>1. Queue!Token(p, t) = Queue!Again(p, Marker)
      BY <1>6 DEF Queue!Token
    <2> QED BY <2>1, AgainTyped, QueueConstants
  <1>7. CASE ~p.error /\ t.kind = "wave"
    <2>1. Queue!Token(p, t) = Queue!Wave(p, t.arg)
      BY <1>7 DEF Queue!Token
    <2> QED BY <1>1, <1>7, <2>1, WaveTyped
  <1>8. CASE ~p.error /\ t.kind = "delay"
    <2>1. Queue!Token(p, t) = Queue!Delay(p, t.arg)
      BY <1>8 DEF Queue!Token
    <2> QED BY <1>1, <1>8, <2>1, DelayTyped
  <1>9. CASE ~p.error /\ t.kind \notin {"open", "close", "again", "forever", "wave", "delay"}
    <2>1. Queue!Token(p, t) = Queue!Failed(p)
      BY <1>9 DEF Queue!Token
    <2> QED BY <2>1, FailedTyped
  <1> QED BY <1>2, <1>3, <1>4, <1>5, <1>6, <1>7, <1>8, <1>9

LEMMA NewTyped == Queue!NewComp \in WellFormed
  <1>1. Queue!NewComp \in Comps
    BY Marked, EmptySeq DEF Queue!NewComp, Comps
  <1> QED BY <1>1, QueueConstants DEF Queue!NewComp, WellFormed, Sized

LEMMA BoundedTyped ==
    ASSUME NEW S, NEW n \in Nat, NEW s \in Queue!BoundedSeq(S, n)
    PROVE  s \in Seq(S)
  BY DEF Queue!BoundedSeq, Queue!SeqOf

(* The composite after each token: there is such a function, which is of its type. *)
LEMMA ParsesSteps ==
    ASSUME NEW s \in Seq(Queue!Tokens)
    PROVE  Queue!Parses(s) = [n \in 0..Len(s) |-> IF n = 0 THEN Queue!NewComp ELSE Queue!Token(Queue!Parses(s)[n - 1], s[n])]
  <1> DEFINE step == [i \in 1..Len(s) |-> [p \in WellFormed |-> Queue!Token(p, s[i])]]
             Parse(f) == f = [n \in 0..Len(s) |-> IF n = 0 THEN Queue!NewComp ELSE Queue!Token(f[n - 1], s[n])]
  <1>1. \A i \in 1..Len(s) : s[i] \in Queue!Tokens
    OBVIOUS
  <1>2. step \in Steps(WellFormed, Len(s))
    BY <1>1, TokenTyped DEF Steps
  <1>3. PICK g \in [0..Len(s) -> WellFormed] :
          g[0] = Queue!NewComp /\ \A i \in 1..Len(s) : g[i] = step[i][g[i - 1]]
    <2> HIDE DEF step
    <2>1. Len(s) \in Nat
      OBVIOUS
    <2>2. \E g : Iterates(g, WellFormed, Queue!NewComp, Len(s), step)
      BY <1>2, <2>1, NewTyped, Iteration, Zenon
    <2> QED BY <2>2, Zenon DEF Iterates
  <1>4. \A n \in 0..Len(s) : g[n] = IF n = 0 THEN Queue!NewComp ELSE Queue!Token(g[n - 1], s[n])
    <2> TAKE n \in 0..Len(s)
    <2>1. CASE n = 0
      BY <1>3, <2>1
    <2>2. CASE n # 0
      <3>1. n \in 1..Len(s) /\ n - 1 \in 0..Len(s)
        BY <2>2
      <3>2. g[n] = step[n][g[n - 1]] /\ g[n - 1] \in WellFormed
        BY <1>3, <3>1
      <3> QED BY <2>2, <3>1, <3>2
    <2> QED BY <2>1, <2>2
  <1>5. Parse(g)
    BY <1>3, <1>4
  <1>6. Queue!Parses(s) = CHOOSE f : Parse(f)
    BY DEF Queue!Parses
  <1>7. Parse(Queue!Parses(s))
    <2> HIDE DEF Parse
    <2> QED BY <1>5, <1>6, Zenon
  <1> QED BY <1>7, Zenon

LEMMA ParsesTyped ==
    ASSUME NEW s \in Seq(Queue!Tokens), NEW n \in 0..Len(s)
    PROVE  Queue!Parses(s)[n] \in WellFormed
  <1> DEFINE Good == {m \in Nat : m <= Len(s) => Queue!Parses(s)[m] \in WellFormed}
  <1>1. 0 \in Good
    BY ParsesSteps, NewTyped
  <1>2. ASSUME NEW m \in Nat, m < Len(s), m \in Good
        PROVE  m + 1 \in Good
    <2>1. Queue!Parses(s)[m + 1] = Queue!Token(Queue!Parses(s)[m], s[m + 1])
      <3>1. m + 1 \in 0..Len(s) /\ m + 1 # 0 /\ (m + 1) - 1 = m
        BY <1>2
      <3> QED BY <3>1, ParsesSteps
    <2>2. Queue!Parses(s)[m] \in WellFormed /\ s[m + 1] \in Queue!Tokens
      BY <1>2
    <2> QED BY <1>2, <2>1, <2>2, TokenTyped
  <1>3. Len(s) \in Nat
    OBVIOUS
  <1>4. n \in Good
    <2> HIDE DEF Good
    <2> QED BY <1>1, <1>2, <1>3, Induction
  <1> QED BY <1>4

LEMMA ParsedTyped ==
    ASSUME NEW s \in Seq(Queue!Tokens)
    PROVE  /\ Queue!Parsed(s).sections \in Seq(Sections) /\ Len(Queue!Parsed(s).sections) <= MaxSections
           /\ Queue!Parsed(s).repeat \in U8s
           /\ Queue!Parsed(s).wlength \in Nat \cup {Queue!Indefinite}
           /\ Queue!Parsed(s).error \in BOOLEAN
  <1>1. PICK p : p = Queue!Parses(s)[Len(s)]
    OBVIOUS
  <1>2. PICK q : q = IF ~p.error /\ Queue!Pending(p) THEN Queue!Finalise(p) ELSE p
    OBVIOUS
  <1>3. p \in WellFormed
    <2>1. Len(s) \in 0..Len(s)
      OBVIOUS
    <2> QED BY <1>1, <2>1, ParsesTyped
  <1>4. q \in WellFormed
    BY <1>2, <1>3, FinaliseTyped
  <1>5. q.wlength * (q.repeat + 1) \in Nat
    <2>1. q.wlength \in Nat /\ q.repeat \in Nat
      BY <1>4 DEF WellFormed, Comps, U8s
    <2>2. \A a \in Nat, b \in Nat : a * (b + 1) \in Nat
      OBVIOUS
    <2> QED BY <2>1, <2>2
  <1>6. Queue!Parsed(s) = [q EXCEPT !.wlength = IF q.repeat = Marker THEN Queue!Indefinite
                                          ELSE q.wlength * (q.repeat + 1)]
    <2>1. Queue!Parsed(s) = IF q.repeat = Marker THEN [q EXCEPT !.wlength = Queue!Indefinite]
                      ELSE [q EXCEPT !.wlength = q.wlength * (q.repeat + 1)]
      BY <1>1, <1>2, Zenon DEF Queue!Parsed
    <2> QED BY <2>1, Zenon
  <1> QED BY <1>4, <1>5, <1>6 DEF WellFormed, Comps, Sized

(* What is stored, where its walk is, and what holds for both. *)
QueueComp ==
    /\ pbq_comp \in [sections : Seq(Sections), repeat : U8s, wlength : Nat \cup {Queue!Indefinite}]
    /\ Len(pbq_comp.sections) <= MaxSections

QueueWalk ==
    /\ pbq_index \in Nat /\ pbq_index <= 2 * MaxSections
    /\ \/ pbq_inner_mark = -1
       \/ \E i \in Nat : i <= MaxSections /\ pbq_inner_mark = 2 * i
    /\ pbq_inner_loop \in U8s /\ pbq_outer_loop \in U8s

QueueFlags ==
    /\ launching \in BOOLEAN /\ replaced \in BOOLEAN /\ stale \in BOOLEAN
    /\ queue_stored \in BOOLEAN
    /\ walk_state \in {"IDLE", "PLAYING", "SILENT"}

QueueInv == QueueComp /\ QueueWalk /\ QueueFlags

LEMMA QueueInit ==
    ASSUME Queue!Init
    PROVE  QueueInv
  <1>1. QueueComp
    BY Marked, EmptySeq, QueueConstants DEF Queue!Init, QueueComp
  <1>2. QueueWalk
    <2>1. 0 \in Nat /\ 0 <= MaxSections /\ 0 = 2 * 0
      BY QueueConstants
    <2> QED BY <2>1, Marked, QueueConstants DEF Queue!Init, QueueWalk
  <1>3. QueueFlags
    BY Zenon DEF Queue!Init, QueueFlags
  <1> QED BY <1>1, <1>2, <1>3 DEF QueueInv

LEMMA StoreTyped ==
    ASSUME QueueInv, NEW n \in Nat, NEW s \in Queue!Strings(n), Queue!Store(s)
    PROVE  QueueInv'
  <1>1. s \in Seq(Queue!Tokens)
    BY BoundedTyped DEF Queue!Strings
  <1>2. QueueComp'
    <2>1. pbq_comp' = [sections |-> Queue!Parsed(s).sections, repeat |-> Queue!Parsed(s).repeat,
                       wlength |-> Queue!Parsed(s).wlength]
      BY Zenon DEF Queue!Store
    <2> QED BY <1>1, <2>1, ParsedTyped DEF QueueComp
  <1>3. QueueWalk'
    BY DEF QueueInv, QueueWalk, Queue!Store, Queue!loops
  <1>4. QueueFlags'
    <2>1. queue_stored' \in BOOLEAN /\ replaced' \in BOOLEAN /\ stale' \in BOOLEAN
      BY Zenon DEF QueueInv, QueueFlags, Queue!Store
    <2> QED BY <2>1, Zenon DEF QueueInv, QueueFlags, Queue!Store
  <1> QED BY <1>2, <1>3, <1>4 DEF QueueInv

(* A launch is at one of the composite's sections. *)
LEMMA HereTyped ==
    ASSUME QueueInv, pbq_index < Queue!Halves
    PROVE  /\ Queue!Here \in Sections
           /\ Queue!Second \in Nat /\ Queue!Second >= 1 /\ Queue!Second < Queue!Halves /\ Queue!Halves <= 2 * MaxSections
           /\ \E i \in Nat : i <= MaxSections /\ Queue!Second - 1 = 2 * i
  <1>1. PICK n \in Nat : n = Len(pbq_comp.sections) /\ n <= MaxSections /\ Queue!Halves = 2 * n
    BY DEF QueueInv, QueueComp, Queue!Halves
  <1>2. PICK i \in Nat : i < n /\ i = pbq_index \div 2 /\ (pbq_index = 2 * i \/ pbq_index = 2 * i + 1)
    BY <1>1 DEF QueueInv, QueueWalk
  <1>3. Queue!Here \in Sections
    BY <1>1, <1>2 DEF QueueInv, QueueComp, Queue!Here
  <1>4. Queue!Second = 2 * i + 1
    BY <1>2 DEF Queue!Second, Queue!Fresh
  <1> QED BY <1>1, <1>2, <1>3, <1>4, QueueConstants

LEMMA LaunchWaveTyped ==
    ASSUME QueueInv, Queue!LaunchWave
    PROVE  QueueInv'
  <1>1. QueueComp'
    BY DEF QueueInv, QueueComp, Queue!LaunchWave, Queue!comp_vars
  <1>2. QueueWalk'
    <2>1. pbq_index' \in Nat /\ pbq_index' <= 2 * MaxSections
      <3>1. pbq_index < Queue!Halves /\ pbq_index' = Queue!Second
        BY Zenon DEF Queue!LaunchWave
      <3>2. /\ Queue!Second \in Nat /\ Queue!Second < Queue!Halves /\ Queue!Halves <= 2 * MaxSections
            /\ Queue!Halves \in Nat
        BY <3>1, HereTyped DEF QueueInv, QueueComp, Queue!Halves
      <3> QED BY <3>1, <3>2, QueueConstants
    <2> QED BY <2>1 DEF QueueInv, QueueWalk, Queue!LaunchWave, Queue!loops
  <1>3. QueueFlags'
    BY Zenon DEF QueueInv, QueueFlags, Queue!LaunchWave, Queue!comp_vars
  <1> QED BY <1>1, <1>2, <1>3 DEF QueueInv

LEMMA LaunchLoopTyped ==
    ASSUME QueueInv, Queue!LaunchLoop
    PROVE  QueueInv'
  <1>1. QueueComp'
    BY DEF QueueInv, QueueComp, Queue!LaunchLoop, Queue!comp_vars
  <1>2. /\ Queue!Here.repeat \in U8s /\ Queue!Second - 1 \in Nat /\ Queue!Second - 1 <= 2 * MaxSections
        /\ pbq_inner_loop < Queue!Here.repeat
    <2>1. pbq_index < Queue!Halves
      BY Zenon DEF Queue!LaunchLoop, Queue!Rest
    <2>2. pbq_inner_loop < Queue!Here.repeat
      BY Zenon DEF Queue!LaunchLoop, Queue!LoopsAgain
    <2>3. Queue!Halves \in Nat
      BY DEF QueueInv, QueueComp, Queue!Halves
    <2> QED BY <2>1, <2>2, <2>3, HereTyped, QueueConstants DEF Sections
  <1>3. QueueWalk'
    <2>1. pbq_inner_loop' \in U8s
      <3>1. pbq_inner_loop' = pbq_inner_loop + 1
        BY Zenon DEF Queue!LaunchLoop
      <3>2. pbq_inner_loop \in U8s
        BY DEF QueueInv, QueueWalk
      <3> QED BY <1>2, <3>1, <3>2, QueueConstants DEF U8s
    <2>2. pbq_index' \in Nat /\ pbq_index' <= 2 * MaxSections
      <3>1. pbq_index' = IF pbq_inner_mark >= 0 THEN pbq_inner_mark ELSE Queue!Second - 1
        BY Zenon DEF Queue!LaunchLoop
      <3>2. \/ pbq_inner_mark = -1
            \/ pbq_inner_mark \in Nat /\ pbq_inner_mark <= 2 * MaxSections
        BY QueueConstants DEF QueueInv, QueueWalk
      <3> QED BY <1>2, <3>1, <3>2
    <2> QED BY <2>1, <2>2 DEF QueueInv, QueueWalk, Queue!LaunchLoop
  <1>4. QueueFlags'
    <2>1. walk_state' \in {"IDLE", "PLAYING", "SILENT"}
      BY Zenon DEF QueueInv, QueueFlags, Queue!LaunchLoop, Queue!Silences
    <2> QED BY <2>1, Zenon DEF QueueInv, QueueFlags, Queue!LaunchLoop, Queue!comp_vars,
         Queue!history
  <1> QED BY <1>1, <1>3, <1>4 DEF QueueInv

LEMMA LaunchRestTyped ==
    ASSUME QueueInv, Queue!LaunchRest
    PROVE  QueueInv'
  <1>1. QueueComp'
    BY DEF QueueInv, QueueComp, Queue!LaunchRest, Queue!comp_vars
  <1>2. /\ Queue!Second \in Nat /\ Queue!Second < Queue!Halves /\ Queue!Halves <= 2 * MaxSections /\ Queue!Halves \in Nat
        /\ \E i \in Nat : i <= MaxSections /\ Queue!Second - 1 = 2 * i
    <2>1. pbq_index < Queue!Halves
      BY Zenon DEF Queue!LaunchRest, Queue!Rest
    <2>2. Queue!Halves \in Nat
      BY DEF QueueInv, QueueComp, Queue!Halves
    <2> QED BY <2>1, <2>2, HereTyped
  <1>3. QueueWalk'
    <2>1. /\ \/ pbq_inner_mark' = -1
             \/ \E i \in Nat : i <= MaxSections /\ pbq_inner_mark' = 2 * i
          /\ pbq_inner_loop' \in U8s
      <3>1. Queue!Inner
        BY Zenon DEF Queue!LaunchRest
      <3>2. CASE Queue!Here.repeat = Marker
        BY <1>2, <3>1, <3>2 DEF Queue!Inner, QueueInv, QueueWalk
      <3>3. CASE Queue!Here.repeat # Marker /\ Queue!Here.repeat = 0
        BY <3>1, <3>3 DEF Queue!Inner, QueueInv, QueueWalk
      <3>4. CASE Queue!Here.repeat # Marker /\ Queue!Here.repeat # 0
        BY <3>1, <3>4, Marked DEF Queue!Inner
      <3> QED BY <3>2, <3>3, <3>4
    <2>2. /\ pbq_index' \in Nat /\ pbq_index' <= 2 * MaxSections
          /\ pbq_outer_loop' \in U8s
      <3>1. pbq_comp.repeat \in U8s /\ pbq_outer_loop \in U8s
        BY DEF QueueInv, QueueComp, QueueWalk
      <3>2. PICK o : o = IF pbq_comp.repeat = Marker THEN pbq_outer_loop ELSE pbq_outer_loop + 1
        OBVIOUS
      <3>3. o \in Nat /\ (o <= pbq_comp.repeat => o \in U8s)
        BY <3>1, <3>2, QueueConstants DEF U8s
      <3>4. IF Queue!Second + 1 # Queue!Halves THEN pbq_index' = Queue!Second + 1 /\ pbq_outer_loop' = pbq_outer_loop
            ELSE IF o > pbq_comp.repeat THEN pbq_index' = Queue!Halves /\ pbq_outer_loop' = 0
            ELSE pbq_index' = 0 /\ pbq_outer_loop' = o
        BY <3>2, Zenon DEF Queue!LaunchRest, Queue!Outer
      <3>5. pbq_comp.repeat \in Nat /\ 0 \in U8s
        BY <3>1, Marked DEF U8s
      <3> QED BY <1>2, <3>1, <3>3, <3>4, <3>5, QueueConstants
    <2> QED BY <2>1, <2>2 DEF QueueWalk
  <1>4. QueueFlags'
    <2>1. walk_state' \in {"IDLE", "PLAYING", "SILENT"}
      BY Zenon DEF QueueInv, QueueFlags, Queue!LaunchRest, Queue!Silences
    <2>2. launching' \in BOOLEAN
      BY Zenon DEF QueueInv, QueueFlags, Queue!LaunchRest
    <2> QED BY <2>1, <2>2, Zenon DEF QueueInv, QueueFlags, Queue!LaunchRest, Queue!comp_vars
  <1> QED BY <1>1, <1>3, <1>4 DEF QueueInv

LEMMA QueueStep ==
    ASSUME QueueInv, [Queue!Next]_queue_vars
    PROVE  QueueInv'
  <1>1. CASE \E s \in Queue!Strings(IF written = <<>> THEN MaxTokens ELSE MaxTokensLater) : Queue!Store(s)
    <2>1. MaxTokens \in Nat /\ MaxTokensLater \in Nat
      BY PartsAssumption DEF PartsAssumption, Queue!QueueAssumption
    <2> QED BY <1>1, <2>1, StoreTyped
  <1>2. CASE Queue!Start
    <2>1. QueueComp' /\ QueueWalk'
      BY <1>2, QueueConstants DEF QueueInv, QueueComp, QueueWalk, Queue!Start,
           Queue!comp_vars, Queue!loops
    <2>2. QueueFlags'
      BY <1>2, Zenon DEF QueueInv, QueueFlags, Queue!Start, Queue!comp_vars
    <2> QED BY <2>1, <2>2 DEF QueueInv
  <1>3. CASE Queue!Wake
    <2>1. QueueComp' /\ QueueWalk'
      BY <1>3 DEF QueueInv, QueueComp, QueueWalk, Queue!Wake, Queue!comp_vars, Queue!loops
    <2>2. QueueFlags'
      BY <1>3, Zenon DEF QueueInv, QueueFlags, Queue!Wake, Queue!comp_vars, Queue!history
    <2> QED BY <2>1, <2>2 DEF QueueInv
  <1>4. CASE Queue!Cancel
    <2>1. QueueComp' /\ QueueWalk'
      BY <1>4 DEF QueueInv, QueueComp, QueueWalk, Queue!Cancel, Queue!comp_vars, Queue!loops
    <2>2. QueueFlags'
      BY <1>4, Zenon DEF QueueInv, QueueFlags, Queue!Cancel, Queue!comp_vars
    <2> QED BY <2>1, <2>2 DEF QueueInv
  <1>5. CASE Queue!LaunchWave
    BY <1>5, LaunchWaveTyped
  <1>6. CASE Queue!LaunchLoop
    BY <1>6, LaunchLoopTyped
  <1>7. CASE Queue!LaunchRest
    BY <1>7, LaunchRestTyped
  <1>8. CASE Queue!LaunchEnd
    <2>1. QueueComp' /\ QueueWalk'
      BY <1>8 DEF QueueInv, QueueComp, QueueWalk, Queue!LaunchEnd, Queue!comp_vars, Queue!loops
    <2>2. QueueFlags'
      BY <1>8, Zenon DEF QueueInv, QueueFlags, Queue!LaunchEnd, Queue!comp_vars
    <2> QED BY <2>1, <2>2 DEF QueueInv
  <1>9. CASE UNCHANGED queue_vars
    <2>1. QueueComp' /\ QueueWalk'
      BY <1>9 DEF QueueInv, QueueComp, QueueWalk, queue_vars
    <2>2. QueueFlags'
      BY <1>9, Zenon DEF QueueInv, QueueFlags, queue_vars
    <2> QED BY <2>1, <2>2 DEF QueueInv
  <1> QED BY <1>1, <1>2, <1>3, <1>4, <1>5, <1>6, <1>7, <1>8, <1>9, Zenon DEF Queue!Next,
       Queue!Launch

LEMMA QueueSafe ==
    ASSUME QueueInv
    PROVE  Queue!TypeOK
  <1>1. \A i \in 1..Len(pbq_comp.sections) :
          pbq_comp.sections[i] \in [wave : Waveforms \cup {Queue!None}, delay : Delays \cup {0},
                                    repeat : 0..Marker]
    <2>1. Sections \subseteq [wave : Waveforms \cup {Queue!None}, delay : Delays \cup {0},
                              repeat : 0..Marker]
      BY QueueConstants DEF Sections, U8s
    <2> QED BY <2>1 DEF QueueInv, QueueComp
  <1>2. /\ Len(pbq_comp.sections) <= MaxSections
        /\ pbq_comp.repeat \in 0..Marker
        /\ pbq_comp.wlength \in Nat \cup {Queue!Indefinite}
    BY QueueConstants DEF QueueInv, QueueComp, U8s
  <1>3. /\ pbq_index \in 0..(2 * MaxSections)
        /\ pbq_inner_mark \in {-1} \cup {2 * i : i \in 0..MaxSections}
        /\ pbq_inner_loop \in 0..Marker /\ pbq_outer_loop \in 0..Marker
    BY QueueConstants DEF QueueInv, QueueWalk, U8s
  <1>4. /\ queue_stored \in BOOLEAN
        /\ walk_state \in {"IDLE", "PLAYING", "SILENT"}
        /\ {launching, replaced, stale} \subseteq BOOLEAN
    BY Zenon DEF QueueInv, QueueFlags
  <1> QED BY <1>1, <1>2, <1>3, <1>4, Zenon DEF Queue!TypeOK

--------------------------------------------------------------------------------
(* Cs40l2xSettings *)

SettingsFlags ==
    foreign \in BOOLEAN /\ overwritten \in BOOLEAN

SettingsStates ==
    /\ fw \in Settings!Firmwares /\ fw_id_remap \in Remaps
    /\ comp_enable \in Values /\ chip \in {"OK", "LOST", "RESET", "DOWN"}
    /\ volume \in Values /\ wanted_volume \in Values

SettingsTables ==
    /\ memory \in [Addresses -> Values] /\ wanted \in [Settings!Attributes -> Values]
    /\ dsp_cache \in Seq(Addresses \X Values) /\ Len(dsp_cache) <= CacheMax

(* The write sequence begins with the only entry of the volume, which is the one wanted. *)
SettingsWseq ==
    /\ wseq_table \in Seq({"VOLUME", "CLAMP"} \X Values) /\ Len(wseq_table) <= WseqMax
    /\ Len(wseq_table) > 0 /\ wseq_table[1][1] = "VOLUME"
    /\ \A i \in 2..Len(wseq_table) : wseq_table[i][1] = "CLAMP"

SettingsVolume ==
    /\ ~overwritten => wseq_table[1][2] = wanted_volume
    /\ ~overwritten /\ chip = "OK" => volume = wanted_volume

(* The cache has an address once.  In firmware for effects, until something is cached that
   the cache does not hold, it is made of what is wanted of cached attributes, and what it
   lacks was not changed. *)
SettingsOnce ==
    \A i, j \in 1..Len(dsp_cache) : dsp_cache[i][1] = dsp_cache[j][1] => i = j

CacheOwn ==
    /\ \A i \in 1..Len(dsp_cache) :
         \E a \in Cached : dsp_cache[i] = <<Address[fw][a], wanted[a]>>
    /\ \A a \in Cached :
         \/ wanted[a] = FreshValue
         \/ \E i \in 1..Len(dsp_cache) : dsp_cache[i][1] = Address[fw][a]

SettingsCache ==
    /\ wanted[Settings!Comp] = comp_enable
    /\ fw # "CAL" /\ ~foreign /\ chip \in {"OK", "LOST"} => CacheOwn

SettingsForce ==
    chip = "OK" /\ fw # "CAL" /\ ~foreign =>
        \A a \in Cached \cup {Settings!Comp} : Address[fw][a] # Settings!NoAddress => memory[Address[fw][a]] = wanted[a]

SettingsInv ==
    /\ SettingsFlags /\ SettingsStates /\ SettingsTables /\ SettingsWseq /\ SettingsVolume
    /\ SettingsOnce /\ SettingsCache /\ SettingsForce

LEMMA SettingsConstants ==
    /\ FreshValue \in Values /\ "CAL" \notin Remaps /\ Settings!Comp \notin Cached \cup Uncached
    /\ Settings!NoAddress \notin Addresses
    /\ Address \in [Settings!Firmwares -> [Settings!Attributes -> Addresses \cup {Settings!NoAddress}]]
    /\ CacheMax \in Nat \ {0, 1} /\ WseqMax \in Nat \ {0, 1} /\ amp_gnd_stby \in BOOLEAN
  BY PartsAssumption DEF PartsAssumption, Settings!SettingsAssumption

LEMMA AddressTyped ==
    ASSUME NEW f \in Settings!Firmwares, NEW a \in Settings!Attributes, Address[f][a] # Settings!NoAddress
    PROVE  Address[f][a] \in Addresses
  BY SettingsConstants

LEMMA AddressApart ==
    ASSUME NEW f \in Settings!Firmwares, NEW a \in Settings!Attributes, NEW b \in Settings!Attributes, a # b,
           Address[f][a] # Settings!NoAddress
    PROVE  Address[f][a] # Address[f][b]
  BY PartsAssumption DEF PartsAssumption, Settings!SettingsAssumption

(* A sequence of pairs that has a key once, written out. *)
LEMMA WrittenOnce ==
    ASSUME NEW s, NEW i \in 1..Len(s), NEW key, NEW old, s[i][1] = key,
           Len(s) \in Nat, \A j \in 1..Len(s) : s[j][1] = key => j = i
    PROVE  Settings!WrittenOut(s, key, old) = s[i][2]
  <1>1. Settings!Last(s, key) = {i}
    BY DEF Settings!Last
  <1>2. (CHOOSE j \in {i} : TRUE) = i
    OBVIOUS
  <1> QED BY <1>1, <1>2 DEF Settings!WrittenOut

LEMMA WrittenNever ==
    ASSUME NEW s, NEW key, NEW old, \A j \in 1..Len(s) : s[j][1] # key
    PROVE  Settings!WrittenOut(s, key, old) = old
  <1>1. Settings!Last(s, key) = {}
    BY DEF Settings!Last
  <1> QED BY <1>1 DEF Settings!WrittenOut

(* What cs40l2x_dsp_cache does to the table: it stays one, and has the value unless it is full. *)
CacheSound(c) ==
    /\ c \in Seq(Addresses \X Values) /\ Len(c) <= CacheMax
    /\ \A i, j \in 1..Len(c) : c[i][1] = c[j][1] => i = j

CacheTook(c, reg, val) ==
    /\ \E i \in 1..Len(c) : c[i] = <<reg, val>>
    /\ \A i \in 1..Len(c) : \/ c[i] = <<reg, val>>
                            \/ /\ i \in 1..Len(dsp_cache)
                               /\ c[i] = dsp_cache[i] /\ dsp_cache[i][1] # reg
    /\ \A j \in 1..Len(dsp_cache) : j \in 1..Len(c) /\ c[j][1] = dsp_cache[j][1]

LEMMA CacheStored ==
    ASSUME SettingsTables, SettingsOnce, NEW reg \in Addresses, NEW val \in Values
    PROVE  /\ CacheSound(Settings!CacheWith(reg, val))
           /\ ~Settings!CacheFull(reg) => CacheTook(Settings!CacheWith(reg, val), reg, val)
  <1>0. PICK c : c = Settings!CacheWith(reg, val)
    OBVIOUS
  <1> SUFFICES CacheSound(c) /\ (~Settings!CacheFull(reg) => CacheTook(c, reg, val))
    BY <1>0
  <1> USE DEF CacheSound, CacheTook
  <1>t. /\ dsp_cache \in Seq(Addresses \X Values) /\ Len(dsp_cache) <= CacheMax
        /\ Len(dsp_cache) \in Nat /\ CacheMax \in Nat
    BY SettingsConstants DEF SettingsTables
  <1>o. \A i, j \in 1..Len(dsp_cache) : dsp_cache[i][1] = dsp_cache[j][1] => i = j
    BY DEF SettingsOnce
  <1>p. <<reg, val>> \in Addresses \X Values /\ <<reg, val>>[1] = reg
    OBVIOUS
  <1>1. CASE Settings!CacheFull(reg)
    <2>1. c = dsp_cache
      BY <1>0, <1>1 DEF Settings!CacheWith
    <2> QED BY <1>1, <2>1, <1>t, <1>o
  <1>2. CASE ~Settings!CacheFull(reg) /\ Settings!First(dsp_cache, reg) = {}
    <2>1. c = Append(dsp_cache, <<reg, val>>) /\ Len(dsp_cache) # CacheMax
      BY <1>0, <1>2 DEF Settings!CacheWith, Settings!CacheFull
    <2>2. \A i \in 1..Len(dsp_cache) : dsp_cache[i][1] # reg
      <3> SUFFICES ASSUME NEW i \in 1..Len(dsp_cache), dsp_cache[i][1] = reg PROVE FALSE
        OBVIOUS
      <3>1. i \in Settings!First(dsp_cache, reg)
        BY <1>o, <1>t DEF Settings!First
      <3> QED BY <3>1, <1>2
    <2>3. /\ c \in Seq(Addresses \X Values) /\ Len(c) = Len(dsp_cache) + 1
          /\ c[Len(dsp_cache) + 1] = <<reg, val>>
          /\ \A i \in 1..Len(dsp_cache) : c[i] = dsp_cache[i]
      BY <2>1, <1>t, <1>p
    <2>4. \A i \in 1..Len(c) : i = Len(dsp_cache) + 1 \/ i \in 1..Len(dsp_cache)
      BY <2>3, <1>t
    <2>5. Len(dsp_cache) + 1 \in 1..Len(c) /\ Len(c) <= CacheMax
      BY <2>1, <2>3, <1>t
    <2>6. \A j \in 1..Len(dsp_cache) : j \in 1..Len(c)
      BY <2>3, <1>t
    <2>7. \A i, j \in 1..Len(c) : c[i][1] = c[j][1] => i = j
      BY <2>2, <2>3, <2>4, <1>o, <1>p
    <2> QED BY <2>2, <2>3, <2>4, <2>5, <2>6, <2>7
  <1>3. CASE ~Settings!CacheFull(reg) /\ Settings!First(dsp_cache, reg) # {}
    <2> DEFINE k == CHOOSE i \in Settings!First(dsp_cache, reg) : TRUE
    <2>1. k \in 1..Len(dsp_cache) /\ dsp_cache[k][1] = reg
      BY <1>3 DEF Settings!First
    <2>2. c = [dsp_cache EXCEPT ![k] = <<reg, val>>]
      BY <1>0, <1>3 DEF Settings!CacheWith
    <2> HIDE DEF k
    <2>3. c \in Seq(Addresses \X Values) /\ Len(c) = Len(dsp_cache)
      BY <2>1, <2>2, <1>t, <1>p
    <2>4. c[k] = <<reg, val>> /\ \A i \in 1..Len(dsp_cache) : i # k => c[i] = dsp_cache[i]
      BY <2>1, <2>2, <1>t
    <2>5. \A i \in 1..Len(dsp_cache) : c[i][1] = dsp_cache[i][1] /\ (i # k => dsp_cache[i][1] # reg)
      BY <2>1, <2>4, <1>o, <1>p
    <2>6. \A i, j \in 1..Len(c) : c[i][1] = c[j][1] => i = j
      BY <2>3, <2>5, <1>o
    <2>7. \E i \in 1..Len(c) : c[i] = <<reg, val>>
      BY <2>1, <2>3, <2>4
    <2>8. \A i \in 1..Len(c) : \/ c[i] = <<reg, val>>
                                \/ /\ i \in 1..Len(dsp_cache)
                                   /\ c[i] = dsp_cache[i] /\ dsp_cache[i][1] # reg
      BY <2>1, <2>3, <2>4, <2>5
    <2>9. \A j \in 1..Len(dsp_cache) : j \in 1..Len(c) /\ c[j][1] = dsp_cache[j][1]
      BY <2>3, <2>5
    <2> QED BY <2>3, <2>6, <2>7, <2>8, <2>9, <1>t
  <1> QED BY <1>1, <1>2, <1>3

(* Out of the boot ROM the volume is the one in the sequence, which is replaced in place. *)
LEMMA VolumeExecuted ==
    ASSUME SettingsWseq
    PROVE  Settings!Executed = wseq_table[1][2] /\ Settings!First(wseq_table, "VOLUME") = {1}
  <1>1. /\ Len(wseq_table) \in Nat /\ 1 \in 1..Len(wseq_table) /\ wseq_table[1][1] = "VOLUME"
        /\ \A j \in 1..Len(wseq_table) : wseq_table[j][1] = "VOLUME" => j = 1
    BY DEF SettingsWseq
  <1>2. Settings!WrittenOut(wseq_table, "VOLUME", volume) = wseq_table[1][2]
    BY <1>1, WrittenOnce
  <1>3. Settings!First(wseq_table, "VOLUME") = {1}
    BY <1>1 DEF Settings!First
  <1> QED BY <1>2, <1>3 DEF Settings!Executed

LEMMA SettingsFlagsStep ==
    ASSUME SettingsFlags, [Settings!Next]_settings_vars
    PROVE  SettingsFlags'
  <1> USE Zenon DEF SettingsFlags
  <1>1. ASSUME NEW a \in Cached \cup Uncached, NEW v \in Values, Settings!Store(a, v)
        PROVE  SettingsFlags'
    BY <1>1 DEF Settings!Store
  <1>2. ASSUME NEW v \in Values, Settings!StoreComp(v) \/ Settings!StoreVolume(v) \/ Settings!StoreIpk(v)
        PROVE  SettingsFlags'
    BY <1>2 DEF Settings!StoreComp, Settings!StoreVolume, Settings!StoreIpk
  <1>3. ASSUME NEW id, NEW kept, Settings!Swap(id, kept)
        PROVE  SettingsFlags'
    BY <1>3 DEF Settings!Swap
  <1>4. ASSUME NEW id, Settings!SwapFails(id)
        PROVE  SettingsFlags'
    BY <1>4 DEF Settings!SwapFails, Settings!wants
  <1>5. ASSUME NEW id \in Remaps, Settings!FwSwapStore(id)
        PROVE  SettingsFlags'
    BY <1>5, <1>3, <1>4 DEF Settings!FwSwapStore
  <1>6. CASE Settings!StoreIndex
    BY <1>6, <1>3, <1>4 DEF Settings!StoreIndex
  <1>7. CASE Settings!HwReset
    BY <1>7, <1>4 DEF Settings!HwReset, Settings!wants
  <1>8. CASE Settings!Recover
    BY <1>8, <1>4 DEF Settings!Recover, Settings!wants
  <1>9. CASE Settings!Lose
    BY <1>9 DEF Settings!Lose, Settings!wants
  <1>10. CASE UNCHANGED settings_vars
    BY <1>10 DEF settings_vars
  <1> QED BY <1>1, <1>2, <1>5, <1>6, <1>7, <1>8, <1>9, <1>10 DEF Settings!Next

LEMMA SettingsStatesStep ==
    ASSUME SettingsStates, SettingsWseq, [Settings!Next]_settings_vars
    PROVE  SettingsStates'
  <1> USE SettingsConstants DEF SettingsStates
  <1>f. fw \in Settings!Firmwares /\ "CAL" \in Settings!Firmwares /\ \A id \in Remaps : id \in Settings!Firmwares
    BY DEF Settings!Firmwares
  <1>e. Settings!Executed \in Values
    BY VolumeExecuted DEF SettingsWseq
  <1>1. ASSUME NEW a \in Cached \cup Uncached, NEW v \in Values, Settings!Store(a, v)
        PROVE  SettingsStates'
    BY <1>1 DEF Settings!Store
  <1>2. ASSUME NEW v \in Values, Settings!StoreComp(v) \/ Settings!StoreVolume(v) \/ Settings!StoreIpk(v)
        PROVE  SettingsStates'
    BY <1>2 DEF Settings!StoreComp, Settings!StoreVolume, Settings!StoreIpk, Settings!device
  <1>3. ASSUME NEW id \in Settings!Firmwares, NEW kept, Settings!Swap(id, kept), fw_id_remap' \in Remaps
        PROVE  SettingsStates'
    BY <1>3 DEF Settings!Swap
  <1>4. ASSUME NEW id \in Settings!Firmwares, Settings!SwapFails(id)
        PROVE  SettingsStates'
    BY <1>4 DEF Settings!SwapFails, Settings!wants
  <1>5. ASSUME NEW id \in Remaps, Settings!FwSwapStore(id)
        PROVE  SettingsStates'
    BY <1>5, <1>3, <1>4, <1>f DEF Settings!FwSwapStore
  <1>6. CASE Settings!StoreIndex
    BY <1>6, <1>3, <1>4, <1>f DEF Settings!StoreIndex
  <1>b. ASSUME NEW kept, Settings!Boot(kept), UNCHANGED wanted_volume PROVE SettingsStates'
    BY <1>b, <1>e DEF Settings!Boot
  <1>7. CASE Settings!HwReset
    BY <1>7, <1>4, <1>b, <1>f DEF Settings!HwReset, Settings!driver, Settings!wants
  <1>8. CASE Settings!Recover
    BY <1>8, <1>4, <1>b, <1>f DEF Settings!Recover, Settings!wants
  <1>9. CASE Settings!Lose
    BY <1>9 DEF Settings!Lose, Settings!wants, Settings!driver
  <1>10. CASE UNCHANGED settings_vars
    BY <1>10 DEF settings_vars
  <1> QED BY <1>1, <1>2, <1>5, <1>6, <1>7, <1>8, <1>9, <1>10 DEF Settings!Next

(* Values in tables *)
LEMMA BlankTyped ==
    /\ Settings!Blank \in [Addresses -> Values] /\ Settings!Unset \in [Settings!Attributes -> Values]
    /\ \A a \in Addresses : Settings!Blank[a] = FreshValue
    /\ \A a \in Settings!Attributes : Settings!Unset[a] = FreshValue
  BY SettingsConstants DEF Settings!Blank, Settings!Unset

LEMMA LoadedTyped ==
    ASSUME NEW id \in Settings!Firmwares, comp_enable \in Values
    PROVE  /\ Settings!Loaded(id) \in [Addresses -> Values]
           /\ [Settings!Unset EXCEPT ![Settings!Comp] = comp_enable] \in [Settings!Attributes -> Values]
           /\ id # "CAL" /\ Address[id][Settings!Comp] # Settings!NoAddress =>
                Settings!Loaded(id)[Address[id][Settings!Comp]] = comp_enable
           /\ \A a \in Addresses : a # Address[id][Settings!Comp] => Settings!Loaded(id)[a] = FreshValue
  <1>1. Settings!Comp \in Settings!Attributes
    BY DEF Settings!Attributes
  <1>2. Address[id][Settings!Comp] # Settings!NoAddress => Address[id][Settings!Comp] \in Addresses
    BY <1>1, AddressTyped
  <1> QED BY <1>1, <1>2, BlankTyped DEF Settings!Loaded

LEMMA ReplayedTyped ==
    ASSUME NEW m \in [Addresses -> Values], dsp_cache' \in Seq(Addresses \X Values)
    PROVE  Settings!Replayed(m) \in [Addresses -> Values]
  <1> SUFFICES ASSUME NEW a \in Addresses PROVE Settings!WrittenOut(dsp_cache', a, m[a]) \in Values
    BY DEF Settings!Replayed
  <1>1. CASE Settings!Last(dsp_cache', a) = {}
    BY <1>1 DEF Settings!WrittenOut
  <1>2. CASE Settings!Last(dsp_cache', a) # {}
    <2>1. PICK i \in Settings!Last(dsp_cache', a) : Settings!WrittenOut(dsp_cache', a, m[a]) = dsp_cache'[i][2]
      BY <1>2 DEF Settings!WrittenOut
    <2>2. i \in 1..Len(dsp_cache')
      BY DEF Settings!Last
    <2>3. dsp_cache'[i] \in Addresses \X Values
      BY <2>2
    <2> QED BY <2>1, <2>3
  <1> QED BY <1>1, <1>2

LEMMA SettingsTablesStep ==
    ASSUME SettingsStates, SettingsTables, SettingsOnce, [Settings!Next]_settings_vars
    PROVE  SettingsTables' /\ SettingsOnce'
  <1> DEFINE Memory == memory' \in [Addresses -> Values] /\ wanted' \in [Settings!Attributes -> Values]
  <1>t. /\ memory \in [Addresses -> Values] /\ wanted \in [Settings!Attributes -> Values]
        /\ fw \in Settings!Firmwares /\ comp_enable \in Values
    BY DEF SettingsTables, SettingsStates
  <1>f. "CAL" \in Settings!Firmwares /\ \A id \in Remaps : id \in Settings!Firmwares
    BY DEF Settings!Firmwares
  <1>c. CacheSound(dsp_cache) /\ CacheSound(<<>>)
    BY SettingsConstants DEF SettingsTables, SettingsOnce, CacheSound
  <1> SUFFICES Memory /\ CacheSound(dsp_cache')
    BY DEF SettingsTables, SettingsOnce, CacheSound
    <1>1. ASSUME NEW a \in Cached \cup Uncached, NEW v \in Values, Settings!Store(a, v)
        PROVE  Memory /\ CacheSound(dsp_cache')
    <2>1. a \in Settings!Attributes /\ Settings!Reg(a) \in Addresses
      BY <1>1, <1>t, AddressTyped DEF Settings!Attributes, Settings!Store, Settings!Reg
    <2>2. CacheSound(Settings!CacheWith(Settings!Reg(a), v))
      BY <2>1, CacheStored
    <2> QED BY <1>1, <1>t, <1>c, <2>1, <2>2 DEF Settings!Store
  <1>2. ASSUME NEW v \in Values, Settings!StoreComp(v) \/ Settings!StoreVolume(v) \/ Settings!StoreIpk(v)
        PROVE  Memory /\ CacheSound(dsp_cache')
    <2>1. CASE Settings!StoreComp(v)
      <3>1. Settings!Comp \in Settings!Attributes /\ (Settings!Reg(Settings!Comp) # Settings!NoAddress => Settings!Reg(Settings!Comp) \in Addresses)
        BY <1>t, AddressTyped DEF Settings!Attributes, Settings!Reg
      <3> QED BY <2>1, <3>1, <1>t, <1>c DEF Settings!StoreComp
    <2>2. CASE Settings!StoreVolume(v) \/ Settings!StoreIpk(v)
      BY <2>2, <1>t, <1>c DEF Settings!StoreVolume, Settings!StoreIpk, Settings!device
    <2> QED BY <1>2, <2>1, <2>2
  <1>3. ASSUME NEW id \in Settings!Firmwares, NEW kept, CacheSound(kept), Settings!Swap(id, kept)
        PROVE  Memory /\ CacheSound(dsp_cache')
    BY <1>3, <1>t, <1>c, LoadedTyped DEF Settings!Swap, Settings!SwapCache
  <1>4. ASSUME NEW id \in Settings!Firmwares, Settings!SwapFails(id)
        PROVE  Memory /\ CacheSound(dsp_cache')
    BY <1>4, <1>t, <1>c, BlankTyped DEF Settings!SwapFails, Settings!wants
  <1>5. ASSUME NEW id \in Remaps, Settings!FwSwapStore(id)
        PROVE  Memory /\ CacheSound(dsp_cache')
    BY <1>5, <1>3, <1>4, <1>f, <1>c DEF Settings!FwSwapStore
  <1>6. CASE Settings!StoreIndex
    <2>1. fw_id_remap \in Settings!Firmwares
      BY <1>f DEF SettingsStates
    <2> QED BY <1>6, <1>3, <1>4, <1>f, <1>c, <2>1 DEF Settings!StoreIndex
  <1>7. CASE Settings!HwReset
    BY <1>7, <1>4, <1>t, <1>c, BlankTyped, LoadedTyped DEF Settings!HwReset, Settings!Boot,
         Settings!SwapCache, Settings!driver, Settings!wants
  <1>8. CASE Settings!Recover
    <2>1. CASE Settings!SwapFails(fw)
      BY <2>1, <1>4, <1>t
    <2>2. CASE Settings!Boot(dsp_cache) /\ memory' = Settings!Replayed(Settings!Loaded(fw)) /\ UNCHANGED Settings!wants
      <3>1. CacheSound(dsp_cache')
        BY <2>2, <1>c DEF Settings!Boot, Settings!SwapCache
      <3>2. dsp_cache' \in Seq(Addresses \X Values)
        BY <3>1 DEF CacheSound
      <3>3. memory' \in [Addresses -> Values]
        BY <2>2, <3>2, <1>t, LoadedTyped, ReplayedTyped
      <3> QED BY <2>2, <3>1, <3>3, <1>t DEF Settings!wants
    <2> QED BY <1>8, <2>1, <2>2 DEF Settings!Recover
  <1>9. CASE Settings!Lose
    BY <1>9, <1>t, <1>c, BlankTyped DEF Settings!Lose, Settings!wants, Settings!driver
  <1>10. CASE UNCHANGED settings_vars
    BY <1>10, <1>t, <1>c DEF settings_vars
  <1> QED BY <1>1, <1>2, <1>5, <1>6, <1>7, <1>8, <1>9, <1>10 DEF Settings!Next

LEMMA SettingsWseqStep ==
    ASSUME SettingsStates, SettingsWseq, SettingsVolume, [Settings!Next]_settings_vars
    PROVE  SettingsWseq' /\ SettingsVolume'
  <1> DEFINE Wseq(t) == /\ t \in Seq({"VOLUME", "CLAMP"} \X Values) /\ Len(t) <= WseqMax
                        /\ Len(t) > 0 /\ t[1][1] = "VOLUME"
                        /\ \A i \in 2..Len(t) : t[i][1] = "CLAMP"
  <1>t. Wseq(wseq_table) /\ (Wseq(wseq_table') => SettingsWseq')
    BY DEF SettingsWseq
  <1>c. FreshValue \in Values /\ WseqMax \in Nat
    BY SettingsConstants
  <1>v. Settings!Executed = wseq_table[1][2] /\ Settings!First(wseq_table, "VOLUME") = {1}
    BY VolumeExecuted
  <1>w. ASSUME NEW v \in Values, Settings!WseqReplace("VOLUME", v)
        PROVE  Wseq(wseq_table') /\ wseq_table'[1] = <<"VOLUME", v>>
    <2>1. (CHOOSE i \in Settings!First(wseq_table, "VOLUME") : TRUE) = 1
      BY <1>v
    <2>2. wseq_table' = [wseq_table EXCEPT ![1] = <<"VOLUME", v>>]
      BY <1>w, <2>1 DEF Settings!WseqReplace
    <2>3. <<"VOLUME", v>> \in {"VOLUME", "CLAMP"} \X Values /\ <<"VOLUME", v>>[1] = "VOLUME"
      OBVIOUS
    <2>4. wseq_table' \in Seq({"VOLUME", "CLAMP"} \X Values) /\ Len(wseq_table') = Len(wseq_table)
      BY <2>2, <2>3, <1>t
    <2>5. wseq_table'[1] = <<"VOLUME", v>> /\ \A i \in 2..Len(wseq_table) : wseq_table'[i] = wseq_table[i]
      BY <2>2, <1>t
    <2> QED BY <2>3, <2>4, <2>5, <1>t
  <1>a. ASSUME NEW id, Settings!SwapFits(id), Settings!SwapWseq(id)
        PROVE  Wseq(wseq_table') /\ wseq_table'[1] = wseq_table[1]
    <2>1. CASE wseq_table' = wseq_table
      BY <2>1, <1>t
    <2>2. CASE wseq_table' = Append(wseq_table, <<"CLAMP", FreshValue>>) /\ Len(wseq_table) < WseqMax
      <3>1. <<"CLAMP", FreshValue>> \in {"VOLUME", "CLAMP"} \X Values /\ <<"CLAMP", FreshValue>>[1] = "CLAMP"
        BY <1>c
      <3>2. /\ wseq_table' \in Seq({"VOLUME", "CLAMP"} \X Values)
            /\ Len(wseq_table') = Len(wseq_table) + 1
            /\ wseq_table'[Len(wseq_table) + 1] = <<"CLAMP", FreshValue>>
            /\ \A i \in 1..Len(wseq_table) : wseq_table'[i] = wseq_table[i]
        BY <2>2, <3>1, <1>t
      <3>3. 1 \in 1..Len(wseq_table) /\ Len(wseq_table) \in Nat
        BY <1>t
      <3>4. \A i \in 2..Len(wseq_table') : i = Len(wseq_table) + 1 \/ i \in 2..Len(wseq_table)
        BY <3>2, <3>3
      <3>5. Len(wseq_table') <= WseqMax /\ Len(wseq_table') > 0
        BY <3>2, <3>3, <2>2, <1>c
      <3>6. 2..Len(wseq_table) \subseteq 1..Len(wseq_table)
        BY <3>3
      <3>7. \A i \in 2..Len(wseq_table) : wseq_table'[i][1] = "CLAMP"
        BY <3>2, <3>6, <1>t
      <3>8. \A i \in 2..Len(wseq_table') : wseq_table'[i][1] = "CLAMP"
        BY <3>1, <3>2, <3>4, <3>7
      <3>9. wseq_table'[1] = wseq_table[1] /\ wseq_table[1][1] = "VOLUME"
        BY <3>2, <3>3, <1>t
      <3> QED BY <3>2, <3>5, <3>8, <3>9
    <2> QED BY <1>a, <2>1, <2>2 DEF Settings!SwapFits, Settings!SwapWseq
  <1> HIDE DEF Wseq
  <1> USE DEF SettingsVolume
  <1>1. ASSUME NEW a \in Cached \cup Uncached, NEW v \in Values, Settings!Store(a, v)
        PROVE  SettingsWseq' /\ SettingsVolume'
    BY <1>1, <1>t DEF Settings!Store
  <1>2. ASSUME NEW v \in Values, Settings!StoreComp(v) \/ Settings!StoreVolume(v) \/ Settings!StoreIpk(v)
        PROVE  SettingsWseq' /\ SettingsVolume'
    BY <1>2, <1>t, <1>w DEF Settings!StoreComp, Settings!StoreVolume, Settings!StoreIpk,
         Settings!device
  <1>3. ASSUME NEW id, NEW kept, Settings!Swap(id, kept)
        PROVE  SettingsWseq' /\ SettingsVolume'
    BY <1>3, <1>t, <1>a DEF Settings!Swap
  <1>4. ASSUME NEW id, Settings!SwapFails(id)
        PROVE  SettingsWseq' /\ SettingsVolume'
    BY <1>4, <1>t DEF Settings!SwapFails, Settings!wants
  <1>5. ASSUME NEW id \in Remaps, Settings!FwSwapStore(id)
        PROVE  SettingsWseq' /\ SettingsVolume'
    BY <1>5, <1>3, <1>4 DEF Settings!FwSwapStore
  <1>6. CASE Settings!StoreIndex
    BY <1>6, <1>3, <1>4 DEF Settings!StoreIndex
  <1>b. ASSUME NEW kept, Settings!Boot(kept), UNCHANGED <<wanted_volume, overwritten>>
        PROVE  SettingsWseq' /\ SettingsVolume'
    BY <1>b, <1>t, <1>a, <1>v DEF Settings!Boot
  <1>7. CASE Settings!HwReset
    BY <1>7, <1>4, <1>b, <1>t DEF Settings!HwReset, Settings!driver, Settings!wants
  <1>8. CASE Settings!Recover
    BY <1>8, <1>4, <1>b DEF Settings!Recover, Settings!wants
  <1>9. CASE Settings!Lose
    BY <1>9, <1>t DEF Settings!Lose, Settings!wants, Settings!driver
  <1>10. CASE UNCHANGED settings_vars
    BY <1>10, <1>t DEF settings_vars
  <1> QED BY <1>1, <1>2, <1>5, <1>6, <1>7, <1>8, <1>9, <1>10 DEF Settings!Next

(* Freshly loaded firmware, with an empty cache *)
LEMMA LoadedOwn ==
    ASSUME SettingsStates', dsp_cache' = <<>>, wanted' = [Settings!Unset EXCEPT ![Settings!Comp] = comp_enable],
           comp_enable' = comp_enable
    PROVE  /\ SettingsCache'
           /\ memory' = Settings!Loaded(fw') => SettingsForce'
  <1>t. fw' \in Settings!Firmwares /\ comp_enable \in Values
    BY DEF SettingsStates
  <1>a. /\ Settings!Comp \in Settings!Attributes /\ Settings!Comp \notin Cached /\ Cached \subseteq Settings!Attributes
    BY SettingsConstants DEF Settings!Attributes
  <1>1. wanted'[Settings!Comp] = comp_enable /\ \A a \in Cached : wanted'[a] = FreshValue
    BY <1>a, BlankTyped
  <1>2. Len(dsp_cache') = 0
    OBVIOUS
  <1>3. CacheOwn'
    BY <1>1, <1>2 DEF CacheOwn
  <1>4. SettingsCache'
    BY <1>1, <1>3 DEF SettingsCache
  <1>5. ASSUME memory' = Settings!Loaded(fw') PROVE SettingsForce'
    <2> SUFFICES ASSUME fw' # "CAL", NEW a \in Cached \cup {Settings!Comp}, Address[fw'][a] # Settings!NoAddress
                 PROVE  memory'[Address[fw'][a]] = wanted'[a]
      BY DEF SettingsForce
    <2>1. Address[fw'][a] \in Addresses
      BY <1>a, <1>t, AddressTyped
    <2>2. CASE a = Settings!Comp
      BY <2>2, <1>1, <1>5, <1>t, LoadedTyped
    <2>3. CASE a # Settings!Comp
      <3>1. Address[fw'][a] # Address[fw'][Settings!Comp]
        BY <2>3, <1>a, <1>t, AddressApart
      <3> QED BY <2>1, <2>3, <3>1, <1>1, <1>5, <1>t, LoadedTyped
    <2> QED BY <2>2, <2>3
  <1> QED BY <1>4, <1>5

LEMMA SettingsStoreKeeps ==
    ASSUME SettingsStates, SettingsTables, SettingsOnce, SettingsCache, SettingsForce,
           NEW a \in Cached \cup Uncached, NEW v \in Values, Settings!Store(a, v)
    PROVE  SettingsCache' /\ SettingsForce'
  <1>t. /\ fw \in Settings!Firmwares /\ memory \in [Addresses -> Values] /\ wanted \in [Settings!Attributes -> Values]
        /\ dsp_cache \in Seq(Addresses \X Values)
    BY DEF SettingsStates, SettingsTables
  <1>a. /\ Settings!Comp \in Settings!Attributes /\ Cached \subseteq Settings!Attributes /\ a \in Settings!Attributes
        /\ Settings!Comp \notin Cached /\ a # Settings!Comp
    BY SettingsConstants DEF Settings!Attributes
  <1>s. /\ chip \in {"OK", "LOST"} /\ Settings!Reg(a) # Settings!NoAddress
        /\ memory' = [memory EXCEPT ![Settings!Reg(a)] = v]
        /\ dsp_cache' = IF a \in Cached THEN Settings!CacheWith(Settings!Reg(a), v) ELSE dsp_cache
        /\ wanted' = IF a \in Cached /\ Settings!CacheFull(Settings!Reg(a)) THEN wanted ELSE [wanted EXCEPT ![a] = v]
        /\ foreign' = (foreign \/ (a \in Cached /\ Settings!CacheFull(Settings!Reg(a))))
        /\ UNCHANGED <<fw, comp_enable, chip>>
    BY DEF Settings!Store
  <1>r. Settings!Reg(a) = Address[fw][a] /\ Settings!Reg(a) \in Addresses
    BY <1>a, <1>s, <1>t, AddressTyped DEF Settings!Reg
  <1>p. \A b \in Settings!Attributes : b # a => Address[fw][b] # Settings!Reg(a)
    BY <1>a, <1>r, <1>s, <1>t, AddressApart
  <1>w. \A b \in Settings!Attributes : b # a => wanted'[b] = wanted[b]
    BY <1>s, <1>t
  <1>1. wanted'[Settings!Comp] = comp_enable'
    BY <1>a, <1>s, <1>w DEF SettingsCache
  <1>2. ASSUME fw' # "CAL", ~foreign' PROVE CacheOwn'
    <2>o. CacheOwn /\ ~(a \in Cached /\ Settings!CacheFull(Settings!Reg(a))) /\ wanted'[a] = v
      BY <1>2, <1>a, <1>s, <1>t DEF SettingsCache
    <2>1. CASE a \notin Cached
      BY <2>1, <2>o, <1>a, <1>s, <1>w DEF CacheOwn
    <2>2. CASE a \in Cached
      <3>0. CacheTook(Settings!CacheWith(Settings!Reg(a), v), Settings!Reg(a), v)
        BY <2>2, <2>o, <1>r, CacheStored
      <3>1. PICK c : c = dsp_cache'
        OBVIOUS
      <3>2. /\ \E i \in 1..Len(c) : c[i] = <<Settings!Reg(a), v>>
            /\ \A i \in 1..Len(c) : \/ c[i] = <<Settings!Reg(a), v>>
                                    \/ /\ i \in 1..Len(dsp_cache)
                                       /\ c[i] = dsp_cache[i] /\ dsp_cache[i][1] # Settings!Reg(a)
            /\ \A j \in 1..Len(dsp_cache) : j \in 1..Len(c) /\ c[j][1] = dsp_cache[j][1]
        <4>1. CacheTook(c, Settings!Reg(a), v)
          BY <3>0, <3>1, <2>2, <1>s
        <4> QED BY <4>1 DEF CacheTook
      <3>3. ASSUME NEW i \in 1..Len(c)
            PROVE  \E b \in Cached : c[i] = <<Address[fw][b], wanted'[b]>>
        <4>1. CASE c[i] = <<Settings!Reg(a), v>>
          BY <4>1, <2>2, <2>o, <1>r
        <4>2. CASE i \in 1..Len(dsp_cache) /\ c[i] = dsp_cache[i] /\ dsp_cache[i][1] # Settings!Reg(a)
          <5>1. PICK b \in Cached : dsp_cache[i] = <<Address[fw][b], wanted[b]>>
            BY <4>2, <2>o DEF CacheOwn
          <5>2. b # a
            BY <5>1, <4>2, <1>r
          <5> QED BY <4>2, <5>1, <5>2, <1>a, <1>w
        <4> QED BY <3>2, <4>1, <4>2
      <3>4. ASSUME NEW b \in Cached
            PROVE  \/ wanted'[b] = FreshValue
                   \/ \E i \in 1..Len(c) : c[i][1] = Address[fw][b]
        <4>1. CASE b = a
          BY <4>1, <3>2, <1>r
        <4>2. CASE b # a
          BY <4>2, <3>2, <2>o, <1>a, <1>w DEF CacheOwn
        <4> QED BY <4>1, <4>2
      <3> QED BY <3>1, <3>3, <3>4, <1>s DEF CacheOwn
    <2> QED BY <2>1, <2>2
  <1>3. ASSUME chip' = "OK", fw' # "CAL", ~foreign', NEW b \in Cached \cup {Settings!Comp},
               Address[fw][b] # Settings!NoAddress
        PROVE  memory'[Address[fw][b]] = wanted'[b]
    <2>1. b \in Settings!Attributes /\ Address[fw][b] \in Addresses
      BY <1>3, <1>a, <1>t, AddressTyped
    <2>2. CASE b = a
      BY <2>2, <1>3, <1>a, <1>r, <1>s, <1>t
    <2>3. CASE b # a
      <3>1. memory[Address[fw][b]] = wanted[b]
        BY <1>3, <1>s DEF SettingsForce
      <3> QED BY <2>1, <2>3, <3>1, <1>p, <1>w, <1>s, <1>t
    <2> QED BY <2>2, <2>3
  <1> QED BY <1>1, <1>2, <1>3, <1>s DEF SettingsCache, SettingsForce

LEMMA SettingsCompKeeps ==
    ASSUME SettingsStates, SettingsTables, SettingsCache, SettingsForce,
           NEW v \in Values, Settings!StoreComp(v)
    PROVE  SettingsCache' /\ SettingsForce'
  <1>t. /\ fw \in Settings!Firmwares /\ memory \in [Addresses -> Values] /\ wanted \in [Settings!Attributes -> Values]
    BY DEF SettingsStates, SettingsTables
  <1>a. Settings!Comp \in Settings!Attributes /\ Cached \subseteq Settings!Attributes /\ Settings!Comp \notin Cached
    BY SettingsConstants DEF Settings!Attributes
  <1>s. /\ comp_enable' = v /\ wanted' = [wanted EXCEPT ![Settings!Comp] = v]
        /\ IF chip \in {"OK", "LOST"} /\ Settings!Reg(Settings!Comp) # Settings!NoAddress
           THEN memory' = [memory EXCEPT ![Settings!Reg(Settings!Comp)] = v] ELSE memory' = memory
        /\ UNCHANGED <<fw, dsp_cache, chip, foreign>>
    BY DEF Settings!StoreComp
  <1>w. wanted'[Settings!Comp] = v /\ \A b \in Cached : wanted'[b] = wanted[b]
    BY <1>a, <1>s, <1>t
  <1>1. SettingsCache'
    BY <1>s, <1>w DEF SettingsCache, CacheOwn
  <1>2. ASSUME chip' = "OK", fw' # "CAL", ~foreign', NEW b \in Cached \cup {Settings!Comp},
               Address[fw][b] # Settings!NoAddress
        PROVE  memory'[Address[fw][b]] = wanted'[b]
    <2>1. b \in Settings!Attributes /\ Address[fw][b] \in Addresses
      BY <1>2, <1>a, <1>t, AddressTyped
    <2>2. CASE b = Settings!Comp
      BY <2>1, <2>2, <1>2, <1>s, <1>w, <1>t DEF Settings!Reg
    <2>3. CASE b # Settings!Comp
      <3>1. memory[Address[fw][b]] = wanted[b] /\ Address[fw][b] # Settings!Reg(Settings!Comp)
        BY <2>1, <2>3, <1>2, <1>s, <1>a, <1>t, AddressApart DEF SettingsForce, Settings!Reg
      <3> QED BY <2>1, <2>3, <3>1, <1>2, <1>w, <1>s, <1>t
    <2> QED BY <2>2, <2>3
  <1> QED BY <1>1, <1>2, <1>s DEF SettingsForce

(* cs40l2x_reset_recovery: of cached attributes those that were changed are replayed, and the
   others are as they are loaded; and compensation, which is not cached, is applied. *)
LEMMA SettingsRecovered ==
    ASSUME SettingsStates, SettingsTables, SettingsOnce, SettingsCache,
           chip = "LOST", fw # "CAL", ~foreign, dsp_cache' = dsp_cache,
           NEW a \in Cached \cup {Settings!Comp}, Address[fw][a] # Settings!NoAddress
    PROVE  Settings!Replayed(Settings!Loaded(fw))[Address[fw][a]] = wanted[a]
  <1>t. /\ fw \in Settings!Firmwares /\ comp_enable \in Values /\ dsp_cache \in Seq(Addresses \X Values)
    BY DEF SettingsStates, SettingsTables
  <1>a. Settings!Comp \in Settings!Attributes /\ Cached \subseteq Settings!Attributes /\ Settings!Comp \notin Cached
    BY SettingsConstants DEF Settings!Attributes
  <1> DEFINE r == Address[fw][a]
  <1>r. a \in Settings!Attributes /\ r \in Addresses
    BY <1>a, <1>t, AddressTyped
  <1>o. CacheOwn /\ wanted[Settings!Comp] = comp_enable
    BY DEF SettingsCache
  <1>b. ASSUME NEW i \in 1..Len(dsp_cache), dsp_cache[i][1] = r
        PROVE  a \in Cached /\ dsp_cache[i][2] = wanted[a]
    <2>1. PICK b \in Cached : dsp_cache[i] = <<Address[fw][b], wanted[b]>>
      BY <1>o DEF CacheOwn
    <2>2. Address[fw][b] = Address[fw][a]
      BY <1>b, <2>1
    <2>3. a = b
      BY <2>2, <1>a, <1>r, <1>t, AddressApart
    <2> QED BY <2>1, <2>3
  <1>m. Settings!Replayed(Settings!Loaded(fw))[r] = Settings!WrittenOut(dsp_cache, r, Settings!Loaded(fw)[r])
    BY <1>r DEF Settings!Replayed
  <1>1. CASE \E i \in 1..Len(dsp_cache) : dsp_cache[i][1] = r
    <2>1. PICK i \in 1..Len(dsp_cache) : dsp_cache[i][1] = r
      BY <1>1
    <2>2. Settings!WrittenOut(dsp_cache, r, Settings!Loaded(fw)[r]) = dsp_cache[i][2]
      <3>1. \A j \in 1..Len(dsp_cache) : dsp_cache[j][1] = r => j = i
        BY <2>1 DEF SettingsOnce
      <3>2. Len(dsp_cache) \in Nat
        BY <1>t
      <3> HIDE DEF r
      <3> QED BY <2>1, <3>1, <3>2, WrittenOnce
    <2> QED BY <2>1, <2>2, <1>b, <1>m
  <1>2. CASE ~\E i \in 1..Len(dsp_cache) : dsp_cache[i][1] = r
    <2>1. Settings!WrittenOut(dsp_cache, r, Settings!Loaded(fw)[r]) = Settings!Loaded(fw)[r]
      BY <1>2, WrittenNever
    <2>2. CASE a = Settings!Comp
      BY <2>1, <2>2, <1>m, <1>o, <1>t, LoadedTyped
    <2>3. CASE a # Settings!Comp
      <3>1. wanted[a] = FreshValue
        BY <2>3, <1>2, <1>o DEF CacheOwn
      <3>2. r # Address[fw][Settings!Comp]
        BY <2>3, <1>a, <1>r, <1>t, AddressApart
      <3> QED BY <2>1, <3>1, <3>2, <1>m, <1>r, <1>t, LoadedTyped
    <2> QED BY <2>2, <2>3
  <1> QED BY <1>1, <1>2

LEMMA SettingsKeepsStep ==
    ASSUME SettingsStates, SettingsStates', SettingsTables, SettingsOnce, SettingsCache,
           SettingsForce, [Settings!Next]_settings_vars
    PROVE  SettingsCache' /\ SettingsForce'
  <1>1. ASSUME NEW a \in Cached \cup Uncached, NEW v \in Values, Settings!Store(a, v)
        PROVE  SettingsCache' /\ SettingsForce'
    BY <1>1, SettingsStoreKeeps
  <1>2. ASSUME NEW v \in Values, Settings!StoreComp(v)
        PROVE  SettingsCache' /\ SettingsForce'
    BY <1>2, SettingsCompKeeps
  <1>u. ASSUME UNCHANGED <<fw, dsp_cache, comp_enable, chip, memory, wanted, foreign>>
        PROVE  SettingsCache' /\ SettingsForce'
    BY <1>u DEF SettingsCache, CacheOwn, SettingsForce
  <1>3. ASSUME NEW v \in Values, Settings!StoreVolume(v) \/ Settings!StoreIpk(v)
        PROVE  SettingsCache' /\ SettingsForce'
    BY <1>3, <1>u DEF Settings!StoreVolume, Settings!StoreIpk, Settings!device
  <1>4. ASSUME NEW id, NEW kept, Settings!Swap(id, kept)
        PROVE  SettingsCache' /\ SettingsForce'
    <2>1. CASE foreign'
      <3>1. wanted'[Settings!Comp] = comp_enable'
        <4>1. wanted' = [Settings!Unset EXCEPT ![Settings!Comp] = comp_enable] /\ comp_enable' = comp_enable
          BY <1>4 DEF Settings!Swap
        <4> QED BY <4>1, BlankTyped DEF Settings!Attributes
      <3> QED BY <2>1, <3>1 DEF SettingsCache, SettingsForce
    <2>2. CASE ~foreign'
      <3>1. /\ dsp_cache' = <<>> /\ wanted' = [Settings!Unset EXCEPT ![Settings!Comp] = comp_enable]
            /\ comp_enable' = comp_enable /\ memory' = Settings!Loaded(fw')
        BY <1>4, <2>2 DEF Settings!Swap
      <3> QED BY <3>1, LoadedOwn
    <2> QED BY <2>1, <2>2
  <1>5. ASSUME NEW id, Settings!SwapFails(id)
        PROVE  SettingsCache' /\ SettingsForce'
    BY <1>5 DEF Settings!SwapFails, Settings!wants, SettingsCache, SettingsForce
  <1>6. ASSUME NEW id \in Remaps, Settings!FwSwapStore(id)
        PROVE  SettingsCache' /\ SettingsForce'
    BY <1>6, <1>4, <1>5 DEF Settings!FwSwapStore
  <1>7. CASE Settings!StoreIndex
    BY <1>7, <1>4, <1>5 DEF Settings!StoreIndex
  <1>8. CASE Settings!HwReset
    <2>1. CASE chip' = "RESET" /\ UNCHANGED <<Settings!driver, Settings!wants>>
      BY <2>1 DEF Settings!driver, Settings!wants, SettingsCache, SettingsForce
    <2>2. CASE Settings!Boot(<<>>) /\ memory' = Settings!Loaded(fw) /\ wanted' = [Settings!Unset EXCEPT ![Settings!Comp] = comp_enable]
      <3>1. dsp_cache' = <<>> /\ comp_enable' = comp_enable /\ fw' = fw
        BY <2>2 DEF Settings!Boot, Settings!SwapCache
      <3> QED BY <2>2, <3>1, LoadedOwn
    <2> QED BY <1>8, <2>1, <2>2, <1>5 DEF Settings!HwReset
  <1>9. CASE Settings!Recover
    <2>1. CASE Settings!Boot(dsp_cache) /\ memory' = Settings!Replayed(Settings!Loaded(fw)) /\ UNCHANGED Settings!wants
      <3>1. /\ UNCHANGED <<fw, comp_enable, wanted, foreign>> /\ chip = "LOST" /\ chip' = "OK"
            /\ fw # "CAL" => dsp_cache' = dsp_cache
        BY <1>9, <2>1 DEF Settings!Recover, Settings!Boot, Settings!SwapCache, Settings!wants
      <3>2. SettingsCache'
        BY <3>1 DEF SettingsCache, CacheOwn
      <3>3. SettingsForce'
        BY <2>1, <3>1, SettingsRecovered DEF SettingsForce
      <3> QED BY <3>2, <3>3
    <2> QED BY <1>9, <2>1, <1>5 DEF Settings!Recover
  <1>10. CASE Settings!Lose
    BY <1>10 DEF Settings!Lose, Settings!driver, Settings!wants, SettingsCache, CacheOwn,
         SettingsForce
  <1>11. CASE UNCHANGED settings_vars
    BY <1>11, <1>u DEF settings_vars
  <1> QED BY <1>1, <1>2, <1>3, <1>6, <1>7, <1>8, <1>9, <1>10, <1>11 DEF Settings!Next

LEMMA JoinedPair ==
    ASSUME NEW S, NEW x \in S, NEW y \in S
    PROVE  LET s == <<x>> \o <<y>> IN s \in Seq(S) /\ Len(s) = 2 /\ s[1] = x /\ s[2] = y
  OBVIOUS

LEMMA JoinedNone ==
    ASSUME NEW S, NEW x \in S
    PROVE  LET s == <<x>> \o <<>> IN s \in Seq(S) /\ Len(s) = 1 /\ s[1] = x
  OBVIOUS

LEMMA SettingsInit ==
    ASSUME Settings!Init
    PROVE  SettingsInv
  <1>a. Settings!Comp \in Settings!Attributes /\ \A a \in Cached : a \in Settings!Attributes
    BY DEF Settings!Attributes
  <1>1. SettingsFlags
    BY Zenon DEF Settings!Init, SettingsFlags
  <1>2. SettingsStates
    BY SettingsConstants DEF Settings!Init, SettingsStates, Settings!Firmwares
  <1>3. SettingsTables /\ SettingsOnce
    BY SettingsConstants, BlankTyped DEF Settings!Init, SettingsTables, SettingsOnce
  <1>4. SettingsWseq /\ SettingsVolume
    <2> DEFINE v == <<"VOLUME", FreshValue>>
               c == <<"CLAMP", FreshValue>>
    <2>1. v \in {"VOLUME", "CLAMP"} \X Values /\ c \in {"VOLUME", "CLAMP"} \X Values
      BY SettingsConstants
    <2>2. v[1] = "VOLUME" /\ c[1] = "CLAMP" /\ v[2] = FreshValue
      OBVIOUS
    <2>3. wseq_table = <<v>> \o (IF amp_gnd_stby THEN <<c>> ELSE <<>>)
      BY Zenon DEF Settings!Init
    <2>4. volume = FreshValue /\ wanted_volume = FreshValue
      BY DEF Settings!Init
    <2> HIDE DEF v, c
    <2>5. CASE amp_gnd_stby
      <3>1. wseq_table = <<v>> \o <<c>>
        BY <2>3, <2>5, Zenon
      <3>2. /\ wseq_table \in Seq({"VOLUME", "CLAMP"} \X Values) /\ Len(wseq_table) = 2
            /\ wseq_table[1] = v /\ wseq_table[2] = c
        BY <2>1, <3>1, JoinedPair
      <3> QED BY <2>2, <2>4, <3>2, SettingsConstants DEF SettingsWseq, SettingsVolume
    <2>6. CASE ~amp_gnd_stby
      <3>1. wseq_table = <<v>> \o <<>>
        BY <2>3, <2>6, Zenon
      <3>2. /\ wseq_table \in Seq({"VOLUME", "CLAMP"} \X Values) /\ Len(wseq_table) = 1
            /\ wseq_table[1] = v
        BY <2>1, <3>1, JoinedNone
      <3> QED BY <2>2, <2>4, <3>2, SettingsConstants DEF SettingsWseq, SettingsVolume
    <2> QED BY <2>5, <2>6
  <1>5. SettingsCache /\ SettingsForce
    <2>1. \A a \in Cached \cup {Settings!Comp} : wanted[a] = FreshValue
      BY <1>a, BlankTyped DEF Settings!Init
    <2>2. CacheOwn
      BY <2>1 DEF Settings!Init, CacheOwn
    <2>3. fw \in Settings!Firmwares
      BY DEF Settings!Init, Settings!Firmwares
    <2>4. SettingsForce
      BY <2>1, <2>3, <1>a, AddressTyped, BlankTyped DEF Settings!Init, SettingsForce
    <2> QED BY <2>1, <2>2, <2>4 DEF Settings!Init, SettingsCache
  <1> QED BY <1>1, <1>2, <1>3, <1>4, <1>5 DEF SettingsInv

LEMMA SettingsStep ==
    ASSUME SettingsInv, [Settings!Next]_settings_vars
    PROVE  SettingsInv'
  <1>1. SettingsFlags' /\ SettingsStates'
    BY SettingsFlagsStep, SettingsStatesStep, Zenon DEF SettingsInv
  <1>2. SettingsTables' /\ SettingsOnce' /\ SettingsWseq' /\ SettingsVolume'
    BY SettingsTablesStep, SettingsWseqStep, Zenon DEF SettingsInv
  <1>3. SettingsCache' /\ SettingsForce'
    BY <1>1, SettingsKeepsStep, Zenon DEF SettingsInv
  <1> QED BY <1>1, <1>2, <1>3, Zenon DEF SettingsInv

LEMMA SettingsSafe ==
    ASSUME SettingsInv
    PROVE  Settings!TypeOK /\ Settings!Restored
  <1>1. Settings!TypeOK
    BY DEF SettingsInv, SettingsFlags, SettingsStates, SettingsTables, SettingsWseq,
         Settings!TypeOK
  <1>2. Settings!Restored
    BY DEF SettingsInv, SettingsVolume, SettingsForce, Settings!Restored, Settings!Reg
  <1> QED BY <1>1, <1>2

--------------------------------------------------------------------------------
(* The driver *)

HapticsInv ==
    /\ part \in Parts
    /\ VibeTyped /\ VibeQueue /\ Vibe!FreeWhilePlaying /\ VibeWake /\ VibeKept /\ VibeDriven
    /\ QueueInv
    /\ SettingsInv

LEMMA HapticsStart ==
    ASSUME Init
    PROVE  HapticsInv
  <1>1. part \in Parts /\ Vibe!Init /\ Queue!Init /\ Settings!Init
    BY Zenon DEF Init
  <1>2. VibeTyped /\ VibeQueue /\ Vibe!FreeWhilePlaying /\ VibeWake /\ VibeKept /\ VibeDriven
    BY <1>1, VibeTypedInit, VibeFreeInit, VibeWakeInit, VibeKeptInit, VibeDrivenInit, Zenon
  <1>3. QueueInv /\ SettingsInv
    BY <1>1, QueueInit, SettingsInit, Zenon
  <1> QED BY <1>1, <1>2, <1>3, Zenon DEF HapticsInv

LEMMA HapticsGoOn ==
    ASSUME [Next]_vars
    PROVE  /\ part' = part
           /\ [Vibe!Next]_vibe_vars /\ [Queue!Next]_queue_vars /\ [Settings!Next]_settings_vars
  <1>1. CASE part = "vibe" /\ Vibe!Next /\ Others("vibe")
    <2>1. part' = part /\ UNCHANGED queue_vars /\ UNCHANGED settings_vars
      BY <1>1 DEF Others
    <2> QED BY <1>1, <2>1, Zenon
  <1>2. CASE part = "queue" /\ Queue!Next /\ Others("queue")
    <2>1. part' = part /\ UNCHANGED vibe_vars /\ UNCHANGED settings_vars
      BY <1>2 DEF Others
    <2> QED BY <1>2, <2>1, Zenon
  <1>3. CASE part = "settings" /\ Settings!Next /\ Others("settings")
    <2>1. part' = part /\ UNCHANGED vibe_vars /\ UNCHANGED queue_vars
      BY <1>3 DEF Others
    <2> QED BY <1>3, <2>1, Zenon
  <1>4. CASE UNCHANGED vars
    BY <1>4, Zenon DEF vars
  <1> QED BY <1>1, <1>2, <1>3, <1>4, Zenon DEF Next

LEMMA HapticsKeep ==
    ASSUME HapticsInv, [Next]_vars
    PROVE  HapticsInv' /\ (WakeStep \/ UNCHANGED vibe_vars)
  <1>1. part' \in Parts
    BY HapticsGoOn, Zenon DEF HapticsInv
  <1>2. VibeTyped' /\ VibeQueue'
    BY HapticsGoOn, VibeTypedStep, VibeQueueStep, Zenon DEF HapticsInv
  <1>3. Vibe!TypeOK /\ Vibe!TypeOK'
    BY <1>2, VibeTypedSafe, PTL DEF HapticsInv
  <1>4. Vibe!FreeWhilePlaying' /\ VibeWake' /\ VibeKept' /\ VibeDriven'
        /\ (WakeStep \/ UNCHANGED vibe_vars)
    BY <1>3, HapticsGoOn, VibeFreeStep, VibeWakeStep, VibeKeptStep, VibeDrivenStep, Zenon
       DEF HapticsInv
  <1>5. QueueInv' /\ SettingsInv'
    BY HapticsGoOn, QueueStep, SettingsStep, Zenon DEF HapticsInv
  <1> QED BY <1>1, <1>2, <1>4, <1>5, Zenon DEF HapticsInv

LEMMA HapticsAlways == Spec => []HapticsInv
  <1>1. Init => HapticsInv
    BY HapticsStart
  <1>2. HapticsInv /\ [Next]_vars => HapticsInv'
    BY HapticsKeep
  <1> QED BY <1>1, <1>2, PTL DEF Spec

(* The state of the driver's playback, of its queue and of its settings keeps its types on every
   board, for any string, any number of sections and repetitions, and any values; no work is
   queued twice. *)
THEOREM TypeCorrect == Spec => []TypeOK
  <1>1. HapticsInv => TypeOK
    BY VibeTypedSafe, QueueSafe, SettingsSafe, Zenon DEF HapticsInv, TypeOK
  <1> QED BY <1>1, HapticsAlways, PTL

(* cs40l2x.c, workers and interrupt thread: on every board, however ends, starts, stops and
   recoveries interleave, the amplifier is not clamped while the DSP plays what the driver has it
   play. *)
THEOREM FreeKept == Spec => []FreeWhilePlaying
  <1>1. HapticsInv => FreeWhilePlaying
    BY Zenon DEF HapticsInv, FreeWhilePlaying
  <1> QED BY <1>1, HapticsAlways, PTL

(* cs40l2x.c, cs40l2x_vibe_start_worker to the interrupt thread: what queues and measurements
   change of the gains is put back; cs40l2x_firmware_swap, cs40l2x_hw_reset and the recovery:
   settings that are cached, or in the write sequence, are in force again after them. For any
   attributes, addresses, values, and sizes of the two. *)
THEOREM SettingsHeld == Spec => []SettingsKept
  <1>1. HapticsInv => SettingsKept
    BY VibeKeptSafe, SettingsSafe, Zenon DEF HapticsInv, SettingsKept
  <1> QED BY <1>1, HapticsAlways, PTL

(* cs40l2x.c, cs40l2x_vibe_state_set: without streams and failures every step moves the suspend
   blocker by as much as vibe_state, except the stop of a queue that could not be launched. *)
THEOREM WakeKept == Spec => WakeFollowsState
  <1>1. HapticsInv /\ [Next]_vars =>
          \/ {"a2h", "faults"} \cap setup # {} \/ Vibe!Orphaned
          \/ wakes' - wakes = Vibe!Blockers(vibe_state') - Vibe!Blockers(vibe_state)
          \/ UNCHANGED Vibe!vars
    <2>1. UNCHANGED vibe_vars => UNCHANGED Vibe!vars
      BY DEF vibe_vars, Vibe!vars, Vibe!vibe, Vibe!index, Vibe!scales, Vibe!measure, Vibe!dsp,
         Vibe!timers
    <2> QED BY <2>1, HapticsKeep, Zenon DEF WakeStep
  <1> QED BY <1>1, HapticsAlways, PTL DEF Spec, WakeFollowsState, Vibe!WakeFollowsState

(* cs40l2x.c, cs40l2x_vibe_pbq_worker and its timer: a queue that is not at its end has
   something to take it on, through starts, stops, ends, swaps and resets. *)
THEOREM QueueGoesOn == Spec => []Vibe!QueueDriven
  <1>1. HapticsInv => Vibe!QueueDriven
    BY VibeDrivenSafe, Zenon DEF HapticsInv
  <1> QED BY <1>1, HapticsAlways, PTL
================================================================================
