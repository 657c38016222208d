------------------------ MODULE Cs40l26Playback_proofs ------------------------
(***************************************************************************)
(* Proofs about Cs40l26Playback: its types, and, for firmware that reports *)
(* every effect, the exactness of the driver's count of playing effects.   *)
(***************************************************************************)
EXTENDS Cs40l26Playback, TLAPS

USE PlaybackAssumption

(* The messages of r alternate from a count of n on. *)
Alternates(n, r) ==
    \A k \in 1 .. Len(r) : IsTrigger(r[k]) <=> (n + k) % 2 = 1

(* The count and the unread messages agree with the DSP. *)
Exact ==
    /\ effects_in_flight \in {0, 1}
    /\ Alternates(effects_in_flight, ring)
    /\ playing # Silence <=> (effects_in_flight + Len(ring)) % 2 = 1

LEMMA Parity == \A n \in Nat : (n % 2 = 1 <=> (n + 1) % 2 = 0) /\ n % 2 \in {0, 1}
  OBVIOUS

(* One more message of the right kind keeps the messages alternating. *)
LEMMA AlternatesAppend ==
    ASSUME NEW n \in {0, 1}, NEW r \in Seq(Messages), NEW m \in Messages,
           Alternates(n, r),
           IsTrigger(m) <=> (n + Len(r) + 1) % 2 = 1
    PROVE  /\ r \o <<m>> \in Seq(Messages)
           /\ Len(r \o <<m>>) = Len(r) + 1
           /\ Alternates(n, r \o <<m>>)
  <1> DEFINE s == r \o <<m>>
  <1>1. s \in Seq(Messages) /\ Len(s) = Len(r) + 1
    OBVIOUS
  <1>2. ASSUME NEW k \in 1 .. Len(s)
        PROVE  IsTrigger(s[k]) <=> (n + k) % 2 = 1
    <2>1. CASE k \in 1 .. Len(r)
      <3>1. s[k] = r[k]
        BY <2>1
      <3> QED BY <2>1, <3>1 DEF Alternates
    <2>2. CASE k = Len(r) + 1
      <3>1. s[k] = m
        BY <2>2
      <3>2. n + k = n + Len(r) + 1
        BY <2>2
      <3> QED BY <3>1, <3>2
    <2> QED BY <1>1, <1>2, <2>1, <2>2
  <1> QED BY <1>1, <1>2 DEF Alternates

(* Reading the first message moves the count to the other parity. *)
LEMMA AlternatesTail ==
    ASSUME NEW n \in {0, 1}, NEW r \in Seq(Messages), r # <<>>, Alternates(n, r)
    PROVE  /\ IsTrigger(Head(r)) <=> n = 0
           /\ Tail(r) \in Seq(Messages) /\ Len(Tail(r)) = Len(r) - 1
           /\ Alternates(1 - n, Tail(r))
  <1>1. Len(r) \in Nat \ {0} /\ Head(r) = r[1]
    OBVIOUS
  <1>2. IsTrigger(Head(r)) <=> (n + 1) % 2 = 1
    BY <1>1 DEF Alternates
  <1>3. Tail(r) \in Seq(Messages) /\ Len(Tail(r)) = Len(r) - 1
    BY <1>1
  <1>4. ASSUME NEW k \in 1 .. Len(Tail(r))
        PROVE  IsTrigger(Tail(r)[k]) <=> (1 - n + k) % 2 = 1
    <2>1. Tail(r)[k] = r[k + 1] /\ k + 1 \in 1 .. Len(r)
      BY <1>1, <1>3, <1>4
    <2>2. IsTrigger(r[k + 1]) <=> (n + (k + 1)) % 2 = 1
      BY <2>1 DEF Alternates
    <2>3. (n + (k + 1)) % 2 = (1 - n + k) % 2
      BY <1>3, <1>4
    <2> QED BY <2>1, <2>2, <2>3
  <1> QED BY <1>2, <1>3, <1>4 DEF Alternates

--------------------------------------------------------------------------------
(* What the DSP does to the ring. *)

LEMMA CompletedType ==
    ASSUME playing \in [effect : Effects, by : {"mbox", "gpio"}] \cup {Silence}
    PROVE  \/ playing = Silence /\ Completed = <<>>
           \/ /\ playing # Silence
              /\ \E m \in Messages : ~IsTrigger(m) /\ Completed = <<m>>
  BY DEF Silence, Completed, CompleteOf, Messages, IsTrigger

LEMMA DspPlayType ==
    ASSUME TypeOK, NEW e \in Effects, NEW by \in {"mbox", "gpio"}, DspPlay(e, by)
    PROVE  ring' \in Seq(Messages) /\ stopping' \in BOOLEAN
           /\ playing' \in [effect : Effects, by : {"mbox", "gpio"}] /\ playing' # Silence
  <1>1. Completed \in Seq(Messages) /\ Triggered(by) \in Seq(Messages)
    <2>1. Completed \in Seq(Messages)
      <3>1. <<>> \in Seq(Messages) /\ \A m \in Messages : <<m>> \in Seq(Messages)
        OBVIOUS
      <3>2. Completed = <<>> \/ \E m \in Messages : Completed = <<m>>
        BY CompletedType DEF TypeOK
      <3> QED BY <3>1, <3>2
    <2>2. Triggered(by) \in Seq(Messages)
      <3>1. TriggerOf[by] \in Messages
        BY DEF TriggerOf, Messages
      <3>2. <<TriggerOf[by]>> \in Seq(Messages)
        BY <3>1
      <3> QED BY <3>2 DEF Triggered
    <2> QED BY <2>1, <2>2
  <1>2. playing' \in [effect : Effects, by : {"mbox", "gpio"}] /\ playing' # Silence
    BY DEF DspPlay, Silence
  <1>3. ring \o Completed \o Triggered(by) \in Seq(Messages)
    BY <1>1 DEF TypeOK
  <1> QED BY <1>2, <1>3 DEF DspPlay

(* A new effect posts the completion of the old one and its own trigger. *)
LEMMA DspPlayCounted ==
    ASSUME vibe_state_reporting, TypeOK, Exact, NEW e \in Effects, NEW by \in {"mbox", "gpio"},
           DspPlay(e, by), effects_in_flight' = effects_in_flight
    PROVE  Exact'
  <1> DEFINE n == effects_in_flight
  <1>1. n \in {0, 1} /\ Alternates(n, ring) /\ ring \in Seq(Messages)
    BY DEF Exact, Alternates, TypeOK
  <1>2. PICK t \in Messages : IsTrigger(t) /\ Triggered(by) = <<t>>
    BY DEF Triggered, TriggerOf, Messages, IsTrigger
  <1>3. playing' # Silence
    BY DspPlayType
  <1>4. CASE playing = Silence
    <2>1. ring' = ring \o <<t>>
      BY <1>1, <1>2, <1>4, CompletedType DEF DspPlay, TypeOK
    <2>2. (n + Len(ring)) % 2 = 0 /\ (n + Len(ring) + 1) % 2 = 1
      BY <1>1, <1>4, Parity DEF Exact
    <2>3. Alternates(n, ring') /\ Len(ring') = Len(ring) + 1
      BY <1>1, <1>2, <2>1, <2>2, AlternatesAppend
    <2> QED BY <1>1, <1>3, <2>2, <2>3 DEF Exact, Alternates
  <1>5. CASE playing # Silence
    <2>1. PICK c \in Messages : ~IsTrigger(c) /\ Completed = <<c>>
      BY <1>5, CompletedType DEF TypeOK
    <2> DEFINE r == ring \o <<c>>
    <2>2. ring' = r \o <<t>>
      BY <1>1, <1>2, <2>1 DEF DspPlay
    <2>3. (n + Len(ring)) % 2 = 1 /\ (n + Len(ring) + 1) % 2 = 0
      BY <1>1, <1>5, Parity DEF Exact
    <2>4. r \in Seq(Messages) /\ Alternates(n, r) /\ Len(r) = Len(ring) + 1
      BY <1>1, <2>1, <2>3, AlternatesAppend
    <2>5. (n + Len(r) + 1) % 2 = 1
      BY <1>1, <2>3, <2>4
    <2>6. Alternates(n, ring') /\ Len(ring') = Len(r) + 1
      <3> HIDE DEF r
      <3> QED BY <1>1, <1>2, <2>2, <2>4, <2>5, AlternatesAppend
    <2> QED BY <1>1, <1>3, <2>4, <2>5, <2>6 DEF Exact, Alternates
  <1> QED BY <1>4, <1>5

LEMMA DspCompleteCounted ==
    ASSUME TypeOK, Exact, DspComplete
    PROVE  Exact'
  <1> DEFINE n == effects_in_flight
  <1>1. n \in {0, 1} /\ Alternates(n, ring) /\ ring \in Seq(Messages) /\ n' = n
    BY DEF Exact, Alternates, TypeOK, DspComplete, driver
  <1>2. PICK c \in Messages : ~IsTrigger(c) /\ ring' = ring \o <<c>>
    BY CompletedType DEF DspComplete, TypeOK
  <1>3. (n + Len(ring)) % 2 = 1 /\ (n + Len(ring) + 1) % 2 = 0
    BY <1>1, Parity DEF Exact, DspComplete
  <1>4. Alternates(n, ring') /\ Len(ring') = Len(ring) + 1
    <2>1. IsTrigger(c) <=> (n + Len(ring) + 1) % 2 = 1
      BY <1>2, <1>3
    <2> HIDE DEF n
    <2> QED BY <1>1, <1>2, <2>1, AlternatesAppend
  <1> QED BY <1>1, <1>3, <1>4 DEF Exact, Alternates, DspComplete

(* Reading a message moves the count exactly as the message says, and a
   trigger is never read while an effect is counted. *)
LEMMA HandleCounted ==
    ASSUME TypeOK, Exact, HandleMessage
    PROVE  Exact' /\ (reset_event' = reset_event)
  <1> DEFINE n == effects_in_flight
  <1>1. /\ n \in {0, 1} /\ Alternates(n, ring) /\ ring \in Seq(Messages)
        /\ ring # <<>> /\ ring' = Tail(ring) /\ playing' = playing
    BY DEF Exact, Alternates, TypeOK, HandleMessage, HandleTrigger, HandleComplete, Read
  <1>2. IsTrigger(Head(ring)) <=> n = 0
    BY <1>1, AlternatesTail
  <1>3. n' = 1 - n /\ (reset_event' = reset_event)
    <2>1. CASE HandleTrigger
      <3>1. n = 0
        BY <1>2, <2>1 DEF HandleTrigger, Read, IsTrigger
      <3> QED BY <2>1, <3>1 DEF HandleTrigger, Playback, TypeOK
    <2>2. CASE HandleComplete
      <3>1. n = 1
        BY <1>1, <1>2, <2>2 DEF HandleComplete, Read, IsTrigger
      <3> QED BY <2>2, <3>1 DEF HandleComplete, Complete
    <2> QED BY <2>1, <2>2 DEF HandleMessage
  <1>4. Alternates(1 - n, ring') /\ Len(ring') = Len(ring) - 1 /\ Len(ring) \in Nat
    BY <1>1, AlternatesTail
  <1>5. (n + Len(ring)) % 2 = (1 - n + (Len(ring) - 1)) % 2
    BY <1>1, <1>4
  <1> QED BY <1>1, <1>3, <1>4, <1>5 DEF Exact, Alternates

--------------------------------------------------------------------------------

LEMMA QueueType ==
    ASSUME wq \in Seq(Works), NEW w \in Works, QueueWork(w)
    PROVE  wq' \in Seq(Works)
  BY DEF QueueWork

LEMMA TypeStep ==
    ASSUME TypeOK, [Next]_vars
    PROVE  TypeOK'
  <1> USE DEF driver, dsp, setup
  <1>1. ASSUME NEW e \in Effects, NEW start \in BOOLEAN, PlaybackEffect(e, start)
        PROVE  /\ wq' \in Seq(Works) /\ trigger_effect' \in Effects
    BY <1>1, QueueType DEF PlaybackEffect, TypeOK, Works
  <1>2. ASSUME NEW e \in Effects, Upload(e)
        PROVE  TypeOK'
    BY <1>2 DEF Upload, TypeOK
  <1>3. ASSUME NEW e \in Effects, UserErase(e)
        PROVE  TypeOK'
    BY <1>1, <1>3, ZenonT(60) DEF UserErase, PlaybackEffect, TypeOK
  <1>4. ASSUME NEW e \in Effects, NEW start \in BOOLEAN, UserPlayback(e, start)
        PROVE  TypeOK'
    BY <1>1, <1>4 DEF UserPlayback, PlaybackEffect, TypeOK
  <1>5. CASE EraseEffect
    BY <1>5, QueueType DEF EraseEffect, TypeOK, Works
  <1>6. CASE EraseReturns
    BY <1>6 DEF EraseReturns, TypeOK
  <1>7. CASE VibeStart
    <2>1. wq' \in Seq(Works)
      BY <1>7 DEF VibeStart, Take, TypeOK
    <2>2. CASE trigger_effect \in loaded
      <3>1. /\ ring' \in Seq(Messages) /\ stopping' \in BOOLEAN
            /\ playing' \in [effect : Effects, by : {"mbox", "gpio"}]
        BY <1>7, <2>2, DspPlayType DEF VibeStart, TypeOK
      <3>2. /\ effects_in_flight' \in Nat /\ vibe_state' \in {"STOPPED", "HAPTIC"}
            /\ reset_event' \in BOOLEAN
        <4>1. CASE vibe_state_reporting
          BY <1>7, <2>2, <4>1 DEF VibeStart, TypeOK
        <4>2. CASE ~vibe_state_reporting
          BY <1>7, <2>2, <4>2 DEF VibeStart, TypeOK, Playback, VibeState
        <4> QED BY <4>1, <4>2
      <3> QED BY <1>7, <2>1, <2>2, <3>1, <3>2 DEF VibeStart, TypeOK
    <2>3. CASE trigger_effect \notin loaded
      BY <1>7, <2>1, <2>3 DEF VibeStart, TypeOK
    <2> QED BY <2>2, <2>3
  <1>8. CASE VibeStop
    <2>1. wq' \in Seq(Works)
      BY <1>8 DEF VibeStop, Take, TypeOK
    <2>2. worker' \in {"idle", "stop_delay", "erase_wait"} /\ stopping' \in BOOLEAN
      BY <1>8 DEF VibeStop, DspStop, TypeOK
    <2>3. UNCHANGED <<setup, driver, owned, erasing, irq, ring, playing>>
      BY <1>8 DEF VibeStop, DspStop
    <2> QED BY <2>1, <2>2, <2>3 DEF TypeOK
  <1>9. CASE VibeStopDelayed
    BY <1>9 DEF VibeStopDelayed, DspStop, TypeOK
  <1>10. CASE EraseNow
    <2>1. wq' \in Seq(Works)
      BY <1>10 DEF EraseNow, Take, TypeOK
    <2> QED BY <1>10, <2>1, ZenonT(60) DEF EraseNow, ListDel, EraseDone, TypeOK
  <1>11. CASE EraseWaitStarts
    <2>1. wq' \in Seq(Works)
      BY <1>11 DEF EraseWaitStarts, Take, TypeOK
    <2> QED BY <1>11, <2>1 DEF EraseWaitStarts, TypeOK
  <1>12. CASE EraseWaitEnds
    BY <1>12 DEF EraseWaitEnds, ListDel, EraseDone, TypeOK
  <1>13. CASE EraseTimesOut
    BY <1>13 DEF EraseTimesOut, EraseDone, TypeOK
  <1>14. CASE IrqStart \/ IrqEnd
    BY <1>14 DEF IrqStart, IrqEnd, TypeOK
  <1>15. CASE HandleMessage
    <2>1. ring' \in Seq(Messages)
      <3>1. ring # <<>> /\ ring' = Tail(ring)
        BY <1>15 DEF HandleMessage, HandleTrigger, HandleComplete, Read
      <3> QED BY <3>1 DEF TypeOK
    <2>2. /\ effects_in_flight' \in Nat /\ vibe_state' \in {"STOPPED", "HAPTIC"}
          /\ reset_event' \in BOOLEAN /\ erase_cont' \in BOOLEAN
      <3>1. CASE HandleTrigger
        BY <3>1 DEF HandleTrigger, Playback, VibeState, TypeOK
      <3>2. CASE HandleComplete
        <4>1. erase_cont' \in BOOLEAN
          BY <3>2 DEF HandleComplete, TypeOK
        <4>2. effects_in_flight' \in Nat /\ vibe_state' \in {"STOPPED", "HAPTIC"}
          BY <3>2 DEF HandleComplete, Complete, VibeState, TypeOK
        <4>3. reset_event' \in BOOLEAN
          BY <3>2 DEF HandleComplete, Complete, TypeOK
        <4> QED BY <4>1, <4>2, <4>3
      <3> QED BY <1>15, <3>1, <3>2 DEF HandleMessage
    <2> QED BY <1>15, <2>1, <2>2 DEF HandleMessage, TypeOK
  <1>16. CASE DspComplete
    <2>1. ring' \in Seq(Messages)
      BY <1>16, CompletedType DEF DspComplete, TypeOK
    <2>2. /\ playing' \in [effect : Effects, by : {"mbox", "gpio"}] \cup {Silence}
          /\ stopping' \in BOOLEAN
      BY <1>16 DEF DspComplete
    <2>3. UNCHANGED <<setup, driver, owned, erasing, wq, worker, irq>>
      BY <1>16 DEF DspComplete
    <2>4. erasing' = erasing /\ wq' = wq
      BY <2>3
    <2> QED BY <2>1, <2>2, <2>3, <2>4 DEF TypeOK
  <1>17. ASSUME NEW e \in Effects, GpiEdge(e)
        PROVE  TypeOK'
    <2>1. /\ ring' \in Seq(Messages) /\ stopping' \in BOOLEAN
          /\ playing' \in [effect : Effects, by : {"mbox", "gpio"}]
      BY <1>17, DspPlayType DEF GpiEdge
    <2> QED BY <1>17, <2>1 DEF GpiEdge, TypeOK
  <1>18. CASE UNCHANGED vars
    BY <1>18 DEF vars, TypeOK
  <1> QED
    BY <1>2, <1>3, <1>4, <1>5, <1>6, <1>7, <1>8, <1>9, <1>10, <1>11, <1>12, <1>13,
       <1>14, <1>15, <1>16, <1>17, <1>18 DEF Next, User, Worker, Irq

(* The state keeps its types, however many effects and messages there are. *)
THEOREM TypeCorrect == Spec => []TypeOK
  <1>1. Init => TypeOK
    <2> SUFFICES ASSUME Init PROVE TypeOK
      OBVIOUS
    <2>1. wq \in Seq(Works) /\ ring \in Seq(Messages)
      BY DEF Init
    <2>2. erasing \in [effect : Effects \cup {NoEffect},
                       at : {"none", "asked", "queued", "erased", "failed"}]
      BY DEF Init
    <2> QED BY <2>1, <2>2 DEF Init, TypeOK
  <1>2. TypeOK /\ [Next]_vars => TypeOK'
    BY TypeStep
  <1> QED BY <1>1, <1>2, PTL DEF Spec

(* No step changes the firmware, the pads or the user. *)
LEMMA SetupFixed ==
    ASSUME [Next]_vars
    PROVE  vibe_state_reporting' = vibe_state_reporting
  BY DEF Next, User, Upload, UserErase, UserPlayback, PlaybackEffect, EraseEffect,
         EraseReturns, Worker, VibeStart, VibeStop, VibeStopDelayed, EraseNow,
         EraseWaitStarts, EraseWaitEnds, EraseTimesOut, Irq, IrqStart, HandleMessage,
         IrqEnd, DspComplete, GpiEdge, setup, vars

(* With firmware that reports every effect the count of playing effects never
   drifts from the DSP, and a reset is never provoked: for every number of
   effects, with any user, pads, delays and slow effects. *)
THEOREM Counted == Spec => [](InFlightExact /\ NoFalseReset)
  <1> DEFINE Inv == vibe_state_reporting => Exact /\ ~reset_event
  <1>1. Init => Inv
    BY DEF Init, Exact, Alternates
  <1>2. TypeOK /\ Inv /\ [Next]_vars => Inv'
    <2> SUFFICES ASSUME TypeOK, vibe_state_reporting, Exact, ~reset_event, [Next]_vars
                 PROVE  Exact' /\ ~reset_event'
      BY SetupFixed
    <2>1. ASSUME UNCHANGED <<effects_in_flight, reset_event, ring, playing>>
          PROVE  Exact' /\ ~reset_event'
      BY <2>1 DEF Exact, Alternates
    <2>2. CASE VibeStart
      <3>1. CASE trigger_effect \in loaded
        <4>1. DspPlay(trigger_effect, "mbox") /\ trigger_effect \in Effects
          BY <2>2, <3>1 DEF VibeStart, TypeOK
        <4>2. effects_in_flight' = effects_in_flight /\ (reset_event' = reset_event)
          BY <2>2, <3>1 DEF VibeStart
        <4> QED BY <4>1, <4>2, DspPlayCounted
      <3>2. CASE trigger_effect \notin loaded
        BY <2>1, <2>2, <3>2 DEF VibeStart, dsp
      <3> QED BY <3>1, <3>2
    <2>3. CASE HandleMessage
      BY <2>3, HandleCounted
    <2>4. CASE DspComplete
      BY <2>4, DspCompleteCounted DEF DspComplete, driver
    <2>5. ASSUME NEW e \in Effects, GpiEdge(e)
          PROVE  Exact' /\ ~reset_event'
      <3>1. DspPlay(e, "gpio")
        BY <2>5 DEF GpiEdge
      <3>2. effects_in_flight' = effects_in_flight /\ (reset_event' = reset_event)
        BY <2>5 DEF GpiEdge, driver
      <3> QED BY <3>1, <3>2, DspPlayCounted
    <2>6. CASE User \/ EraseEffect \/ EraseReturns
      BY <2>1, <2>6 DEF User, Upload, UserErase, UserPlayback, PlaybackEffect,
                        EraseEffect, EraseReturns, driver, dsp
    <2>7. CASE \/ VibeStop \/ VibeStopDelayed
               \/ EraseNow \/ EraseWaitStarts \/ EraseWaitEnds \/ EraseTimesOut
      BY <2>1, <2>7 DEF VibeStop, VibeStopDelayed, DspStop, EraseNow, EraseWaitStarts,
                        EraseWaitEnds, EraseTimesOut, driver, dsp
    <2>8. CASE IrqStart \/ IrqEnd \/ UNCHANGED vars
      BY <2>1, <2>8 DEF IrqStart, IrqEnd, vars, driver, dsp
    <2> QED BY <2>2, <2>3, <2>4, <2>5, <2>6, <2>7, <2>8 DEF Next, Worker, Irq
  <1>3. Inv => InFlightExact /\ NoFalseReset
    BY DEF Exact, Alternates, InFlightExact, NoFalseReset
  <1> QED BY <1>1, <1>2, <1>3, TypeCorrect, PTL DEF Spec

--------------------------------------------------------------------------------
(* The wake-up of an erase that waits, as long as no pad is mapped. *)

Expected == IF vibe_state_reporting THEN {"TRIGGER_CP", "COMPLETE_MBOX"} ELSE {"COMPLETE_MBOX"}

(* Only the mailbox starts effects; without reports each effect that was counted plays or
   its completion is still unread. *)
Mailbox ==
    /\ vibe_state = VibeState(effects_in_flight)
    /\ pads = {} =>
        /\ playing.by # "gpio"
        /\ ring \in Seq(Expected)
        /\ ~vibe_state_reporting =>
             effects_in_flight = Len(ring) + IF playing = Silence THEN 0 ELSE 1

LEMMA MailboxStep ==
    ASSUME TypeOK, Mailbox, [Next]_vars
    PROVE  Mailbox'
  <1> USE DEF driver, dsp, setup
  <1>1. ASSUME UNCHANGED <<vibe_state, effects_in_flight, pads, vibe_state_reporting, playing, ring>>
        PROVE  Mailbox'
    BY <1>1 DEF Mailbox, VibeState, Expected
  <1>2. CASE VibeStart
    <2>1. CASE trigger_effect \notin loaded
      BY <1>1, <1>2, <2>1 DEF VibeStart
    <2>2. CASE trigger_effect \in loaded
      <3>1. UNCHANGED <<pads, vibe_state_reporting>>
        BY <1>2 DEF VibeStart
      <3>2. vibe_state' = VibeState(effects_in_flight)'
        BY <1>2, <2>2 DEF VibeStart, Playback, Mailbox, VibeState
      <3>3. DspPlay(trigger_effect, "mbox") /\ trigger_effect \in Effects
        BY <1>2, <2>2 DEF VibeStart, TypeOK
      <3>4. playing'.by = "mbox" /\ playing' # Silence
        BY <3>3 DEF DspPlay, Silence
      <3>5. ASSUME pads = {}
            PROVE  /\ ring' \in Seq(Expected)
                   /\ ~vibe_state_reporting =>
                        Len(ring') = Len(ring) + IF playing = Silence THEN 0 ELSE 1
        <4>1. ring \in Seq(Expected) /\ playing.by # "gpio"
          BY <3>5 DEF Mailbox
        <4>2. Completed = IF playing = Silence THEN <<>> ELSE <<"COMPLETE_MBOX">>
          BY <4>1 DEF Completed, CompleteOf, TypeOK
        <4>3. Triggered("mbox") = IF vibe_state_reporting THEN <<"TRIGGER_CP">> ELSE <<>>
          BY DEF Triggered, TriggerOf
        <4>4. ring' = ring \o Completed \o Triggered("mbox")
          BY <3>3 DEF DspPlay
        <4>5. Completed \in Seq(Expected) /\ Triggered("mbox") \in Seq(Expected)
          <5>1. <<>> \in Seq(Expected) /\ \A m \in Expected : <<m>> \in Seq(Expected)
            OBVIOUS
          <5>2. "COMPLETE_MBOX" \in Expected
            BY DEF Expected
          <5>3. vibe_state_reporting => "TRIGGER_CP" \in Expected
            BY DEF Expected
          <5> QED BY <4>2, <4>3, <5>1, <5>2, <5>3
        <4>6. ring' \in Seq(Expected)
          BY <4>1, <4>4, <4>5
        <4>7. ASSUME ~vibe_state_reporting
              PROVE  Len(ring') = Len(ring) + IF playing = Silence THEN 0 ELSE 1
          <5>1. CASE playing = Silence
            BY <4>1, <4>2, <4>3, <4>4, <4>7, <5>1
          <5>2. CASE playing # Silence
            BY <4>1, <4>2, <4>3, <4>4, <4>7, <5>2
          <5> QED BY <5>1, <5>2
        <4> QED BY <4>6, <4>7
      <3>6. ~vibe_state_reporting => effects_in_flight' = effects_in_flight + 1
        BY <1>2, <2>2 DEF VibeStart, Playback
      <3>7. Expected' = Expected
        BY <3>1 DEF Expected
      <3> QED BY <3>1, <3>2, <3>4, <3>5, <3>6, <3>7 DEF Mailbox, TypeOK
    <2> QED BY <2>1, <2>2
  <1>3. CASE HandleMessage
    <2>1. ring # <<>> /\ ring' = Tail(ring) /\ UNCHANGED <<playing, pads, vibe_state_reporting>>
      BY <1>3 DEF HandleMessage, HandleTrigger, HandleComplete, Read
    <2>2. vibe_state' = VibeState(effects_in_flight)'
      BY <1>3 DEF HandleMessage, HandleTrigger, HandleComplete, Playback, Complete, VibeState
    <2>3. ASSUME pads = {}
          PROVE  /\ ring' \in Seq(Expected) /\ Len(ring') = Len(ring) - 1 /\ Len(ring) > 0
                 /\ ~vibe_state_reporting => HandleComplete
      <3>1. ring \in Seq(Expected) /\ Head(ring) \in Expected
        BY <2>1, <2>3 DEF Mailbox
      <3>2. ring' \in Seq(Expected) /\ Len(ring') = Len(ring) - 1 /\ Len(ring) > 0
        BY <2>1, <3>1
      <3>3. ~vibe_state_reporting => ~HandleTrigger
        BY <3>1 DEF HandleTrigger, Read, Expected
      <3> QED BY <1>3, <3>2, <3>3 DEF HandleMessage
    <2>4. ASSUME pads = {}, ~vibe_state_reporting
          PROVE  effects_in_flight' = effects_in_flight - 1
      BY <2>3, <2>4 DEF HandleComplete, Complete, Mailbox, TypeOK
    <2>5. Expected' = Expected
      BY <2>1 DEF Expected
    <2> QED BY <2>1, <2>2, <2>3, <2>4, <2>5 DEF Mailbox, TypeOK
  <1>4. CASE DspComplete
    <2>1. /\ UNCHANGED <<vibe_state, effects_in_flight, pads, vibe_state_reporting>>
          /\ playing # Silence /\ playing' = Silence /\ ring' = ring \o Completed
      BY <1>4 DEF DspComplete
    <2>2. ASSUME pads = {}
          PROVE  ring' \in Seq(Expected) /\ Len(ring') = Len(ring) + 1
      <3>1. Completed = <<"COMPLETE_MBOX">>
        BY <2>1, <2>2 DEF Completed, CompleteOf, TypeOK, Mailbox
      <3>2. ring \in Seq(Expected) /\ "COMPLETE_MBOX" \in Expected
        BY <2>2 DEF Mailbox, Expected
      <3> QED BY <2>1, <3>1, <3>2
    <2>3. Expected' = Expected
      BY <2>1 DEF Expected
    <2>4. playing'.by # "gpio"
      BY <2>1 DEF Silence
    <2> QED BY <2>1, <2>2, <2>3, <2>4 DEF Mailbox, TypeOK, VibeState
  <1>5. ASSUME NEW e \in Effects, GpiEdge(e)
        PROVE  Mailbox'
    BY <1>5 DEF GpiEdge, Mailbox, VibeState
  <1>6. CASE User \/ EraseEffect \/ EraseReturns
    BY <1>1, <1>6 DEF User, Upload, UserErase, UserPlayback, PlaybackEffect, EraseEffect,
                      EraseReturns
  <1>7. CASE \/ VibeStop \/ VibeStopDelayed
             \/ EraseNow \/ EraseWaitStarts \/ EraseWaitEnds \/ EraseTimesOut
    BY <1>1, <1>7 DEF VibeStop, VibeStopDelayed, DspStop, EraseNow, EraseWaitStarts,
                      EraseWaitEnds, EraseTimesOut
  <1>8. CASE IrqStart \/ IrqEnd \/ UNCHANGED vars
    BY <1>1, <1>8 DEF IrqStart, IrqEnd, vars
  <1> QED BY <1>2, <1>3, <1>4, <1>5, <1>6, <1>7, <1>8 DEF Next, Worker, Irq

LEMMA MailboxInit == Init => Mailbox
  BY DEF Init, Mailbox, VibeState, Silence, Expected

(* What the count says of the DSP when no pad is mapped. *)
LEMMA StillToCome ==
    ASSUME TypeOK, InFlightExact, Mailbox, pads = {}, vibe_state = "HAPTIC"
    PROVE  playing.by = "mbox" \/ "COMPLETE_MBOX" \in ToSet(ring)
  <1>1. effects_in_flight > 0 /\ ring \in Seq(Expected) /\ playing.by # "gpio"
    BY DEF Mailbox, VibeState, TypeOK
  <1>2. playing # Silence => playing.by = "mbox"
    BY <1>1 DEF TypeOK
  <1>3. ASSUME ring # <<>>, ring[1] = "COMPLETE_MBOX"
        PROVE  "COMPLETE_MBOX" \in ToSet(ring)
    <2>1. 1 \in DOMAIN ring
      BY <1>1, <1>3
    <2> QED BY <1>3, <2>1 DEF ToSet
  <1>4. CASE vibe_state_reporting
    <2>1. effects_in_flight = 1
      BY <1>1, <1>4 DEF InFlightExact
    <2>2. CASE ring = <<>>
      BY <1>2, <1>4, <2>1, <2>2 DEF InFlightExact
    <2>3. CASE ring # <<>>
      <3>1. 1 \in 1 .. Len(ring) /\ ring[1] \in Expected
        BY <1>1, <2>3
      <3>2. IsTrigger(ring[1]) <=> (1 + 1) % 2 = 1
        BY <1>4, <2>1, <3>1 DEF InFlightExact
      <3>3. ring[1] = "COMPLETE_MBOX"
        BY <1>4, <3>1, <3>2 DEF Expected, IsTrigger
      <3> QED BY <1>3, <2>3, <3>3
    <2> QED BY <2>2, <2>3
  <1>5. CASE ~vibe_state_reporting
    <2>1. CASE ring = <<>>
      BY <1>1, <1>2, <1>5, <2>1 DEF Mailbox
    <2>2. CASE ring # <<>>
      <3>1. ring[1] = "COMPLETE_MBOX"
        BY <1>1, <1>5, <2>2 DEF Expected
      <3> QED BY <1>3, <2>2, <3>1
    <2> QED BY <2>1, <2>2
  <1> QED BY <1>4, <1>5

(* While no pad is mapped an erase that waits is never beyond waking, for any effects,
   firmware and timing: what it waits for is still to come, or has come. *)
THEOREM WakeUpKept == Spec => []NoLostWakeUp
  <1>1. Init => NoLostWakeUp
    BY DEF Init, NoLostWakeUp
  <1>2. TypeOK /\ InFlightExact /\ Mailbox /\ NoLostWakeUp /\ [Next]_vars => NoLostWakeUp'
    <2> SUFFICES ASSUME TypeOK, InFlightExact, Mailbox, NoLostWakeUp, [Next]_vars,
                        (pads = {})', (worker = "erase_wait")', ~erase_cont'
                 PROVE  (playing.by = "mbox" \/ "COMPLETE_MBOX" \in ToSet(ring))'
      BY DEF NoLostWakeUp
    <2> USE DEF driver, dsp, setup
    <2>1. ASSUME UNCHANGED <<pads, worker, erase_cont, playing, ring>>
          PROVE  (playing.by = "mbox" \/ "COMPLETE_MBOX" \in ToSet(ring))'
      BY <2>1 DEF NoLostWakeUp, ToSet
    <2>2. CASE EraseWaitStarts
      <3>1. pads = {} /\ vibe_state = "HAPTIC" /\ ring' = ring /\ playing' = playing
        BY <2>2 DEF EraseWaitStarts
      <3> QED BY <3>1, StillToCome DEF ToSet
    <2>3. CASE HandleMessage
      <3>1. /\ ring # <<>> /\ ring' = Tail(ring)
            /\ UNCHANGED <<playing, pads, worker>>
        BY <2>3 DEF HandleMessage, HandleTrigger, HandleComplete, Read
      <3>2. Head(ring) # "COMPLETE_MBOX" /\ ~erase_cont
        BY <2>3 DEF HandleMessage, HandleTrigger, HandleComplete, Read, TypeOK
      <3>3. ASSUME "COMPLETE_MBOX" \in ToSet(ring)
            PROVE  "COMPLETE_MBOX" \in ToSet(ring')
        <4>1. PICK k \in DOMAIN ring : ring[k] = "COMPLETE_MBOX"
          BY <3>3 DEF ToSet
        <4>2. ring \in Seq(Messages) /\ k \in 2 .. Len(ring)
          BY <3>1, <3>2, <4>1 DEF TypeOK
        <4>3. k - 1 \in DOMAIN Tail(ring) /\ Tail(ring)[k - 1] = ring[k]
          BY <4>2
        <4> QED BY <3>1, <4>1, <4>3 DEF ToSet
      <3> QED BY <3>1, <3>2, <3>3 DEF NoLostWakeUp
    <2>4. CASE DspComplete
      <3>1. /\ UNCHANGED <<pads, worker, erase_cont>> /\ playing # Silence
            /\ ring' = ring \o Completed
        BY <2>4 DEF DspComplete
      <3>2. Completed = <<"COMPLETE_MBOX">>
        BY <3>1 DEF Completed, CompleteOf, TypeOK, Mailbox
      <3>3. ring \in Seq(Messages)
        BY DEF TypeOK
      <3>4. Len(ring) + 1 \in DOMAIN ring' /\ ring'[Len(ring) + 1] = "COMPLETE_MBOX"
        BY <3>1, <3>2, <3>3
      <3> QED BY <3>4 DEF ToSet
    <2>5. ASSUME NEW e \in Effects, GpiEdge(e)
          PROVE  FALSE
      BY <2>5 DEF GpiEdge
    <2>6. CASE VibeStart \/ VibeStop \/ VibeStopDelayed \/ EraseNow \/ EraseWaitEnds \/ EraseTimesOut
      BY <2>6 DEF VibeStart, VibeStop, VibeStopDelayed, EraseNow, EraseWaitEnds,
                  EraseTimesOut, Take
    <2>7. CASE User \/ EraseEffect \/ EraseReturns
      BY <2>1, <2>7 DEF User, Upload, UserErase, UserPlayback, PlaybackEffect, EraseEffect,
                        EraseReturns
    <2>8. CASE IrqStart \/ IrqEnd \/ UNCHANGED vars
      BY <2>1, <2>8 DEF IrqStart, IrqEnd, vars
    <2> QED BY <2>2, <2>3, <2>4, <2>5, <2>6, <2>7, <2>8 DEF Next, Worker, Irq
  <1>3. TypeOK /\ Mailbox /\ [Next]_vars => Mailbox'
    BY MailboxStep
  <1> QED BY <1>1, <1>2, <1>3, MailboxInit, TypeCorrect, Counted, PTL DEF Spec

--------------------------------------------------------------------------------
(* Erases beside a calm user. *)

CalmSetup == calm /\ ~vibe_state_reporting /\ pads = {}

(* A start is pending only first in the queue and while all is quiet, and an effect that
   plays is the last that was started: nothing of an earlier one is unread or signalled. *)
Quiet ==
    CalmSetup =>
        /\ \A k \in 2 .. Len(wq) : wq[k] # "start"
        /\ Len(wq) > 0 /\ wq[1] = "start" => playing = Silence /\ ring = <<>>
        /\ playing # Silence => ring = <<>> /\ ~erase_cont

LEMMA QueueGrows ==
    ASSUME wq \in Seq(Works), NEW w \in Works, QueueWork(w)
    PROVE  \/ wq' = wq
           \/ /\ Len(wq') = Len(wq) + 1 /\ wq'[Len(wq) + 1] = w
              /\ \A k \in 1 .. Len(wq) : wq'[k] = wq[k]
  BY DEF QueueWork

LEMMA QueueShrinks ==
    ASSUME wq \in Seq(Works), wq # <<>>, wq' = Tail(wq)
    PROVE  /\ Len(wq) > 0 /\ Head(wq) = wq[1] /\ Len(wq') = Len(wq) - 1
           /\ \A k \in 1 .. Len(wq') : wq'[k] = wq[k + 1]
  OBVIOUS

LEMMA QuietStep ==
    ASSUME TypeOK, Quiet, [Next]_vars
    PROVE  Quiet'
  <1> USE DEF driver, dsp, setup
  <1>1. UNCHANGED setup
    BY DEF Next, User, Upload, UserErase, UserPlayback, PlaybackEffect, EraseEffect,
         EraseReturns, Worker, VibeStart, VibeStop, VibeStopDelayed, EraseNow,
         EraseWaitStarts, EraseWaitEnds, EraseTimesOut, Irq, IrqStart, HandleMessage,
         IrqEnd, DspComplete, GpiEdge, vars
  <1> SUFFICES ASSUME CalmSetup PROVE Quiet'
    BY <1>1 DEF Quiet, CalmSetup
  <1>2. ASSUME UNCHANGED <<wq, playing, ring, erase_cont>>
        PROVE  Quiet'
    BY <1>1, <1>2 DEF Quiet, CalmSetup
  <1>3. ASSUME NEW w \in Works \ {"start"}, QueueWork(w), UNCHANGED <<playing, ring, erase_cont>>
        PROVE  Quiet'
    <2>1. wq \in Seq(Works) /\ Len(wq) \in Nat
      BY DEF TypeOK
    <2> QED BY <1>1, <1>3, <2>1, QueueGrows DEF Quiet, CalmSetup
  <1>4. ASSUME wq # <<>>, wq' = Tail(wq), UNCHANGED <<playing, ring, erase_cont>>
        PROVE  Quiet'
    <2>1. wq \in Seq(Works) /\ Len(wq) \in Nat
      BY DEF TypeOK
    <2> QED BY <1>1, <1>4, <2>1, QueueShrinks DEF Quiet, CalmSetup
  <1>5. CASE EraseEffect \/ EraseReturns
    BY <1>2, <1>3, <1>5 DEF EraseEffect, EraseReturns, Works
  <1>6. ASSUME NEW e \in Effects, Upload(e) \/ UserErase(e)
        PROVE  Quiet'
    BY <1>2, <1>3, <1>6 DEF Upload, UserErase, PlaybackEffect, Works
  <1>7. ASSUME NEW e \in Effects, NEW start \in BOOLEAN, UserPlayback(e, start)
        PROVE  Quiet'
    <2>1. CASE start
      <3>1. /\ wq = <<>> /\ playing = Silence /\ ring = <<>>
            /\ QueueWork("start") /\ UNCHANGED <<playing, ring>>
        BY <1>7, <2>1 DEF UserPlayback, PlaybackEffect, Calm, CalmSetup
      <3>2. Len(wq') \in {0, 1}
        BY <3>1, QueueGrows DEF TypeOK, Works
      <3> QED BY <3>1, <3>2 DEF Quiet
    <2>2. CASE ~start
      BY <1>3, <1>7, <2>2 DEF UserPlayback, PlaybackEffect, Works
    <2> QED BY <2>1, <2>2
  <1>8. CASE VibeStart
    <2>1. wq # <<>> /\ wq' = Tail(wq) /\ wq[1] = "start" /\ Len(wq) > 0
      BY <1>8 DEF VibeStart, Take, TypeOK
    <2>2. playing = Silence /\ ring = <<>>
      BY <2>1 DEF Quiet
    <2>3. CASE trigger_effect \in loaded
      <3>1. ring' = <<>> /\ ~erase_cont'
        BY <1>8, <2>2, <2>3 DEF VibeStart, DspPlay, Completed, Triggered, CalmSetup
      <3>2. /\ \A k \in 2 .. Len(wq') : wq'[k] # "start"
            /\ Len(wq') > 0 => wq'[1] # "start"
        <4>1. wq \in Seq(Works) /\ Len(wq) \in Nat
          BY DEF TypeOK
        <4> QED BY <2>1, <4>1, QueueShrinks DEF Quiet
      <3> QED BY <3>1, <3>2 DEF Quiet
    <2>4. CASE trigger_effect \notin loaded
      BY <1>4, <1>8, <2>1, <2>4 DEF VibeStart
    <2> QED BY <2>3, <2>4
  <1>9. CASE VibeStop \/ EraseNow \/ EraseWaitStarts
    BY <1>4, <1>9 DEF VibeStop, EraseNow, EraseWaitStarts, DspStop, Take
  <1>10. CASE VibeStopDelayed \/ EraseWaitEnds \/ EraseTimesOut
    BY <1>2, <1>10 DEF VibeStopDelayed, EraseWaitEnds, EraseTimesOut, DspStop
  <1>11. CASE HandleMessage
    BY <1>1, <1>11 DEF HandleMessage, HandleTrigger, HandleComplete, Read, Quiet, CalmSetup
  <1>12. CASE DspComplete
    BY <1>1, <1>12 DEF DspComplete, Quiet, CalmSetup
  <1>13. ASSUME NEW e \in Effects, GpiEdge(e)
         PROVE  Quiet'
    BY <1>13 DEF GpiEdge, CalmSetup
  <1>14. CASE IrqStart \/ IrqEnd \/ UNCHANGED vars
    BY <1>2, <1>14 DEF IrqStart, IrqEnd, vars
  <1> QED BY <1>5, <1>6, <1>7, <1>8, <1>9, <1>10, <1>11, <1>12, <1>13, <1>14
          DEF Next, User, Worker, Irq

(* With firmware that reports nothing, no pads and a user who starts an effect only when all
   is quiet, no effect is removed while the DSP plays it: whatever is stopped, erased again
   or late meanwhile. *)
THEOREM CalmErases == Spec => CalmEraseWaits
  <1>1. Init => Quiet
    BY DEF Init, Quiet
  <1>2. ASSUME TypeOK, Mailbox, Quiet, [Next]_vars
        PROVE  [CalmSetup => \A e \in loaded \ loaded' : playing.effect # e]_vars
    <2> SUFFICES ASSUME Next, CalmSetup, NEW e \in loaded, e \notin loaded'
                 PROVE  playing.effect # e
      BY <1>2
    <2> USE DEF driver, dsp, setup
    <2>1. EraseNow \/ EraseWaitEnds
      BY DEF Next, User, Upload, UserErase, UserPlayback, PlaybackEffect, EraseEffect,
         EraseReturns, Worker, VibeStart, VibeStop, VibeStopDelayed,
         EraseWaitStarts, EraseTimesOut, Irq, IrqStart, HandleMessage,
         IrqEnd, DspComplete, GpiEdge
    <2>2. CASE EraseNow
      <3>1. effects_in_flight = 0
        BY <1>2, <2>2 DEF EraseNow, Mailbox, VibeState, TypeOK
      <3>2. ring \in Seq(Expected) /\ effects_in_flight = Len(ring) + IF playing = Silence THEN 0 ELSE 1
        BY <1>2 DEF Mailbox, CalmSetup
      <3> QED BY <1>2, <3>1, <3>2 DEF Silence, TypeOK
    <2>3. CASE EraseWaitEnds
      <3>1. playing = Silence
        BY <1>2, <2>3 DEF EraseWaitEnds, Quiet
      <3> QED BY <1>2, <3>1 DEF Silence, TypeOK
    <2> QED BY <2>1, <2>2, <2>3
  <1>3. TypeOK /\ Quiet /\ [Next]_vars => Quiet'
    BY QuietStep
  <1>4. TypeOK /\ Mailbox /\ [Next]_vars => Mailbox'
    BY MailboxStep
  <1> QED BY <1>1, <1>2, <1>3, <1>4, MailboxInit, TypeCorrect, PTL DEF Spec, CalmEraseWaits, CalmSetup
================================================================================
