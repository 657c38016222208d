-------------------------- MODULE Cs40l26Reset_proofs --------------------------
(***************************************************************************)
(* Proofs about Cs40l26Reset: its types, that the interrupt line is off    *)
(* while firmware is replaced and on again afterwards, and that the counts *)
(* of effects and of resets are right.                                     *)
(***************************************************************************)
EXTENDS Cs40l26Reset, TLAPS

(* Sequences of few members. *)
LEMMA SmallSeq ==
    ASSUME NEW S
    PROVE  /\ <<>> \in Seq(S)
           /\ \A a \in S : <<a>> \in Seq(S)
           /\ \A a, b \in S : <<a, b>> \in Seq(S)
           /\ \A s \in Seq(S) : s # <<>> => Head(s) \in S /\ Tail(s) \in Seq(S)
           /\ \A s, u \in Seq(S) : s \o u \in Seq(S)
           /\ \A s \in Seq(S), a \in S : Append(s, a) \in Seq(S)
  OBVIOUS

Messages == {"TRIGGER", "COMPLETE"}

LEMMA StartedTyped == Started \in Seq(Messages)
  <1>1. "TRIGGER" \in Messages /\ "COMPLETE" \in Messages
    BY DEF Messages
  <1> QED BY <1>1, SmallSeq DEF Started

(* What work a decision, a user or the thread leaves is well typed. *)
LEMMA QueueTyped ==
    ASSUME TypeOK, NEW w \in Works, Queue(w)
    PROVE  queue' \in Seq(Works)
  BY DEF TypeOK, Queue

(* The decision and the places of threads are well typed. *)
LEMMA DecidesTyped ==
    ASSUME TypeOK, NEW t \in Threads, Decides(t)
    PROVE  decision' \in [Threads -> Outcomes]
  <1>1. Decided \in Outcomes
    BY Zenon DEF Decided, Outcomes
  <1> QED BY <1>1 DEF TypeOK, Decides

LEMMA ResumeTyped ==
    ASSUME TypeOK, NEW t \in {"worker", "caller"}, AfterResume(t)
    PROVE  /\ pm' \in BOOLEAN /\ pm_error' \in BOOLEAN
           /\ worker' \in {worker, "deciding"} /\ caller' \in {caller, "deciding"}
           /\ swapper' = swapper
           /\ decision' \in [Threads -> Outcomes]
           /\ (pm => pm') /\ (pm_error => pm_error') /\ (pm_error' => pm_error \/ dsp # "run")
  <1>1. t \in Threads
    BY DEF Threads
  <1>2. pm' = pm /\ pm_error' = (pm_error \/ ResumeFails)
    BY DEF AfterResume
  <1>5. (pm => pm') /\ (pm_error => pm_error') /\ (pm_error' => pm_error \/ dsp # "run")
    BY <1>2 DEF ResumeFails
  <1>3. CASE Resumes /\ ResumeAsks
    BY <1>1, <1>2, <1>3, <1>5, DecidesTyped DEF AfterResume, Goes, TypeOK
  <1>4. CASE ~(Resumes /\ ResumeAsks)
    BY <1>2, <1>4, <1>5 DEF AfterResume, TypeOK, pcs
  <1> QED BY <1>3, <1>4, <1>5

(* Going somewhere leaves the other threads where they are. *)
LEMMA GoesTyped ==
    ASSUME TypeOK, NEW t \in Threads, NEW p, Goes(t, p),
           p \in {"idle", "deciding"} \/ (t # "caller" /\ p \in Swapping)
             \/ (t = "worker" /\ p \in {"pulse", "ready", "done"})
             \/ (t = "caller" /\ p = "waiting"),
           t = "swapper" => p # "deciding"
    PROVE  /\ worker' \in {"idle", "deciding", "pulse", "ready", "done"} \cup Swapping
           /\ swapper' \in {"idle"} \cup Swapping
           /\ caller' \in {"idle", "waiting", "deciding"}
  BY DEF Goes, TypeOK, Threads

LEMMA DecisionTyped ==
    ASSUME TypeOK, NEW t \in Threads, Decision(t)
    PROVE  TypeOK'
  <1>1. CASE Commit(t)
    BY <1>1 DEF TypeOK, Commit, line, power, pcs, effects, chip, Threads, Events, Outcomes
  <1>2. CASE Conclude(t)
    <2>1. queue' \in Seq(Works)
      BY <1>2, QueueTyped DEF Conclude, Works, TypeOK
    <2>2. /\ worker' \in {"idle", "deciding", "pulse", "ready", "done"} \cup Swapping
          /\ swapper' \in {"idle"} \cup Swapping
          /\ caller' \in {"idle", "waiting", "deciding"}
      BY <1>2 DEF Conclude, Deciding, At, Goes, TypeOK, Threads, Swapping, Resuming
    <2>3. decision' \in [Threads -> Outcomes]
      BY <1>2 DEF Conclude, TypeOK, Outcomes
    <2>4. reset_event' \in Events /\ reset_count' \in Nat /\ expired' \in BOOLEAN
      BY <1>2 DEF Conclude, Fails, reset, TypeOK, Events
    <2> QED BY <1>2, <2>1, <2>2, <2>3, <2>4
            DEF TypeOK, Conclude, line, power, effects, chip
  <1> QED BY <1>1, <1>2 DEF Decision

(* The state keeps its types: for every limit of resets, ring and setup. *)
THEOREM TypeCorrect == Spec => []TypeOK
  <1>1. Init => TypeOK
    <2> SUFFICES ASSUME Init PROVE TypeOK
      OBVIOUS
    <2>1. queue \in Seq(Works) /\ ring \in Seq(Messages)
      BY SmallSeq DEF Init, Start
    <2>2. decision \in [Threads -> Outcomes] /\ re_enable \in [Threads -> BOOLEAN]
      BY DEF Init, Start, Outcomes
    <2>3. /\ setup \in Setups /\ reset_event \in Events
          /\ reset_count \in Nat /\ irq_depth \in Int /\ effects_in_flight \in Nat
          /\ dsp \in {"run", "boot", "hung"} /\ upload_ret \in {"ok", "error"}
      BY DEF Init, Start, Events
    <2>4. /\ worker \in {"idle", "deciding", "pulse", "ready", "done"} \cup Swapping
          /\ swapper \in {"idle"} \cup Swapping
          /\ caller \in {"idle", "waiting", "deciding"}
      BY DEF Init, Start
    <2>5. /\ expired \in BOOLEAN /\ fw_loaded \in BOOLEAN /\ pm \in BOOLEAN
          /\ pm_error \in BOOLEAN /\ listed \in BOOLEAN /\ loaded \in BOOLEAN
          /\ plays \in BOOLEAN
      BY DEF Init, Start
    <2> QED BY <2>1, <2>2, <2>3, <2>4, <2>5 DEF TypeOK, Messages
  <1>2. TypeOK /\ [Next]_vars => TypeOK'
    <2> SUFFICES ASSUME TypeOK, [Next]_vars PROVE TypeOK'
      OBVIOUS
    <2> USE TypeOK DEF TypeOK
    <2>0. queue \in Seq(Works) /\ ring \in Seq(Messages)
      BY DEF Messages
    <2>1. CASE Access
      BY <2>1, ResumeTyped DEF Access, reset, line, effects, chip
    <2>2. CASE Playback \/ Upload
      BY <2>2, QueueTyped, GoesTyped
         DEF Playback, Upload, reset, line, power, pcs, effects, chip, Works, Threads
    <2>3. CASE UploadReturns
      BY <2>3, DecidesTyped, GoesTyped
         DEF UploadReturns, reset, line, power, effects, chip, Threads
    <2>4. CASE ResetStore
      BY <2>4, QueueTyped DEF ResetStore, line, power, pcs, effects, chip, Works, Events
    <2>5. CASE SwapFirmwareStore
      BY <2>5, GoesTyped DEF SwapFirmwareStore, reset, line, power, effects, chip, Threads,
                             Swapping
    <2>6. CASE Expire
      BY <2>6 DEF Expire, line, power, pcs, effects, chip
    <2>7. ASSUME NEW t \in {"worker", "swapper"}, Swap(t)
          PROVE  TypeOK'
      <3>0. t \in Threads /\ <<>> \in Seq(Messages)
        BY SmallSeq DEF Threads
      <3>1. CASE SwapBegin(t)
        BY <2>7, <3>1, GoesTyped
           DEF SwapBegin, reset, effects, chip, Threads, Swapping
      <3>2. CASE SwapLoad(t)
        BY <2>7, <3>0, <3>2, GoesTyped DEF SwapLoad, reset, power, Swapping, Messages
      <3>3. CASE SwapConfig(t)
        BY <2>7, <3>3, GoesTyped DEF SwapConfig, reset, effects, Threads, Swapping, Resuming
      <3>6. CASE SwapResume(t)
        <4>1. decision' \in [Threads -> Outcomes]
          BY <3>0, <3>6, DecidesTyped DEF SwapResume
        <4>2. /\ worker' \in {"idle", "deciding", "pulse", "ready", "done"} \cup Swapping
              /\ swapper' \in {"idle"} \cup Swapping
              /\ caller' \in {"idle", "waiting", "deciding"}
          BY <2>7, <3>6, GoesTyped DEF SwapResume, Threads, Swapping, Resuming
        <4> QED BY ZenonT(60), <3>6, <4>1, <4>2
                DEF SwapResume, Fails, ResumeFails, Resumes, reset, line, effects, chip, Events
      <3>7. CASE t = "swapper" /\ Decision(t)
        BY <3>7, DecisionTyped DEF Threads
      <3>4. CASE SwapEnd(t)
        BY <2>7, <3>4, GoesTyped DEF SwapEnd, reset, power, effects, chip, Threads, Swapping
      <3>5. CASE SwapFails(t)
        BY <2>7, <3>5, GoesTyped, ZenonT(60) DEF SwapFails, Fails, reset, line, power, effects, chip,
                                     Threads, Events
      <3> QED BY <2>7, <3>1, <3>2, <3>3, <3>4, <3>5, <3>6, <3>7 DEF Swap
    <2>8. ASSUME NEW t \in {"worker", "caller"}, Decision(t)
          PROVE  TypeOK'
      BY <2>8, DecisionTyped DEF Threads
    <2>9. CASE VibeStart \/ UploadWork
      <3>1. queue' \in Seq(Works)
        BY ONLY <2>0, <2>9, SmallSeq DEF VibeStart, UploadWork, Takes
      <3>2. AfterResume("worker")
        BY <2>9 DEF VibeStart, UploadWork
      <3>3. ring \o Started \in Seq(Messages)
        BY ONLY <2>0, StartedTyped, SmallSeq
      <3> QED BY ZenonT(60), <2>9, <3>1, <3>2, <3>3, ResumeTyped
              DEF VibeStart, UploadWork, reset, line, effects, chip, Messages
    <2>10. CASE ResetImpossible \/ ResetBegin
      <3>1. queue' \in Seq(Works)
        <4>1. "reset" \in Works
          BY DEF Works
        <4> QED BY ONLY <2>0, <2>10, <4>1, SmallSeq DEF ResetImpossible, ResetBegin, Takes
      <3> QED BY <2>10, <3>1, GoesTyped
              DEF ResetImpossible, ResetBegin, reset, line, power, pcs, effects, chip, Threads
    <2>11. CASE ResetPulse \/ ResetReady \/ ResetDone
      <3>1. ring' \in Seq(Messages)
        BY ONLY <2>0, <2>11, SmallSeq DEF ResetPulse, ResetReady, ResetDone, chip
      <3>2. CASE ResetPulse
        BY <3>1, <3>2, GoesTyped DEF ResetPulse, Fails, reset, line, power, Threads, Events,
                                     Messages
      <3>3. CASE ResetReady \/ ResetDone
        BY <3>3, GoesTyped DEF ResetReady, ResetDone, reset, line, power, effects, chip,
                               Threads, Events, Swapping
      <3> QED BY <2>11, <3>2, <3>3
    <2>12. CASE DspHangs \/ DspComplete \/ PadPlay
      <3>1. ring' \in Seq(Messages)
        <4>1. "COMPLETE" \in Messages
          BY DEF Messages
        <4> QED BY ONLY <2>0, <2>12, <4>1, StartedTyped, SmallSeq
                DEF DspHangs, DspComplete, PadPlay
      <3> QED BY <2>12, <3>1, ZenonT(60) DEF DspHangs, DspComplete, PadPlay, reset, line, power, pcs,
                                 effects, Messages
    <2>13. CASE Interrupt
      <3>1. ring' \in Seq(Messages)
        BY ONLY <2>0, <2>13, SmallSeq DEF Interrupt
      <3> QED BY <2>13, <3>1 DEF Interrupt, Down, line, power, pcs, effects, Events, Messages
    <2>14. CASE UNCHANGED vars
      BY <2>14 DEF vars, reset, line, power, pcs, effects, chip
    <2> QED BY <2>1, <2>2, <2>3, <2>4, <2>5, <2>6, <2>7, <2>8, <2>9, <2>10, <2>11, <2>12,
               <2>13, <2>14 DEF Next, Callers, Work
  <1> QED BY <1>1, <1>2, PTL DEF Spec

Swappers == {"worker", "swapper"}

(* Somebody will enable the line again. *)
Owed ==
    \/ worker \in {"pulse", "ready"} /\ fw_loaded
    \/ \E t \in Swappers : At(t) \in {"load", "config", "swapped"} \cup Resuming /\ re_enable[t]

(* Without an overlap a reset and a swap exclude each other, the line is disabled at least
   while somebody will enable it and while no firmware is loaded, and without faults it is
   disabled just as often as it will be enabled, until a resume fails. *)
LineInv ==
    setup # "overlap" =>
        /\ worker \in {"idle", "deciding"} \/ swapper = "idle"
        /\ \A t \in Swappers :
            /\ At(t) = "load" => re_enable[t] = fw_loaded
            /\ At(t) = "config" => ~fw_loaded
            /\ At(t) \in {"swapped"} \cup Resuming => fw_loaded
            /\ At(t) = "resume" => pm
            /\ At(t) = "refused" => pm_error
            /\ At(t) \in Resuming => irq_depth >= 1
        /\ irq_depth >= 0 /\ (Owed \/ ~fw_loaded => irq_depth >= 1)
        /\ setup # "faults" /\ ~pm_error =>
            /\ irq_depth = IF Owed THEN 1 ELSE 0
            /\ ~fw_loaded => \E t \in Swappers : At(t) = "config"

(* What leaves the line, the firmware and the threads that replace it alone. *)
LEMMA Elsewhere ==
    ASSUME LineInv, UNCHANGED <<setup, fw_loaded, irq_depth, swapper, re_enable, pm>>,
           pm_error => pm_error',
           worker' = worker \/ (worker \in {"idle", "deciding"} /\ worker' \in {"idle", "deciding"})
    PROVE  LineInv'
  BY DEF LineInv, Owed, Swappers, At, Resuming

LEMMA LineDecision ==
    ASSUME TypeOK, LineInv, NEW t \in Threads, Decision(t)
    PROVE  LineInv'
  <1> USE DEF line, power, reset, pcs, effects, chip
  <1>1. CASE Commit(t)
    BY <1>1, Elsewhere DEF Commit
  <1>2. CASE Conclude(t)
    <2>1. UNCHANGED <<setup, fw_loaded, irq_depth, re_enable, pm, pm_error>>
      BY <1>2 DEF Conclude
    <2>2. /\ At(t) = "deciding" => At(t)' = "idle"
          /\ At(t) = "asks" => At(t)' = "swapped"
          /\ At(t) = "refused" => At(t)' = "idle"
          /\ At(t) \in {"deciding", "asks", "refused"}
          /\ \A u \in Threads \ {t} : At(u)' = At(u)
      BY <1>2 DEF Conclude, Deciding, Goes, At, Threads
    <2>3. worker = At("worker") /\ swapper = At("swapper")
      BY DEF At
    <2> QED BY <2>1, <2>2, <2>3 DEF LineInv, Owed, Swappers, At, Threads, Resuming, TypeOK
  <1> QED BY <1>1, <1>2 DEF Decision

(* The interrupt line is disabled while firmware is replaced, whatever fails, and enabled
   again after every reset and swap that does not: however often either is asked for. *)
THEOREM LineKept == Spec => []LineSound
  <1>1. Init => LineInv
    BY DEF Init, Start, LineInv, Owed, Swappers, At, Resuming
  <1>2. TypeOK /\ LineInv /\ [Next]_vars => LineInv'
    <2> SUFFICES ASSUME TypeOK, LineInv, [Next]_vars PROVE LineInv'
      OBVIOUS
    <2> USE DEF line, power, reset, pcs, effects, chip, Resuming
    <2>1. CASE Access
      BY <2>1, Elsewhere DEF Access, AfterResume, Goes
    <2>2. CASE Playback \/ Upload \/ UploadReturns \/ ResetStore
      BY <2>2, Elsewhere DEF Playback, Upload, UploadReturns, ResetStore, Goes
    <2>3. CASE SwapFirmwareStore
      BY <2>3 DEF SwapFirmwareStore, Goes, LineInv, Owed, Swappers, At, Swaps
    <2>4. CASE Expire \/ DspHangs \/ DspComplete \/ PadPlay \/ Interrupt \/ ResetImpossible
      BY <2>4, Elsewhere DEF Expire, DspHangs, DspComplete, PadPlay, Interrupt, ResetImpossible
    <2>5. ASSUME NEW t \in Swappers, Swap(t)
          PROVE  LineInv'
      <3> SUFFICES ASSUME setup # "overlap" PROVE LineInv'
        BY <2>5 DEF Swap, SwapBegin, SwapLoad, SwapConfig, SwapResume, SwapEnd, SwapFails,
                    Decision, Commit, Conclude, LineInv
      <3> USE DEF LineInv, Owed, Swappers, At, Goes, TypeOK, Threads, Resuming
      <3>1. CASE SwapBegin(t)
        BY <2>5, <3>1 DEF SwapBegin
      <3>2. CASE SwapLoad(t)
        BY <2>5, <3>2 DEF SwapLoad
      <3>3. CASE SwapConfig(t)
        BY <2>5, <3>3 DEF SwapConfig
      <3>4. CASE SwapEnd(t)
        BY <2>5, <3>4 DEF SwapEnd
      <3>5. CASE SwapFails(t)
        BY <2>5, <3>5 DEF SwapFails, Faulty
      <3>6. CASE SwapResume(t)
        BY <2>5, <3>6 DEF SwapResume, Resumes, Fails
      <3>7. CASE t = "swapper" /\ Decision(t)
        BY <3>7, LineDecision
      <3> QED BY <2>5, <3>1, <3>2, <3>3, <3>4, <3>5, <3>6, <3>7 DEF Swap
    <2>6. ASSUME NEW t \in {"worker", "caller"}, Decision(t)
          PROVE  LineInv'
      BY <2>6, LineDecision DEF Threads
    <2>7. CASE VibeStart \/ UploadWork
      <3>1. AfterResume("worker") /\ worker = "idle"
        BY <2>7 DEF VibeStart, UploadWork, Takes
      <3> QED BY <2>7, <3>1, Elsewhere, ResumeTyped DEF VibeStart, UploadWork, AfterResume
    <2>8. CASE ResetBegin
      BY <2>8 DEF ResetBegin, Takes, Goes, LineInv, Owed, Swappers, At, TypeOK
    <2>9. CASE ResetPulse
      BY <2>9 DEF ResetPulse, Goes, Faulty, LineInv, Owed, Swappers, At
    <2>10. CASE ResetReady
      BY <2>10 DEF ResetReady, Goes, LineInv, Owed, Swappers, At, TypeOK
    <2>11. CASE ResetDone
      BY <2>11 DEF ResetDone, Goes, LineInv, Owed, Swappers, At
    <2>12. CASE UNCHANGED vars
      BY <2>12, Elsewhere DEF vars
    <2> QED BY <2>1, <2>2, <2>3, <2>4, <2>5, <2>6, <2>7, <2>8, <2>9, <2>10, <2>11, <2>12
            DEF Next, Callers, Work, Swappers
  <1>3. TypeOK /\ LineInv => LineSound
    BY DEF TypeOK, LineInv, Owed, Swappers, At, LineSound, LineRestored, LoadUndisturbed, Quiet,
           Resuming
  <1> QED BY <1>1, <1>2, <1>3, TypeCorrect, PTL DEF Spec

--------------------------------------------------------------------------------
(* The count of playing effects. *)

Resetting == worker \in {"pulse", "ready", "done"} \cup Swapping

(* What the DSP has yet to say leads from the count to what it plays. *)
Tracks ==
    /\ effects_in_flight \in {0, 1}
    /\ ring # <<>> => (Head(ring) = "TRIGGER" <=> effects_in_flight = 0)
    /\ \A i \in 1 .. Len(ring) - 1 : ring[i] # ring[i + 1]
    /\ plays <=> IF ring = <<>> THEN effects_in_flight = 1 ELSE ring[Len(ring)] = "TRIGGER"

(* A fault has intervened, or a resume that failed: the count may be wrong until a reset is
   done. *)
Disturbed ==
    (setup = "faults" \/ pm_error) /\ (reset_event # "NONEED" \/ "reset" \in ToSet(queue) \/ Resetting)

Configured == worker \in {"swapped", "done"} \cup Resuming

(* The DSP says nothing while it is reset, and its count is right at other times.  Once a
   resume has failed no effect starts any more. *)
EffectsInv ==
    setup # "pads" /\ ~Swaps =>
        /\ swapper = "idle"
        /\ worker \in {"ready", "swap", "load", "config"} => dsp = "boot"
        /\ dsp # "run" \/ pm_error \/ Configured => ring = <<>> /\ ~plays
        /\ dsp = "run" /\ ~Configured /\ ~Disturbed => Tracks
        /\ worker = "resume" => pm
        /\ worker = "refused" => pm_error
        /\ setup = "no_gpio" => ~Resetting /\ (pm_error => dsp # "run")
        /\ setup # "faults" => reset_event # "TRIGGER"

(* The three ways in which messages come and go keep the count on track. *)
LEMMA ReadTracks ==
    ASSUME TypeOK, Tracks, ring # <<>>, ring' = Tail(ring), plays' = plays,
           effects_in_flight' = IF Head(ring) = "TRIGGER" THEN effects_in_flight + 1
                                ELSE Down(effects_in_flight)
    PROVE  Tracks'
  <1>1. ring \in Seq({"TRIGGER", "COMPLETE"})
    BY DEF TypeOK
  <1>2. /\ Head(ring) = ring[1] /\ Len(ring) \in Nat \ {0}
        /\ Len(ring') = Len(ring) - 1
        /\ \A i \in 1 .. Len(ring) - 1 : ring'[i] = ring[i + 1]
    <2>1. /\ Head(ring) = ring[1] /\ Len(ring) \in Nat \ {0}
          /\ Len(ring') = Len(ring) - 1
      BY <1>1
    <2>2. \A i \in 1 .. Len(ring) - 1 : ring'[i] = ring[i + 1]
      BY <1>1
    <2> QED BY <2>1, <2>2
  <1>5. ring' \in Seq({"TRIGGER", "COMPLETE"})
    BY <1>1
  <1>6. (ring' = <<>> <=> Len(ring) = 1) /\ (ring' # <<>> => Head(ring') = ring'[1])
    BY <1>2, <1>5
  <1>3. effects_in_flight' \in {0, 1} /\ (effects_in_flight' = 1 <=> Head(ring) = "TRIGGER")
    BY <1>1 DEF Tracks, Down
  <1>4. ring' # <<>> => (Head(ring') = "TRIGGER" <=> effects_in_flight' = 0)
    <2>1. ring' # <<>> => Head(ring') = ring[2] /\ ring[1] # ring[2]
      BY <1>2, <1>6 DEF Tracks
    <2>2. ring' # <<>> => ring[1] \in {"TRIGGER", "COMPLETE"} /\ ring[2] \in {"TRIGGER", "COMPLETE"}
      BY <1>1, <1>2, <1>6
    <2> QED BY <1>2, <1>3, <2>1, <2>2
  <1>7. \A i \in 1 .. Len(ring') - 1 : ring'[i] # ring'[i + 1]
    BY <1>2 DEF Tracks
  <1>8. plays' <=> IF ring' = <<>> THEN effects_in_flight' = 1 ELSE ring'[Len(ring')] = "TRIGGER"
    BY <1>1, <1>2, <1>3, <1>6 DEF Tracks
  <1> QED BY <1>3, <1>4, <1>7, <1>8 DEF Tracks

LEMMA EndTracks ==
    ASSUME TypeOK, Tracks, plays, ring' = Append(ring, "COMPLETE"), plays' = FALSE,
           UNCHANGED effects_in_flight
    PROVE  Tracks'
  <1>1. ring \in Seq({"TRIGGER", "COMPLETE"})
    BY DEF TypeOK
  <1>2. /\ Len(ring) \in Nat /\ Len(ring') = Len(ring) + 1
        /\ \A i \in 1 .. Len(ring) : ring'[i] = ring[i]
        /\ ring'[Len(ring) + 1] = "COMPLETE"
        /\ ring' # <<>> /\ Head(ring') = ring'[1]
        /\ ring = <<>> <=> Len(ring) = 0
        /\ ring # <<>> => Head(ring) = ring[1]
    BY <1>1
  <1> QED BY <1>2 DEF Tracks

LEMMA StartTracks ==
    ASSUME TypeOK, Tracks, ring' = ring \o Started, plays' = TRUE, UNCHANGED effects_in_flight
    PROVE  Tracks'
  <1>1. ring \in Seq({"TRIGGER", "COMPLETE"})
    BY DEF TypeOK
  <1>2. /\ Len(ring) \in Nat /\ (ring = <<>> <=> Len(ring) = 0)
        /\ ring # <<>> => Head(ring) = ring[1]
    BY <1>1
  <1>3. CASE plays
    <2>1. ring' = ring \o <<"COMPLETE", "TRIGGER">>
      BY <1>3 DEF Started
    <2>2. /\ Len(ring') = Len(ring) + 2
          /\ \A i \in 1 .. Len(ring) : ring'[i] = ring[i]
          /\ ring'[Len(ring) + 1] = "COMPLETE" /\ ring'[Len(ring) + 2] = "TRIGGER"
          /\ ring' # <<>> /\ Head(ring') = ring'[1]
      BY <1>1, <2>1
    <2> QED BY <1>2, <1>3, <2>2 DEF Tracks
  <1>4. CASE ~plays
    <2>1. ring' = ring \o <<"TRIGGER">>
      BY <1>4 DEF Started
    <2>2. /\ Len(ring') = Len(ring) + 1
          /\ \A i \in 1 .. Len(ring) : ring'[i] = ring[i]
          /\ ring'[Len(ring) + 1] = "TRIGGER"
          /\ ring' # <<>> /\ Head(ring') = ring'[1]
      BY <1>1, <2>1
    <2>3. ring # <<>> => ring[Len(ring)] = "COMPLETE"
      BY <1>1, <1>2, <1>4 DEF Tracks
    <2> QED BY <1>2, <1>4, <2>2, <2>3 DEF Tracks
  <1> QED BY <1>3, <1>4

(* Taking or queueing other work leaves a reset that is queued. *)
LEMMA QueueFacts ==
    ASSUME TypeOK, NEW w \in Works, Queue(w)
    PROVE  "reset" \in ToSet(queue') <=> ("reset" \in ToSet(queue) \/ w = "reset")
  <1>1. queue \in Seq(Works)
    BY DEF TypeOK
  <1>2. CASE w \in ToSet(queue)
    BY <1>2 DEF Queue
  <1>3. CASE w \notin ToSet(queue)
    <2>1. /\ Len(queue) \in Nat /\ DOMAIN queue' = 1 .. Len(queue) + 1
          /\ DOMAIN queue = 1 .. Len(queue)
          /\ \A i \in 1 .. Len(queue) : queue'[i] = queue[i]
          /\ queue'[Len(queue) + 1] = w
      BY <1>1, <1>3 DEF Queue
    <2> QED BY <2>1 DEF ToSet
  <1> QED BY <1>2, <1>3

LEMMA TakeFacts ==
    ASSUME TypeOK, NEW w, w # "reset", Takes(w), queue' = Tail(queue)
    PROVE  "reset" \in ToSet(queue') <=> "reset" \in ToSet(queue)
  <1>1. queue \in Seq(Works) /\ queue # <<>> /\ queue[1] # "reset"
    BY DEF TypeOK, Takes
  <1>2. /\ Len(queue) \in Nat \ {0} /\ Len(queue') = Len(queue) - 1
        /\ DOMAIN queue = 1 .. Len(queue) /\ DOMAIN queue' = 1 .. Len(queue')
        /\ \A i \in 1 .. Len(queue') : queue'[i] = queue[i + 1]
    BY <1>1
  <1>3. ASSUME "reset" \in ToSet(queue) PROVE "reset" \in ToSet(queue')
    <2>1. PICK i \in 1 .. Len(queue) : queue[i] = "reset"
      BY <1>1, <1>3 DEF ToSet
    <2>2. i - 1 \in 1 .. Len(queue') /\ queue'[i - 1] = "reset"
      BY <1>1, <1>2, <2>1
    <2> QED BY <1>2, <2>2 DEF ToSet
  <1>4. ASSUME "reset" \in ToSet(queue') PROVE "reset" \in ToSet(queue)
    <2>1. PICK i \in 1 .. Len(queue') : queue'[i] = "reset"
      BY <1>1, <1>4 DEF ToSet
    <2>2. i + 1 \in 1 .. Len(queue) /\ queue[i + 1] = "reset"
      BY <1>2, <2>1
    <2> QED BY <1>1, <2>2 DEF ToSet
  <1> QED BY <1>3, <1>4

(* What leaves the effects, the chip and the thread that resets it alone. *)
LEMMA EffectsElsewhere ==
    ASSUME EffectsInv, UNCHANGED <<setup, swapper, dsp, plays, ring, effects_in_flight>>,
           pm_error' => pm_error \/ dsp # "run",
           pm => pm', pm_error => pm_error',
           \/ worker' = worker
           \/ worker \in {"idle", "deciding"} /\ worker' \in {"idle", "deciding"},
           setup # "faults" => (reset_event' = "TRIGGER" => reset_event = "TRIGGER"),
           ~Disturbed' => ~Disturbed
    PROVE  EffectsInv'
  BY DEF EffectsInv, Tracks, Swaps, Swapping, Configured, Resuming, Resetting

LEMMA EffectsStep == TypeOK /\ EffectsInv /\ [Next]_vars => EffectsInv'
  <1> SUFFICES ASSUME TypeOK, EffectsInv, [Next]_vars PROVE EffectsInv'
    OBVIOUS
  <1> USE DEF line, power, reset, pcs, effects, chip, Configured, Resuming
  <1>1. CASE Access
    <2>1. worker' = worker /\ swapper' = swapper
      BY <1>1 DEF Access, AfterResume, Goes
    <2> QED BY <1>1, <2>1, EffectsElsewhere DEF Access, AfterResume, ResumeFails, Resumes,
         Disturbed, Resetting
  <1>2. CASE Playback \/ Upload
    <2>1. "reset" \in ToSet(queue') <=> "reset" \in ToSet(queue)
      BY <1>2, QueueFacts DEF Playback, Upload, Works
    <2> QED BY <1>2, <2>1, EffectsElsewhere DEF Playback, Upload, Goes, Disturbed, Resetting
  <1>3. CASE UploadReturns \/ Expire
    BY <1>3, EffectsElsewhere DEF UploadReturns, Expire, Goes, Disturbed, Resetting
  <1>4. CASE ResetStore
    <2>1. "reset" \in ToSet(queue')
      BY <1>4, QueueFacts DEF ResetStore, Works
    <2> QED BY <1>4, <2>1, EffectsElsewhere DEF ResetStore, Disturbed
  <1>5. CASE SwapFirmwareStore
    BY <1>5 DEF SwapFirmwareStore, EffectsInv, Swaps
  <1>6. ASSUME NEW t \in Swappers, Swap(t)
        PROVE  EffectsInv'
    <2> SUFFICES ASSUME setup # "pads", ~Swaps PROVE EffectsInv'
      BY <1>6 DEF Swap, SwapBegin, SwapLoad, SwapConfig, SwapResume, SwapEnd, SwapFails,
                  Decision, Commit, Conclude, EffectsInv, Swaps
    <2>0. t = "worker" /\ worker \in Swapping /\ swapper = "idle"
      BY <1>6 DEF Swap, SwapBegin, SwapLoad, SwapConfig, SwapResume, SwapEnd, SwapFails,
                  Decision, Commit, Conclude, Deciding, EffectsInv, Swappers, At, Swapping,
                  Resuming
    <2> USE <2>0 DEF EffectsInv, At, Goes, Swapping, Resuming, Configured, Resetting, Disturbed,
                     Swaps
    <2>1. CASE SwapBegin(t)
      BY <2>1 DEF SwapBegin
    <2>2. CASE SwapLoad(t)
      BY <2>2 DEF SwapLoad
    <2>3. CASE SwapConfig(t)
      BY <2>3 DEF SwapConfig
    <2>4. CASE SwapEnd(t)
      BY <2>4 DEF SwapEnd
    <2>5. CASE SwapFails(t)
      BY <2>5 DEF SwapFails, Fails, Faulty
    <2>6. CASE SwapResume(t)
      BY <2>6 DEF SwapResume, Resumes, ResumeFails, ResumeAsks, Fails
    <2> QED BY <1>6, <2>0, <2>1, <2>2, <2>3, <2>4, <2>5, <2>6 DEF Swap
  <1>7. ASSUME NEW t \in {"worker", "caller"}, Commit(t)
        PROVE  EffectsInv'
    BY <1>7, EffectsElsewhere DEF Commit, Disturbed, Resetting
  <1>8. ASSUME NEW t \in {"worker", "caller"}, Conclude(t)
        PROVE  EffectsInv'
    <2>1. "reset" \in ToSet(queue) => "reset" \in ToSet(queue')
      BY <1>8, QueueFacts DEF Conclude, Works
    <2>2. swapper' = swapper
      BY <1>8 DEF Conclude, Goes
    <2>3. CASE worker' = worker \/ (worker = "deciding" /\ worker' = "idle")
      BY <1>8, <2>1, <2>2, <2>3, EffectsElsewhere
         DEF Conclude, Deciding, At, Goes, Fails, Disturbed, Resetting, Swapping
    <2>4. CASE /\ t = "worker" /\ worker \in {"asks", "refused"}
               /\ worker' = IF worker = "asks" THEN "swapped" ELSE "idle"
               /\ reset_event' = IF worker = "asks" THEN reset_event ELSE "FAILED"
      BY <1>8, <2>1, <2>2, <2>4
         DEF Conclude, EffectsInv, Swaps, Disturbed, Resetting, Swapping
    <2> QED BY <1>8, <2>3, <2>4 DEF Conclude, Deciding, At, Goes, Fails
  <1>9. CASE UploadWork
    <2>1. "reset" \in ToSet(queue') <=> "reset" \in ToSet(queue)
      BY <1>9, TakeFacts DEF UploadWork
    <2>2. AfterResume("worker") /\ worker = "idle"
      BY <1>9 DEF UploadWork, Takes
    <2>3. worker' \in {"idle", "deciding"} /\ swapper' = swapper
      BY <2>2, ResumeTyped
    <2>4. Disturbed => Disturbed'
      BY <1>9, <2>1, <2>2, <2>3, ResumeTyped DEF UploadWork, Disturbed, Resetting, Swapping
    <2> QED BY <1>9, <2>2, <2>3, <2>4, EffectsElsewhere, ResumeTyped DEF UploadWork
  <1>10. CASE VibeStart
    <2>1. "reset" \in ToSet(queue') <=> "reset" \in ToSet(queue)
      BY <1>10, TakeFacts DEF VibeStart
    <2>2. AfterResume("worker") /\ worker = "idle"
      BY <1>10 DEF VibeStart, Takes
    <2>3. worker' \in {"idle", "deciding"} /\ swapper' = swapper
      BY <2>2, ResumeTyped
    <2>4. Disturbed => Disturbed'
      BY <1>10, <2>1, <2>2, <2>3 DEF VibeStart, AfterResume, ResumeFails, Resumes, Disturbed,
           Resetting, Swapping
    <2>5. CASE ~ResumeWorks
      BY <1>10, <2>2, <2>3, <2>4, <2>5, EffectsElsewhere, ResumeTyped DEF VibeStart
    <2>6. CASE ResumeWorks
      <3>1. Tracks => Tracks'
        BY <1>10, <2>6, StartTracks DEF VibeStart
      <3>2. dsp = "run" /\ dsp' = dsp /\ ~pm_error'
        BY <1>10, <2>2, <2>6 DEF VibeStart, ResumeWorks, AfterResume, ResumeFails, Resumes
      <3> QED BY <1>10, <2>2, <2>3, <2>4, <3>1, <3>2
              DEF VibeStart, EffectsInv, Swaps, Swapping, Resetting
    <2> QED BY <2>5, <2>6
  <1>11. CASE ResetImpossible
    BY <1>11 DEF ResetImpossible, Takes, EffectsInv, Swaps, Disturbed, Resetting, Swapping, Tracks
  <1>12. CASE ResetBegin
    BY <1>12 DEF ResetBegin, Takes, Goes, EffectsInv, Swaps, Disturbed, Resetting, Tracks, Swapping
  <1>13. CASE ResetPulse
    BY <1>13 DEF ResetPulse, Goes, Fails, Faulty, EffectsInv, Swaps, Disturbed, Resetting, Swapping
  <1>14. CASE ResetReady
    BY <1>14 DEF ResetReady, Goes, EffectsInv, Swaps, Disturbed, Resetting, Swapping
  <1>15. CASE ResetDone
    <2> SUFFICES ASSUME setup # "pads", ~Swaps PROVE EffectsInv'
      BY <1>15 DEF ResetDone, EffectsInv, Swaps
    <2>1. ring = <<>> /\ ~plays /\ effects_in_flight' = 0 /\ UNCHANGED <<ring, plays>>
      BY <1>15 DEF ResetDone, EffectsInv
    <2>2. Tracks'
      BY <2>1 DEF Tracks
    <2> QED BY <1>15, <2>1, <2>2 DEF ResetDone, Goes, EffectsInv, Swapping, Resetting
  <1>16. CASE DspHangs
    BY <1>16 DEF DspHangs, EffectsInv, Swaps, Swapping, Resetting
  <1>17. CASE DspComplete
    <2>1. Tracks => Tracks'
      BY <1>17, EndTracks DEF DspComplete
    <2> QED BY <1>17, <2>1 DEF DspComplete, EffectsInv, Swaps, Disturbed, Resetting, Swapping
  <1>18. CASE PadPlay
    BY <1>18 DEF PadPlay, EffectsInv
  <1>19. CASE Interrupt
    <2> SUFFICES ASSUME setup # "pads", ~Swaps PROVE EffectsInv'
      BY <1>19 DEF Interrupt, EffectsInv, Swaps
    <2>1. dsp = "run" /\ ~Configured /\ ~pm_error
      BY <1>19 DEF Interrupt, EffectsInv
    <2>2. CASE ~Disturbed
      <3>1. Tracks
        BY <2>1, <2>2 DEF EffectsInv
      <3>2. Head(ring) = "TRIGGER" => effects_in_flight = 0
        BY <1>19, <3>1 DEF Interrupt, Tracks
      <3>3. reset_event' = reset_event
        BY <1>19, <3>2 DEF Interrupt
      <3>4. Tracks'
        BY <1>19, <3>1, ReadTracks DEF Interrupt
      <3> QED BY <1>19, <2>1, <3>3, <3>4 DEF Interrupt, EffectsInv, Swaps, Swapping, Resetting
    <2>3. CASE Disturbed
      <3>1. Disturbed'
        BY <1>19, <2>3 DEF Interrupt, Disturbed, Resetting
      <3> QED BY <1>19, <2>1, <2>3, <3>1 DEF Interrupt, EffectsInv, Disturbed, Swaps, Swapping
    <2> QED BY <2>2, <2>3
  <1>20. CASE UNCHANGED vars
    BY <1>20, EffectsElsewhere DEF vars, Disturbed, Resetting
  <1> QED BY <1>1, <1>2, <1>3, <1>4, <1>5, <1>6, <1>7, <1>8, <1>9, <1>10, <1>11, <1>12, <1>13,
             <1>14, <1>15, <1>16, <1>17, <1>18, <1>19, <1>20
          DEF Next, Callers, Work, Swappers, Decision

--------------------------------------------------------------------------------
(* The count of resets. *)

Queued == "reset" \in ToSet(queue)
One(b) == IF b THEN 1 ELSE 0

(* The resets that may still be counted: the one under way, the one that is queued, and
   those that threads are about to queue. *)
Pending(t) == decision[t] \in {"again", "queue"}

Outstanding ==
    One(Resetting) + One(Queued \/ Pending("worker")) + One(Pending("caller"))

(* Work is pending at most once. *)
Once == \A i, j \in DOMAIN queue : queue[i] = "reset" /\ queue[j] = "reset" => i = j

(* The worker itself decides once at most, when the resume fails that lets no other one
   succeed; a user decides to reset only when none is known to be under way. *)
LimitInv ==
    setup = "plain" =>
        /\ reset_event # "TRIGGER"
        /\ Once
        /\ worker # "deciding" => decision["worker"] = "none"
        /\ caller # "deciding" => decision["caller"] = "none"
        /\ ~pm_error =>
              /\ worker # "deciding"
              /\ Resetting \/ Queued \/ decision["caller"] = "queue" =>
                    reset_event = "ONGOING" /\ decision["caller"] \in {"none", "queue"}
              /\ Resetting => ~Queued /\ decision["caller"] = "none"
              /\ Queued => decision["caller"] = "none"
        /\ Resetting /\ Queued => reset_event = "ONGOING" /\ decision["caller"] = "none"
        /\ Resetting /\ decision["caller"] = "queue" => reset_event = "ONGOING"
        /\ Queued /\ decision["caller"] = "queue" => reset_event = "ONGOING"
        /\ decision["worker"] # "none" /\ decision["caller"] = "queue" =>
              reset_event = "ONGOING"
        /\ decision["worker"] \in {"restart", "again", "cool"} /\ Queued =>
              reset_event = "ONGOING" /\ decision["caller"] = "none"
        /\ reset_count + Outstanding <= MaxCount + 1

LEMMA QueueOnce ==
    ASSUME TypeOK, Once, NEW w \in Works, Queue(w)
    PROVE  Once'
  <1>1. queue \in Seq(Works)
    BY DEF TypeOK
  <1>2. CASE w \in ToSet(queue)
    BY <1>2 DEF Queue, Once
  <1>3. CASE w \notin ToSet(queue)
    <2>1. /\ Len(queue) \in Nat /\ DOMAIN queue' = 1 .. Len(queue) + 1
          /\ DOMAIN queue = 1 .. Len(queue)
          /\ \A i \in 1 .. Len(queue) : queue'[i] = queue[i]
          /\ queue'[Len(queue) + 1] = w
      BY <1>1, <1>3 DEF Queue
    <2> QED BY <1>3, <2>1 DEF ToSet, Once
  <1> QED BY <1>2, <1>3

LEMMA TakeOnce ==
    ASSUME TypeOK, Once, queue # <<>>
    PROVE  /\ (queue' = Tail(queue)) => Once'
           /\ Head(queue) = "reset" => "reset" \notin ToSet(Tail(queue))
  <1>1. queue \in Seq(Works)
    BY DEF TypeOK
  <1>2. /\ Len(queue) \in Nat \ {0} /\ Head(queue) = queue[1]
        /\ DOMAIN queue = 1 .. Len(queue) /\ DOMAIN Tail(queue) = 1 .. Len(queue) - 1
    BY <1>1
  <1>3. \A i \in 1 .. Len(queue) - 1 : Tail(queue)[i] = queue[i + 1]
    BY <1>1
  <1>4. \A i \in 1 .. Len(queue) - 1 : i + 1 \in DOMAIN queue /\ i + 1 # 1 /\ 1 \in DOMAIN queue
    BY <1>2
  <1>5. Head(queue) = "reset" => "reset" \notin ToSet(Tail(queue))
    BY <1>2, <1>3, <1>4 DEF ToSet, Once
  <1>6. ASSUME queue' = Tail(queue) PROVE Once'
    <2> SUFFICES ASSUME NEW i \in DOMAIN Tail(queue), NEW j \in DOMAIN Tail(queue),
                        Tail(queue)[i] = "reset", Tail(queue)[j] = "reset"
                 PROVE  i = j
      BY <1>6 DEF Once
    <2>1. i + 1 = j + 1
      BY <1>2, <1>3, <1>4 DEF Once
    <2> QED BY <1>2, <2>1
  <1> QED BY <1>5, <1>6

(* What leaves the counts of resets, and those that may still be counted, alone. *)
LEMMA LimitElsewhere ==
    ASSUME LimitInv, UNCHANGED <<setup, reset_event, reset_count, pm_error, decision>>,
           setup = "plain" => Once' /\ (Queued' <=> Queued),
           worker' = worker, caller' = caller \/ "deciding" \notin {caller, caller'}
    PROVE  LimitInv'
  BY DEF LimitInv, Outstanding, Pending, Resetting, Once

(* A thread decides to reset when no reset is known to be under way. *)
LEMMA DecidesOnce ==
    ASSUME setup = "plain", LimitInv
    PROVE  /\ Decided \in {"none", "restart", "again", "cool"}
           /\ Decided # "none" => reset_event # "ONGOING"
           /\ Decided = "again" => reset_count < MaxCount
  BY DEF Decided, LimitInv, Boundary

LEMMA LimitStep == TypeOK /\ EffectsInv /\ LimitInv /\ [Next]_vars => LimitInv'
  <1> SUFFICES ASSUME TypeOK, EffectsInv, LimitInv, [Next]_vars, setup' = "plain"
               PROVE  LimitInv'
    BY DEF LimitInv
  <1>0. setup = "plain"
    BY DEF Next, Callers, Work, Swap, Decision, Access, Playback, Upload, UploadReturns,
           Commit, Conclude, ResetStore, SwapFirmwareStore, Expire, SwapBegin, SwapLoad,
           SwapConfig, SwapResume, SwapEnd, SwapFails, VibeStart, UploadWork, ResetImpossible,
           ResetBegin,
           ResetPulse, ResetReady, ResetDone, DspHangs, DspComplete, PadPlay, Interrupt, vars
  <1>a. /\ reset_count \in Nat /\ MaxCount \in Nat \ {0}
        /\ decision \in [Threads -> Outcomes] /\ pm_error \in BOOLEAN
        /\ reset_event # "TRIGGER" /\ swapper = "idle"
    BY <1>0, ResetAssumption DEF TypeOK, EffectsInv, Swaps
  <1>b. Once
    BY <1>0 DEF LimitInv
  <1> USE <1>0, <1>a DEF line, power, reset, pcs, effects, chip, Resuming
  <1>1. CASE Access
    <2>1. CASE Resumes /\ ResumeAsks
      <3>1. /\ ~pm_error /\ pm_error' /\ caller = "idle" /\ caller' = "deciding"
            /\ worker' = worker /\ decision' = [decision EXCEPT !["caller"] = Decided]
            /\ UNCHANGED <<setup, reset_event, reset_count, queue>>
        BY <1>1, <2>1 DEF Access, AfterResume, Goes, Decides, Resumes, ResumeAsks, ResumeFails
      <3>2. Once' /\ (Queued' <=> Queued)
        BY <1>b, <3>1 DEF Once, Queued
      <3> QED BY <3>1, <3>2, DecidesOnce
              DEF LimitInv, Outstanding, Pending, One, Resetting, Threads, Outcomes
    <2>2. CASE ~(Resumes /\ ResumeAsks)
      <3>1. UNCHANGED <<setup, reset_event, reset_count, pm_error, decision, queue, worker, caller>>
        BY <1>1, <2>2 DEF Access, AfterResume, ResumeAsks, ResumeFails
      <3> QED BY <1>b, <3>1, LimitElsewhere DEF Once, Queued
    <2> QED BY <2>1, <2>2
  <1>2. CASE Playback \/ Upload
    <2>1. Queued' <=> Queued
      BY <1>2, QueueFacts DEF Playback, Upload, Works, Queued
    <2>2. Once'
      BY <1>2, <1>b, QueueOnce DEF Playback, Upload, Works
    <2> QED BY <1>2, <2>1, <2>2, LimitElsewhere DEF Playback, Upload, Goes
  <1>3. CASE UploadReturns
    <2>1. Once' /\ (Queued' <=> Queued)
      BY <1>b, <1>3 DEF UploadReturns, Once, Queued
    <2>2. CASE upload_ret = "error"
      BY <1>3, <2>1, <2>2, DecidesOnce
         DEF UploadReturns, Goes, Decides, LimitInv, Outstanding, Pending, One, Resetting,
             Threads, Outcomes, Swapping
    <2>3. CASE upload_ret # "error"
      BY <1>3, <2>1, <2>3, LimitElsewhere DEF UploadReturns, Goes
    <2> QED BY <2>2, <2>3
  <1>4. CASE ResetStore \/ SwapFirmwareStore \/ ResetImpossible \/ PadPlay
    BY <1>4 DEF ResetStore, SwapFirmwareStore, ResetImpossible, PadPlay, Manual, Swaps
  <1>5. CASE Expire \/ DspHangs \/ DspComplete
    BY <1>b, <1>5, LimitElsewhere DEF Expire, DspHangs, DspComplete, Once, Queued
  <1>6. CASE Interrupt
    <2>1. reset_event' = reset_event
      <3>1. EffectsInv'
        BY EffectsStep
      <3>2. reset_event' # "TRIGGER"
        BY <3>1 DEF EffectsInv, Swaps
      <3> QED BY <1>6, <3>2 DEF Interrupt
    <2> QED BY <1>b, <1>6, <2>1, LimitElsewhere DEF Interrupt, Once, Queued
  <1>7. ASSUME NEW t \in Swappers, Swap(t)
        PROVE  LimitInv'
    <2>1. t = "worker" /\ worker \in Swapping
      BY <1>7 DEF Swap, SwapBegin, SwapLoad, SwapConfig, SwapResume, SwapEnd, SwapFails,
                  Decision, Commit, Conclude, Deciding, Swappers, At, Swapping
    <2>2. UNCHANGED <<setup, reset_count, queue, caller>>
      BY <1>7, <2>1 DEF Swap, SwapBegin, SwapLoad, SwapConfig, SwapResume, SwapEnd, SwapFails,
                        Faulty, Goes, Fails
    <2>3. Once' /\ (Queued' <=> Queued)
      BY <1>b, <2>2 DEF Once, Queued
    <2>4. CASE /\ UNCHANGED <<reset_event, pm_error, decision>>
               /\ worker' \in {"ready", "done"} \cup Swapping
      BY <2>1, <2>2, <2>3, <2>4 DEF LimitInv, Outstanding, Pending, Resetting, Swapping
    <2>5. CASE /\ UNCHANGED <<pm_error, decision>>
               /\ reset_event' = "FAILED" /\ worker' = "idle"
      <3>1. Outstanding' <= Outstanding
        BY <2>1, <2>2, <2>3, <2>5 DEF Outstanding, One, Pending, Resetting, Swapping
      <3>2. Outstanding \in Int /\ Outstanding' \in Int
        BY DEF Outstanding, One
      <3>3. reset_count' + Outstanding' <= MaxCount + 1
        <4>1. reset_count + Outstanding <= MaxCount + 1 /\ reset_count' = reset_count
          BY <2>2 DEF LimitInv
        <4>2. \A m, n, o, q \in Int : m + n <= q /\ o <= n => m + o <= q
          OBVIOUS
        <4>3. reset_count \in Int /\ MaxCount + 1 \in Int
          OBVIOUS
        <4>4. reset_count + Outstanding' <= MaxCount + 1
          BY <3>1, <3>2, <4>1, <4>2, <4>3
        <4> QED BY <4>1, <4>4
      <3>4. Resetting /\ ~Resetting' /\ decision["worker"] = "none"
        BY <2>1, <2>5 DEF LimitInv, Resetting, Swapping
      <3> QED BY <2>2, <2>3, <2>5, <3>3, <3>4 DEF LimitInv
    <2>6. CASE /\ Resumes /\ ResumeAsks /\ Decides(t) /\ UNCHANGED reset_event
               /\ pm_error' /\ worker' = "refused"
      <3>1. Decided = "none" /\ decision["worker"] = "none"
        BY <2>1, <2>6, DecidesOnce DEF LimitInv, Resumes, Resetting, Swapping
      <3>2. decision' = decision
        BY <2>1, <2>6, <3>1 DEF Decides, Threads
      <3> QED BY <2>1, <2>2, <2>3, <2>6, <3>2
              DEF LimitInv, Outstanding, Pending, Resetting, Swapping
    <2>7. CASE SwapResume(t)
      BY <2>1, <2>4, <2>5, <2>6, <2>7 DEF SwapResume, Resumes, ResumeAsks, Goes, Fails, Swapping
    <2>8. CASE ~SwapResume(t)
      BY <1>7, <2>1, <2>4, <2>8 DEF Swap, SwapBegin, SwapLoad, SwapConfig, SwapEnd, SwapFails,
                                    Faulty, Goes, Swapping
    <2> QED BY <2>7, <2>8
  <1>8. ASSUME NEW t \in {"worker", "caller"}, Commit(t)
        PROVE  LimitInv'
    <2>1. Once' /\ (Queued' <=> Queued)
      BY <1>b, <1>8 DEF Commit, Once, Queued
    <2>2. CASE t = "worker"
      BY <1>8, <2>1, <2>2
         DEF Commit, Deciding, At, LimitInv, Outstanding, Pending, One, Resetting, Threads,
             Outcomes, Swapping
    <2>3. CASE t = "caller"
      BY <1>8, <2>1, <2>3
         DEF Commit, Deciding, At, LimitInv, Outstanding, Pending, One, Resetting, Threads,
             Outcomes, Swapping
    <2> QED BY <2>2, <2>3
  <1>9. ASSUME NEW t \in {"worker", "caller"}, Conclude(t)
        PROVE  LimitInv'
    <2>1. Once' /\ (Queued' <=> (Queued \/ decision[t] = "queue"))
      BY <1>b, <1>9, QueueOnce, QueueFacts DEF Conclude, Once, Queued, Works
    <2>2. CASE t = "worker" /\ worker = "deciding"
      BY <1>9, <2>1, <2>2
         DEF Conclude, Deciding, At, Goes, LimitInv, Outstanding, Pending, One, Resetting, Threads,
             Outcomes, Swapping
    <2>4. CASE t = "worker" /\ worker # "deciding"
      BY <1>9, <2>1, <2>4
         DEF Conclude, Deciding, At, Goes, Fails, LimitInv, Outstanding, Pending, One, Resetting,
             Threads, Outcomes, Swapping
    <2>3. CASE t = "caller"
      BY <1>9, <2>1, <2>3
         DEF Conclude, Deciding, At, Goes, Fails, LimitInv, Outstanding, Pending, One, Resetting,
             Threads,
             Outcomes, Swapping
    <2> QED BY <2>2, <2>3, <2>4
  <1>10. CASE VibeStart \/ UploadWork
    <2>1. AfterResume("worker") /\ worker = "idle"
      BY <1>10 DEF VibeStart, UploadWork, Takes
    <2>2. Once' /\ (Queued' <=> Queued)
      BY <1>10, <1>b, TakeFacts, TakeOnce DEF VibeStart, UploadWork, Takes, Queued
    <2>3. UNCHANGED <<setup, reset_event, reset_count>>
      BY <1>10 DEF VibeStart, UploadWork
    <2>4. CASE Resumes /\ ResumeAsks
      <3>1. /\ ~pm_error /\ pm_error' /\ worker' = "deciding" /\ caller' = caller
            /\ decision' = [decision EXCEPT !["worker"] = Decided]
        BY <2>1, <2>4 DEF AfterResume, Goes, Decides, Resumes, ResumeAsks, ResumeFails
      <3> QED BY <2>1, <2>2, <2>3, <3>1, DecidesOnce
              DEF LimitInv, Outstanding, Pending, One, Resetting, Threads, Outcomes, Swapping
    <2>5. CASE ~(Resumes /\ ResumeAsks)
      <3>1. UNCHANGED <<pm_error, decision, worker, caller>>
        BY <2>1, <2>5 DEF AfterResume, ResumeAsks, ResumeFails
      <3> QED BY <2>2, <2>3, <3>1, LimitElsewhere
    <2> QED BY <2>4, <2>5
  <1>11. CASE ResetBegin
    <2>1. Queued /\ queue' = <<>>
      BY <1>11, <1>b, TakeOnce DEF ResetBegin, Takes, Queued, TypeOK, ToSet
    <2>2. Once' /\ ~Queued'
      BY <2>1 DEF Once, Queued, ToSet
    <2> QED BY <1>11, <2>1, <2>2
            DEF ResetBegin, Takes, Goes, LimitInv, Outstanding, Pending, One, Resetting,
                Threads, Outcomes, Swapping
  <1>12. CASE ResetPulse \/ ResetReady
    <2>1. /\ UNCHANGED <<setup, reset_event, reset_count, pm_error, decision, queue, caller>>
          /\ worker \in {"pulse", "ready"} /\ worker' \in {"ready", "swap"}
      BY <1>12 DEF ResetPulse, ResetReady, Goes, Faulty
    <2>2. Once' /\ (Queued' <=> Queued)
      BY <1>b, <2>1 DEF Once, Queued
    <2> QED BY <2>1, <2>2 DEF LimitInv, Outstanding, Pending, Resetting, Swapping
  <1>13. CASE ResetDone
    <2>1. Once' /\ (Queued' <=> Queued)
      BY <1>b, <1>13 DEF ResetDone, Once, Queued
    <2> QED BY <1>13, <2>1
            DEF ResetDone, Goes, LimitInv, Outstanding, Pending, One, Resetting,
                Threads, Outcomes, Swapping
  <1>14. CASE UNCHANGED vars
    BY <1>b, <1>14, LimitElsewhere DEF vars, Once, Queued
  <1> QED BY <1>1, <1>2, <1>3, <1>4, <1>5, <1>6, <1>7, <1>8, <1>9, <1>10, <1>11, <1>12,
             <1>13, <1>14 DEF Next, Callers, Work, Swappers, Decision

(* However many effects are played, whatever the DSP does and whenever it hangs: the count
   of playing effects is right once what the DSP said is read, and the chip is reset no
   more than once beyond the limit before it cools down. *)
THEOREM CountsKept == Spec => []CountsSound
  <1>1. Init => EffectsInv /\ LimitInv
    <2> SUFFICES ASSUME Init PROVE EffectsInv /\ LimitInv
      OBVIOUS
    <2>1. EffectsInv
      BY DEF Init, Start, EffectsInv, Tracks, Swaps, Resetting, Swapping, Configured, Resuming
    <2>2. LimitInv
      <3>1. Once /\ ~Queued
        BY DEF Init, Start, Once, Queued, ToSet
      <3> QED BY <3>1, ResetAssumption DEF Init, Start, LimitInv, Outstanding, Pending, One,
                                           Resetting, Swapping, Resuming, Threads
    <2> QED BY <2>1, <2>2
  <1>2. TypeOK /\ EffectsInv /\ LimitInv /\ [Next]_vars => EffectsInv' /\ LimitInv'
    BY EffectsStep, LimitStep
  <1>3. TypeOK /\ EffectsInv /\ LimitInv => CountsSound
    <2> SUFFICES ASSUME TypeOK, EffectsInv, LimitInv PROVE CountFresh /\ Limited
      BY DEF CountsSound
    <2>1. CountFresh
      BY DEF CountFresh, EffectsInv, Tracks, Disturbed, Resetting, Quiet, Swapping, Configured,
           Resuming
    <2>2. Limited
      BY ResetAssumption DEF Limited, LimitInv, Outstanding, One, TypeOK
    <2> QED BY <2>1, <2>2
  <1> QED BY <1>1, <1>2, <1>3, TypeCorrect, PTL DEF Spec
================================================================================
