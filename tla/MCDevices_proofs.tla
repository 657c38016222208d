---------------------------- MODULE MCDevices_proofs ----------------------------
(***************************************************************************)
(* Proofs about the devices: what the run of MCDevices checks of each      *)
(* component holds for all values of the constants.  The components share  *)
(* nothing, so there is an inductive invariant for each (FirmwareInv of    *)
(* CsDsp, AmpInv of Cs35l41Power, and so on), stated and kept in a section *)
(* of its own; the last section has the invariant of the whole, that the   *)
(* part a behaviour exercises keeps its own, and the theorems.             *)
(***************************************************************************)
EXTENDS MCDevices, Sequences, FiniteSets, SequenceTheorems, TLAPS

--------------------------------------------------------------------------------
(* Drv2624 *)

(* What is stored in a register is a number. *)
LEMMA HapticsStored ==
    ASSUME NEW a \in Haptics!Attributes, NEW v \in Int
    PROVE  Haptics!Stored(a, v) \in Int
  <1>1. v % 256 \in Int /\ v % 2 \in Int /\ ((v \div 256) % 4) * 256 \in Int
    OBVIOUS
  <1>2. /\ Haptics!RtpInput(v) \in Int /\ Haptics!OdClamp(v) \in Int /\ Haptics!Autocal(v) \in Int
        /\ Haptics!OlLraPeriod(v) \in Int /\ Haptics!LraWaveShape(v) \in Int
    BY <1>1 DEF Haptics!RtpInput, Haptics!OdClamp, Haptics!Autocal, Haptics!OlLraPeriod,
         Haptics!LraWaveShape
  <1>3. /\ Haptics!Loop(v) \in Int /\ Haptics!Interval(v) \in Int /\ Haptics!Scale(v) \in Int /\ Haptics!CtrlLoop(v) \in Int
    BY DEF Haptics!Clamp, Haptics!Loop, Haptics!Interval, Haptics!Scale, Haptics!CtrlLoop
  <1> QED BY <1>2, <1>3 DEF Haptics!Stored, Haptics!Attributes

HapticsFlags ==
    /\ vibrator_playing \in BOOLEAN /\ awake \in BOOLEAN /\ vibrator_work \in BOOLEAN
    /\ lp_trigger_effect \in BOOLEAN /\ unanswered \in BOOLEAN

LEMMA HapticsFlagsStep ==
    ASSUME HapticsFlags, [Haptics!Next]_haptics_vars
    PROVE  HapticsFlags'
  <1> USE Zenon DEF HapticsFlags
  <1>1. CASE Haptics!VibratorEnable
    BY <1>1 DEF Haptics!VibratorEnable
  <1>2. CASE Haptics!HapticsStopwork
    BY <1>2 DEF Haptics!HapticsStopwork, Haptics!Stop, Haptics!TimedOut
  <1>3. CASE Haptics!HapticsWork
    BY <1>3 DEF Haptics!HapticsWork
  <1>4. CASE Haptics!HapticsWorkGo
    BY <1>4 DEF Haptics!HapticsWorkGo
  <1>5. CASE Haptics!HapticsWorkEnd
    BY <1>5 DEF Haptics!HapticsWorkEnd
  <1>6. CASE Haptics!ChipInterrupts
    BY <1>6 DEF Haptics!ChipInterrupts, Haptics!IrqHandler
  <1>7. CASE Haptics!VibratorWorkRoutine
    BY <1>7 DEF Haptics!VibratorWorkRoutine, Haptics!TimedOut
  <1>8. CASE Haptics!TriggerCancel
    BY <1>8 DEF Haptics!TriggerCancel
  <1>9. CASE Haptics!TriggerStop
    BY <1>9 DEF Haptics!TriggerStop
  <1>10. CASE Haptics!TriggerStopGo
    BY <1>10 DEF Haptics!TriggerStopGo, Haptics!TimedOut
  <1>11. CASE Haptics!TriggerStopEnd
    BY <1>11 DEF Haptics!TriggerStopEnd
  <1>12. CASE Haptics!TriggerSetup
    BY <1>12 DEF Haptics!TriggerSetup
  <1>13. CASE Haptics!TriggerDisable
    BY <1>13 DEF Haptics!TriggerDisable
  <1>14. CASE Haptics!ModeStore
    BY <1>14 DEF Haptics!ModeStore
  <1>15. CASE Haptics!AttributeStore
    BY <1>15 DEF Haptics!AttributeStore
  <1>16. CASE UNCHANGED haptics_vars
    BY <1>16 DEF haptics_vars
  <1> QED BY <1>1, <1>2, <1>3, <1>4, <1>5, <1>6, <1>7, <1>8, <1>9, <1>10,
       <1>11, <1>12, <1>13, <1>14, <1>15, <1>16
       DEF Haptics!Next

LEMMA PairAppend == \A x, y : Append(<<y>>, x) = <<y, x>>
  <1> SUFFICES ASSUME NEW x, NEW y PROVE Append(<<y>>, x) = <<y, x>>
    OBVIOUS
  <1> DEFINE s == Append(<<y>>, x)  t == <<y, x>>
  <1>1. s \in Seq({x, y}) /\ t \in Seq({x, y})
    OBVIOUS
  <1>2. Len(s) = 2 /\ s[1] = y /\ s[2] = x /\ Len(t) = 2 /\ t[1] = y /\ t[2] = x
    OBVIOUS
  <1>3. Len(s) = Len(t) /\ \A i \in 1 .. Len(s) : s[i] = t[i]
    BY <1>2
  <1> HIDE DEF s, t
  <1>4. \A S : \A a, b \in Seq(S) : Len(a) = Len(b) /\ (\A i \in 1 .. Len(a) : a[i] = b[i]) => a = b
    BY SeqEqual
  <1>5. s = t
    BY <1>1, <1>3, <1>4, Zenon
  <1> QED BY <1>5 DEF s, t

(* The queue: each of the two works is pending once. *)
HapticsQueue ==
    wq \in {<<>>, <<"work">>, <<"stop">>, <<"work", "stop">>, <<"stop", "work">>}

LEMMA HapticsQueueStep ==
    ASSUME HapticsQueue, [Haptics!Next]_haptics_vars
    PROVE  HapticsQueue'
  <1>1. CASE Haptics!VibratorEnable
    <2>1. PICK value \in {"off", "full"} :
             LET work == IF value = "off" THEN "stop" ELSE "work"
             IN  wq' = IF \E i \in DOMAIN wq : wq[i] = work THEN wq ELSE Append(wq, work)
      BY <1>1, Zenon DEF Haptics!VibratorEnable
    <2>2. /\ \E i \in DOMAIN <<"work", "stop">> : <<"work", "stop">>[i] = "work"
          /\ \E i \in DOMAIN <<"work", "stop">> : <<"work", "stop">>[i] = "stop"
          /\ \E i \in DOMAIN <<"stop", "work">> : <<"stop", "work">>[i] = "work"
          /\ \E i \in DOMAIN <<"stop", "work">> : <<"stop", "work">>[i] = "stop"
          /\ \E i \in DOMAIN <<"stop">> : <<"stop">>[i] = "stop"
          /\ \E i \in DOMAIN <<"work">> : <<"work">>[i] = "work"
      <3>1. 1 \in DOMAIN <<"work", "stop">> /\ 2 \in DOMAIN <<"work", "stop">>
        OBVIOUS
      <3>2. 1 \in DOMAIN <<"stop", "work">> /\ 2 \in DOMAIN <<"stop", "work">>
        OBVIOUS
      <3>3. 1 \in DOMAIN <<"stop">> /\ 1 \in DOMAIN <<"work">>
        OBVIOUS
      <3>4. <<"work", "stop">>[1] = "work" /\ <<"work", "stop">>[2] = "stop"
            /\ <<"stop", "work">>[1] = "stop" /\ <<"stop", "work">>[2] = "work"
            /\ <<"stop">>[1] = "stop" /\ <<"work">>[1] = "work"
        OBVIOUS
      <3> QED BY <3>1, <3>2, <3>3, <3>4, Zenon
    <2>3. Append(<<>>, "work") = <<"work">> /\ Append(<<>>, "stop") = <<"stop">>
      OBVIOUS
    <2>4. CASE value = "off"
      BY <2>1, <2>2, <2>3, <2>4, PairAppend, Zenon DEF HapticsQueue
    <2>5. CASE value = "full"
      BY <2>1, <2>2, <2>3, <2>5, PairAppend, Zenon DEF HapticsQueue
    <2> QED BY <2>1, <2>4, <2>5
  <1>2. CASE \/ Haptics!HapticsStopwork \/ Haptics!HapticsWork
    <2>1. wq # <<>> /\ wq' = Tail(wq)
      BY <1>2, Zenon DEF Haptics!HapticsStopwork, Haptics!HapticsWork
    <2>2. \A x : Tail(<<x>>) = <<>>
      OBVIOUS
    <2>3. \A x, y : Tail(<<x, y>>) = <<y>>
      OBVIOUS
    <2> QED BY <2>1, <2>2, <2>3, Zenon DEF HapticsQueue
  <1>3. CASE Haptics!TriggerCancel
    BY <1>3 DEF Haptics!TriggerCancel, HapticsQueue
  <1>4. ASSUME UNCHANGED wq PROVE HapticsQueue'
    BY <1>4 DEF HapticsQueue
  <1>5. \/ Haptics!VibratorEnable \/ Haptics!HapticsStopwork \/ Haptics!HapticsWork \/ Haptics!TriggerCancel \/ UNCHANGED wq
    BY Zenon DEF Haptics!Next, haptics_vars, Haptics!HapticsWorkGo, Haptics!HapticsWorkEnd,
       Haptics!ChipInterrupts, Haptics!VibratorWorkRoutine, Haptics!TriggerStop,
       Haptics!TriggerStopGo, Haptics!TriggerStopEnd, Haptics!TriggerSetup, Haptics!TriggerDisable, Haptics!ModeStore, Haptics!AttributeStore
  <1> QED BY <1>1, <1>2, <1>3, <1>4, <1>5

(* The registers and what the driver keeps beside them. *)
HapticsState ==
    /\ setup \in Setups /\ attr \in Haptics!Attributes
    /\ work_mode \subseteq Haptics!Bits /\ snapshot \subseteq Haptics!Bits
    /\ depth \in Nat /\ depth <= MaxDepth
    /\ wq_pc \in {"idle", "set", "go"} /\ trigger_pc \in {"idle", "stop", "go", "poll", "setup"}
    /\ chip \in Haptics!ChipState
    /\ cache \in Haptics!CacheState
    /\ wanted \in Int /\ brightness \in {"off", "full"}

LEMMA HapticsStopped ==
    ASSUME NEW c \in Haptics!CacheState, NEW k \in Haptics!ChipState, NEW k1 \in Haptics!Stopped(c, k)
    PROVE  /\ k1 \in Haptics!ChipState /\ (k1.go => Haptics!TimedOut(k1))
           /\ Haptics!ResetChip(c) \in Haptics!ChipState /\ ~Haptics!ResetChip(c).go
           /\ Haptics!Register(attr) = "SETTING" /\ c.setting = k.setting => k1.setting = k.setting
           /\ Haptics!Register(attr) = "SETTING" => Haptics!ResetChip(c).setting = c.setting
  <1>1. /\ Haptics!ResetChip(c) \in Haptics!ChipState /\ ~Haptics!ResetChip(c).go
        /\ Haptics!Register(attr) = "SETTING" => Haptics!ResetChip(c).setting = c.setting
    <2> DEFINE given == IF Haptics!Register(attr) = "SETTING" THEN c.setting ELSE -10
    <2>1. Haptics!RegDefaults \in Haptics!ChipState /\ ~Haptics!RegDefaults.go
      BY DEF Haptics!RegDefaults, Haptics!ChipState, Haptics!Modes
    <2>0. Haptics!ResetChip(c) = [Haptics!RegDefaults EXCEPT !.mode = c.mode, !.pin = c.pin, !.mask = c.mask,
                                             !.setting = given]
      BY DEF Haptics!ResetChip
    <2>2. c.mode \in Haptics!Modes /\ c.pin \in {"int", "level", "pulse"} /\ c.mask \in BOOLEAN
      BY DEF Haptics!CacheState
    <2>3. given \in Int /\ (Haptics!Register(attr) = "SETTING" => given = c.setting)
      BY DEF Haptics!CacheState
    <2> HIDE DEF given
    <2> QED BY <2>0, <2>1, <2>2, <2>3 DEF Haptics!ChipState
  <1>2. /\ [k EXCEPT !.go = FALSE] \in Haptics!ChipState /\ ~[k EXCEPT !.go = FALSE].go
        /\ [k EXCEPT !.go = FALSE].setting = k.setting
    BY DEF Haptics!ChipState
  <1>3. k1 = [k EXCEPT !.go = FALSE] \/ k1 = Haptics!ResetChip(c) \/ (k1 = k /\ Haptics!Faulty)
    BY Zenon DEF Haptics!Stopped
  <1> QED BY <1>1, <1>2, <1>3, Zenon DEF Haptics!TimedOut

LEMMA HapticsMasked ==
    ASSUME HapticsState
    PROVE  /\ Haptics!Masked \in Haptics!ChipState /\ [cache EXCEPT !.mask = TRUE] \in Haptics!CacheState
           /\ [cache EXCEPT !.mask = FALSE] \in Haptics!CacheState
           /\ Haptics!Masked.setting = chip.setting /\ Haptics!Masked.go = chip.go
           /\ [cache EXCEPT !.mask = TRUE].setting = cache.setting
           /\ [cache EXCEPT !.mask = FALSE].setting = cache.setting
  BY DEF HapticsState, Haptics!ChipState, Haptics!CacheState, Haptics!Masked

LEMMA HapticsStop ==
    ASSUME HapticsState, MaxDepth \in Nat \ {0}, Haptics!Stop
    PROVE  /\ depth' \in Nat /\ depth' <= MaxDepth /\ work_mode' \subseteq Haptics!Bits
           /\ chip' \in Haptics!ChipState
           /\ cache' \in Haptics!CacheState
           /\ \/ chip'.go => unanswered'
              \/ UNCHANGED <<chip, vibrator_playing, awake, unanswered>>
           /\ Haptics!Register(attr) = "SETTING" /\ cache.setting = chip.setting =>
                 cache'.setting = chip.setting /\ chip'.setting = chip.setting
  <1>1. CASE Haptics!Stops
    <2>1. /\ depth' = Haptics!DisableIrq(depth) /\ cache' = [cache EXCEPT !.mask = TRUE] /\ work_mode' = {}
          /\ chip' \in Haptics!Stopped(cache', Haptics!Masked)
          /\ unanswered' = Haptics!TimedOut(chip')
      BY <1>1, Zenon DEF Haptics!Stop
    <2>2. cache' \in Haptics!CacheState /\ cache'.setting = cache.setting
      BY <2>1, HapticsMasked
    <2>3. /\ chip' \in Haptics!ChipState /\ (chip'.go => unanswered')
          /\ Haptics!Register(attr) = "SETTING" /\ cache.setting = chip.setting => chip'.setting = chip.setting
      <3>1. Haptics!Masked \in Haptics!ChipState /\ Haptics!Masked.setting = chip.setting
        BY HapticsMasked, Zenon
      <3>2. /\ chip' \in Haptics!ChipState /\ (chip'.go => Haptics!TimedOut(chip'))
            /\ Haptics!Register(attr) = "SETTING" /\ cache'.setting = Haptics!Masked.setting
                  => chip'.setting = Haptics!Masked.setting
        BY <2>1, <2>2, <3>1, HapticsStopped, Zenon
      <3> QED BY <2>1, <2>2, <3>1, <3>2, Zenon
    <2>4. depth' \in Nat /\ depth' <= MaxDepth
      BY <2>1 DEF HapticsState, Haptics!DisableIrq
    <2> QED BY <2>1, <2>2, <2>3, <2>4
  <1>2. CASE ~Haptics!Stops
    <2>1. UNCHANGED <<depth, cache, chip, work_mode, vibrator_playing, awake, unanswered>>
      BY <1>2, Zenon DEF Haptics!Stop
    <2> QED BY <2>1 DEF HapticsState
  <1> QED BY <1>1, <1>2

(* A register's cache has what the chip has, which is what was stored: whatever resets it. *)
HapticsKept == attr # "autocal" => cache.setting = wanted /\ chip.setting = wanted

(* A start that holds the lock plays, and a trigger that has stopped the motor finds it at rest
   at its end, unless the two crossed. *)
HapticsCrossed ==
    /\ wq_pc = "set" => (vibrator_playing /\ awake) \/ unanswered
    /\ trigger_pc = "poll" => ~chip.go \/ unanswered \/ wq_pc = "set"

LEMMA HapticsSafeStep ==
    ASSUME DevicesAssumption, HapticsState, Haptics!AwakeWhileDriving, HapticsKept, HapticsCrossed,
           [Haptics!Next]_haptics_vars
    PROVE  HapticsState' /\ Haptics!AwakeWhileDriving' /\ HapticsKept' /\ HapticsCrossed'
  <1>0. MaxDepth \in Nat \ {0} /\ {-2, 1, 300} \subseteq Int
    BY DEF DevicesAssumption, Haptics!DrvAssumption
  <1>r. Haptics!Register(attr) = "SETTING" <=> attr # "autocal"
    BY DEF Haptics!Register
  <1>d. \A d \in Nat : d <= MaxDepth => /\ Haptics!DisableIrq(d) \in Nat /\ Haptics!DisableIrq(d) <= MaxDepth
                                       /\ Haptics!EnableIrq(d) \in Nat /\ Haptics!EnableIrq(d) <= MaxDepth
    BY <1>0 DEF Haptics!DisableIrq, Haptics!EnableIrq
  <1> USE DEF HapticsCrossed
  <1>1. CASE Haptics!VibratorEnable \/ Haptics!HapticsWorkEnd \/ Haptics!TriggerCancel
    BY <1>1 DEF Haptics!VibratorEnable, Haptics!HapticsWorkEnd, Haptics!TriggerCancel,
         HapticsState, Haptics!AwakeWhileDriving,
                HapticsKept, Haptics!Bits
  <1>2. CASE Haptics!HapticsStopwork
    <2>1. Haptics!Stop /\ wq_pc = "idle"
          /\ UNCHANGED <<setup, attr, snapshot, wq_pc, trigger_pc, wanted, brightness>>
      BY <1>2 DEF Haptics!HapticsStopwork, Haptics!Unlocked
    <2> QED BY <1>0, <1>r, <2>1, HapticsStop DEF HapticsState, Haptics!AwakeWhileDriving,
         HapticsKept
  <1>3. CASE Haptics!HapticsWork
    <2>1. PICK k \in (IF Haptics!Stops THEN Haptics!Stopped([cache EXCEPT !.mask = TRUE], Haptics!Masked)
                      ELSE {chip}) :
            chip' = [k EXCEPT !.mask = FALSE]
      BY <1>3, Zenon DEF Haptics!HapticsWork
    <2>2. /\ depth' = Haptics!EnableIrq(IF Haptics!Stops THEN Haptics!DisableIrq(depth) ELSE depth)
          /\ cache' = [cache EXCEPT !.mask = FALSE]
          /\ work_mode' = (IF Haptics!Stops THEN {} ELSE work_mode)
          /\ vibrator_playing' = TRUE /\ awake' = TRUE /\ wq_pc' = "set"
          /\ UNCHANGED <<setup, attr, snapshot, trigger_pc, wanted, brightness>>
      BY <1>3, Zenon DEF Haptics!HapticsWork
    <2>3. k \in Haptics!ChipState /\ (attr # "autocal" /\ cache.setting = chip.setting => k.setting = chip.setting)
      <3>1. CASE Haptics!Stops
        <4> DEFINE c == [cache EXCEPT !.mask = TRUE]
        <4>1. k \in Haptics!Stopped(c, Haptics!Masked) /\ c \in Haptics!CacheState
              /\ c.setting = cache.setting
          BY <2>1, <3>1, HapticsMasked
        <4> HIDE DEF c
        <4> QED BY <1>r, <4>1, HapticsMasked, HapticsStopped
      <3>2. CASE ~Haptics!Stops
        BY <2>1, <3>2 DEF HapticsState
      <3> QED BY <3>1, <3>2
    <2>4. chip' \in Haptics!ChipState /\ chip'.setting = k.setting
      BY <2>1, <2>3 DEF Haptics!ChipState
    <2>5. depth' \in Nat /\ depth' <= MaxDepth /\ work_mode' \subseteq Haptics!Bits
      BY <1>d, <2>2 DEF HapticsState
    <2>6. cache' \in Haptics!CacheState /\ cache'.setting = cache.setting
      BY <2>2, HapticsMasked
    <2> QED BY <2>2, <2>3, <2>4, <2>5, <2>6 DEF HapticsState, Haptics!AwakeWhileDriving, HapticsKept
  <1>4. CASE Haptics!HapticsWorkGo
    <2>1. /\ wq_pc = "set" /\ UNCHANGED <<setup, attr, work_mode, trigger_pc, wanted, brightness>>
      BY <1>4, Zenon DEF Haptics!HapticsWorkGo
    <2>2. CASE /\ chip' = [chip EXCEPT !.go = TRUE]
               /\ unanswered' = (unanswered \/ trigger_pc = "poll")
               /\ snapshot' = work_mode /\ wq_pc' = "go"
               /\ UNCHANGED <<depth, cache, vibrator_playing, awake>>
      <3>1. chip' \in Haptics!ChipState /\ chip'.setting = chip.setting
        BY <2>2 DEF HapticsState, Haptics!ChipState
      <3> QED BY <2>1, <2>2, <3>1 DEF HapticsState, Haptics!AwakeWhileDriving, HapticsKept
    <2>3. CASE /\ chip' = [Haptics!ResetChip(cache) EXCEPT !.mask = TRUE]
               /\ cache' = [cache EXCEPT !.mask = TRUE] /\ depth' = Haptics!DisableIrq(depth)
               /\ vibrator_playing' = FALSE /\ awake' = FALSE /\ unanswered' = FALSE
               /\ wq_pc' = "idle" /\ UNCHANGED snapshot
      <3>1. [chip EXCEPT !.go = FALSE] \in Haptics!Stopped(cache, chip)
            /\ cache \in Haptics!CacheState /\ chip \in Haptics!ChipState
        BY DEF Haptics!Stopped, HapticsState
      <3>2. Haptics!ResetChip(cache) \in Haptics!ChipState /\ ~Haptics!ResetChip(cache).go
            /\ (attr # "autocal" => Haptics!ResetChip(cache).setting = cache.setting)
        BY <1>r, <3>1, HapticsStopped
      <3>3. chip' \in Haptics!ChipState /\ ~chip'.go
            /\ (attr # "autocal" => chip'.setting = cache.setting)
        BY <2>3, <3>2 DEF Haptics!ChipState
      <3>4. cache' \in Haptics!CacheState /\ cache'.setting = cache.setting
        BY <2>3, HapticsMasked
      <3>5. depth' \in Nat /\ depth' <= MaxDepth
        BY <1>d, <2>3 DEF HapticsState
      <3> QED BY <2>1, <2>3, <3>3, <3>4, <3>5 DEF HapticsState, Haptics!AwakeWhileDriving, HapticsKept
    <2> QED BY <1>4, <2>2, <2>3, Zenon DEF Haptics!HapticsWorkGo
  <1>10. CASE Haptics!TriggerStop
    <2>1. /\ trigger_pc = "stop" /\ trigger_pc' \in {"go", "setup", "idle"}
          /\ UNCHANGED <<setup, attr, vibrator_playing, work_mode, snapshot, awake, wq_pc, wanted,
                          brightness, unanswered>>
          /\ \/ /\ depth' = Haptics!DisableIrq(depth)
                /\ cache' = [cache EXCEPT !.mask = TRUE] /\ chip' = Haptics!Masked
             \/ UNCHANGED <<depth, cache, chip>>
      BY <1>10 DEF Haptics!TriggerStop
    <2>2. /\ chip' \in Haptics!ChipState /\ chip'.setting = chip.setting /\ chip'.go = chip.go
          /\ cache' \in Haptics!CacheState /\ cache'.setting = cache.setting
          /\ depth' \in Nat /\ depth' <= MaxDepth
      BY <1>d, <2>1, HapticsMasked DEF HapticsState
    <2> QED BY <2>1, <2>2 DEF HapticsState, Haptics!AwakeWhileDriving, HapticsKept
  <1>11. CASE Haptics!TriggerStopGo
    <2>1. /\ chip' \in Haptics!Stopped(cache, chip)
          /\ unanswered' = (unanswered \/ Haptics!TimedOut(chip')) /\ trigger_pc' = "poll"
          /\ UNCHANGED <<setup, attr, vibrator_playing, work_mode, snapshot, awake, depth, wq_pc,
                          cache, wanted, brightness>>
      BY <1>11, Zenon DEF Haptics!TriggerStopGo
    <2>2. /\ chip' \in Haptics!ChipState /\ (chip'.go => unanswered')
          /\ (attr # "autocal" /\ cache.setting = chip.setting => chip'.setting = chip.setting)
      BY <1>r, <2>1, HapticsStopped DEF HapticsState
    <2> QED BY <2>1, <2>2 DEF HapticsState, Haptics!AwakeWhileDriving, HapticsKept
  <1>12. CASE Haptics!TriggerStopEnd
    BY <1>12 DEF Haptics!TriggerStopEnd, HapticsState, Haptics!AwakeWhileDriving, HapticsKept,
         Haptics!Bits
  <1>13. CASE Haptics!ChipInterrupts
    <2>1. PICK done \in BOOLEAN : chip' = [chip EXCEPT !.go = ~done]
      BY <1>13, Zenon DEF Haptics!ChipInterrupts
    <2>2. /\ chip' \in Haptics!ChipState /\ chip'.setting = chip.setting /\ chip.go
      BY <1>13, <2>1 DEF Haptics!ChipInterrupts, HapticsState, Haptics!ChipState
    <2>3. work_mode' \in {work_mode, work_mode \cup {"WORK_IRQ"}}
      BY <1>13, Zenon DEF Haptics!ChipInterrupts, Haptics!IrqHandler
    <2> QED BY <1>13, <2>2, <2>3 DEF Haptics!ChipInterrupts, HapticsState,
         Haptics!AwakeWhileDriving, HapticsKept, Haptics!Bits
  <1>5. CASE Haptics!VibratorWorkRoutine
    <2> DEFINE pending == "WORK_IRQ" \in work_mode
               stops == "WORK_VIBRATOR" \in work_mode /\ vibrator_playing /\ ~Haptics!Ignored
               once == IF pending THEN Haptics!DisableIrq(depth) ELSE depth
               masked == IF pending THEN Haptics!Masked ELSE chip
    <2>0. Haptics!Status = {}
      BY DEF Haptics!Status, Haptics!Volatile
    <2>1. /\ depth' = IF stops THEN Haptics!DisableIrq(once) ELSE once
          /\ cache' = [cache EXCEPT !.mask = @ \/ pending \/ stops]
          /\ chip' \in IF stops THEN Haptics!Stopped(cache', Haptics!Masked) ELSE {masked}
          /\ unanswered' = IF stops THEN Haptics!TimedOut(chip') ELSE unanswered
          /\ ~stops => (vibrator_playing => vibrator_playing') /\ (awake => awake')
          /\ work_mode' = {} /\ UNCHANGED <<setup, attr, snapshot, wq_pc, trigger_pc, wanted, brightness>>
          /\ wq_pc = "idle"
      BY <1>5, <2>0 DEF Haptics!VibratorWorkRoutine, Haptics!Unlocked
    <2>2. masked \in Haptics!ChipState /\ masked.setting = chip.setting /\ masked.go = chip.go
      BY HapticsMasked DEF HapticsState
    <2>3. cache' \in Haptics!CacheState /\ cache'.setting = cache.setting
      BY <2>1 DEF HapticsState, Haptics!CacheState
    <2>4. depth' \in Nat /\ depth' <= MaxDepth
      BY <1>d, <2>1 DEF HapticsState
    <2>5. CASE stops
      <3>1. chip' \in Haptics!Stopped(cache', Haptics!Masked) /\ unanswered' = Haptics!TimedOut(chip')
        BY <2>1, <2>5
      <3> HIDE DEF masked, stops
      <3>2. /\ chip' \in Haptics!ChipState /\ (chip'.go => unanswered')
            /\ attr # "autocal" /\ cache.setting = chip.setting => chip'.setting = chip.setting
        BY <1>r, <2>3, <3>1, HapticsMasked, HapticsStopped
      <3> QED BY <2>1, <2>3, <2>4, <3>2 DEF HapticsState, Haptics!AwakeWhileDriving, HapticsKept
    <2>6. CASE ~stops
      <3>1. chip' = masked /\ unanswered' = unanswered
        BY <2>1, <2>6
      <3> HIDE DEF masked, stops
      <3> QED BY <2>1, <2>2, <2>3, <2>4, <2>6, <3>1 DEF HapticsState,
           Haptics!AwakeWhileDriving, HapticsKept
    <2> QED BY <2>5, <2>6
  <1>6. CASE Haptics!TriggerSetup
    <2> DEFINE preset == attr \in {"scale", "ctrl_loop"}
               given(v) == IF preset THEN 0 ELSE v
    <2>1. /\ cache' = [cache EXCEPT !.mode = "waveform", !.pin = "pulse", !.setting = given(cache.setting)]
          /\ chip' = [chip EXCEPT !.mode = "waveform", !.pin = "pulse", !.setting = given(chip.setting)]
          /\ wanted' = given(wanted) /\ trigger_pc' = "idle"
          /\ UNCHANGED <<setup, attr, vibrator_playing, work_mode, snapshot, awake, depth, wq_pc,
                          brightness, unanswered>>
      BY <1>6 DEF Haptics!TriggerSetup
    <2>2. cache.setting \in Int /\ chip.setting \in Int /\ wanted \in Int
      BY DEF HapticsState, Haptics!CacheState, Haptics!ChipState
    <2>3. given(cache.setting) \in Int /\ given(chip.setting) \in Int /\ given(wanted) \in Int
      BY <2>2
    <2>4. HapticsKept => (attr # "autocal" => given(cache.setting) = given(wanted) /\ given(chip.setting) = given(wanted))
      BY DEF HapticsKept
    <2> HIDE DEF given
    <2>5. /\ cache' \in Haptics!CacheState /\ cache'.setting = given(cache.setting)
          /\ chip' \in Haptics!ChipState /\ chip'.setting = given(chip.setting) /\ chip'.go = chip.go
      BY <2>1, <2>3 DEF HapticsState, Haptics!CacheState, Haptics!ChipState, Haptics!Modes
    <2> QED BY <2>1, <2>3, <2>4, <2>5 DEF HapticsState, Haptics!AwakeWhileDriving, HapticsKept
  <1>7. CASE Haptics!TriggerDisable \/ Haptics!ModeStore
    BY <1>7 DEF Haptics!TriggerDisable, Haptics!ModeStore, HapticsState,
         Haptics!AwakeWhileDriving, HapticsKept, Haptics!ChipState, Haptics!CacheState,
         Haptics!Modes
  <1>8. CASE Haptics!AttributeStore
    BY <1>0, <1>r, <1>8, HapticsStored DEF Haptics!AttributeStore, HapticsState,
         Haptics!AwakeWhileDriving, HapticsKept, Haptics!ChipState, Haptics!CacheState
  <1>9. CASE UNCHANGED haptics_vars
    BY <1>9 DEF haptics_vars, HapticsState, Haptics!AwakeWhileDriving, HapticsKept
  <1> QED BY <1>1, <1>2, <1>3, <1>4, <1>5, <1>6, <1>7, <1>8, <1>9, <1>10, <1>11, <1>12, <1>13
          DEF Haptics!Next

(* The wake lock is held while the motor runs, and settings are kept. *)
HapticsInv ==
    /\ HapticsFlags /\ HapticsQueue /\ HapticsState /\ Haptics!AwakeWhileDriving /\ HapticsKept
    /\ HapticsCrossed

LEMMA HapticsInit ==
    ASSUME Haptics!Init
    PROVE  HapticsInv
  <1>1. HapticsFlags
    BY Zenon DEF Haptics!Init, HapticsFlags
  <1>2. HapticsState
    <2>1. MaxDepth \in Nat \ {0}
      BY DevicesAssumption DEF DevicesAssumption, Haptics!DrvAssumption
    <2>2. attr \in Haptics!Attributes
      BY DEF Haptics!Init, Haptics!Attributes
    <2> QED BY <2>1, <2>2 DEF Haptics!Init, HapticsState, Haptics!ChipState,
         Haptics!CacheState, Haptics!Configured, Haptics!Modes
  <1> QED BY <1>1, <1>2 DEF Haptics!Init, HapticsInv, HapticsQueue, Haptics!AwakeWhileDriving,
       HapticsKept, HapticsCrossed, Haptics!Configured

LEMMA HapticsStep ==
    ASSUME HapticsInv, [Haptics!Next]_haptics_vars
    PROVE  HapticsInv'
  BY DevicesAssumption, HapticsFlagsStep, HapticsQueueStep, HapticsSafeStep,
       Zenon DEF HapticsInv

LEMMA HapticsSafe ==
    ASSUME HapticsInv
    PROVE  Haptics!TypeOK /\ Haptics!AwakeWhileDriving /\ Haptics!SettingKept
  BY Zenon DEF HapticsInv, HapticsFlags, HapticsQueue, HapticsState, HapticsKept,
       Haptics!TypeOK, Haptics!SettingKept

--------------------------------------------------------------------------------
(* Audiometrics *)

(* Each group has counters of its own.  (Where steps below say that Counters is unchanged, they
   say it of its primed form.) *)
LEMMA MetricsGroups ==
    ASSUME group \in DOMAIN Metrics!Groups
    PROVE  /\ group = "call" => Metrics!Counters = {"voice_call_count", "voip_call_count"}
           /\ group = "ams" => Metrics!Counters = {"ams_count", "cs_count"}
           /\ "dsp_usage_duration" \in Metrics!Counters => group = "record"
           /\ group = "offload" => Metrics!Counters = {}
  BY DEF Metrics!Groups, Metrics!Counters

(* A show adds what was held to what was reported, as long as that was all added. *)
LEMMA MetricsTold ==
    ASSUME MaxAdded \in Nat, Metrics!TypeOK, NEW c \in Metrics!Counters
    PROVE  /\ Metrics!Told(c) \in Nat
           /\ held[c] + reported[c] <= added[c] => Metrics!Told(c) = held[c] + reported[c]
  <1>1. \A a, b \in Int : Metrics!Min({a, b}) = IF a <= b THEN a ELSE b
    BY DEF Metrics!Min
  <1>2. /\ held[c] \in Nat /\ reported[c] \in Nat /\ added[c] \in Nat /\ added[c] <= MaxAdded
    BY DEF Metrics!TypeOK
  <1> QED BY <1>1, <1>2 DEF Metrics!Told

(* The counters: calls alone are read, added to and cleared step by step. *)
MetricsCounters ==
    /\ group \in DOMAIN Metrics!Groups
    /\ held \in [Metrics!Counters -> Nat] /\ reported \in [Metrics!Counters -> Nat]
    /\ added \in [Metrics!Counters -> 0 .. MaxAdded]
    /\ adder \in [Adders -> Int]
    /\ spilled \subseteq Metrics!Counters /\ clearing \subseteq Metrics!Counters
    /\ group # "call" => clearing = {} /\ \A a \in Adders : adder[a] = -1
    /\ Metrics!ReportedOnce

(* The table of offload effects. *)
MetricsTable ==
    /\ effect_uuid \in [Metrics!Slots -> Effects \cup {"none"}] /\ owner \in [Metrics!Slots -> Effects \cup {"none"}]
    /\ effect_seconds \in [Metrics!Slots -> 0 .. MaxAdded]
    /\ offload_effects_count \in 0 .. MaxEffects
    /\ Metrics!OffloadPaired

LEMMA MetricsIncrease ==
    ASSUME MetricsCounters, NEW counters, Metrics!Increase(counters)
    PROVE  MetricsCounters'
  <1>0. MaxAdded \in Nat
    BY DevicesAssumption DEF DevicesAssumption, Metrics!MetricsAssumption
  <1>1. UNCHANGED <<group, reported, spilled, adder, clearing, Metrics!Counters>>
    BY DEF Metrics!Increase, Metrics!Counters
  <1>2. \A c \in Metrics!Counters : held[c] \in Nat /\ reported[c] \in Nat /\ added[c] \in Nat /\ added[c] <= MaxAdded
    BY DEF MetricsCounters
  <1>3. ASSUME NEW c \in Metrics!Counters
        PROVE  \/ held'[c] = held[c] + 1 /\ added'[c] = added[c] + 1 /\ added[c] < MaxAdded
               \/ held'[c] = held[c] /\ added'[c] = added[c]
    <2>1. held'[c] = IF c \in counters THEN held[c] + 1 ELSE held[c]
      BY Zenon DEF Metrics!Increase
    <2>2. added'[c] = IF c \in counters THEN added[c] + 1 ELSE added[c]
      BY Zenon DEF Metrics!Increase
    <2>3. c \in counters => added[c] < MaxAdded
      BY Zenon DEF Metrics!Increase
    <2> QED BY <2>1, <2>2, <2>3
  <1>4. held' \in [Metrics!Counters -> Nat]
    BY <1>2 DEF Metrics!Increase
  <1>5. added' \in [Metrics!Counters -> 0 .. MaxAdded]
    <2>1. \A c \in Metrics!Counters : (IF c \in counters THEN added[c] + 1 ELSE added[c]) \in 0 .. MaxAdded
      BY <1>0, <1>2 DEF Metrics!Increase
    <2> QED BY <2>1 DEF Metrics!Increase
  <1>6. Metrics!ReportedOnce'
    BY <1>1, <1>2, <1>3 DEF MetricsCounters, Metrics!ReportedOnce
  <1> QED BY <1>1, <1>4, <1>5, <1>6 DEF MetricsCounters

(* Counts that are set, or a feature that does not exist. *)
LEMMA MetricsSet ==
    ASSUME MetricsCounters, Metrics!Set
    PROVE  MetricsCounters'
  <1>0. MaxAdded \in Nat
    BY DevicesAssumption DEF DevicesAssumption, Metrics!MetricsAssumption
  <1>1. UNCHANGED <<group, reported, spilled, adder, clearing, Metrics!Counters>>
    BY DEF Metrics!Set, Metrics!Counters
  <1>2. \A c \in Metrics!Counters :
            reported[c] \in Nat /\ held'[c] \in Nat /\ reported[c] + held'[c] \in 0 .. MaxAdded
    BY <1>0 DEF Metrics!Set, MetricsCounters
  <1>3. /\ held' \in [Metrics!Counters -> Nat] /\ added' \in [Metrics!Counters -> 0 .. MaxAdded]
        /\ \A c \in Metrics!Counters : added'[c] = reported[c] + held'[c]
    BY <1>0, <1>2 DEF Metrics!Set
  <1>4. Metrics!ReportedOnce'
    BY <1>1, <1>2, <1>3 DEF Metrics!ReportedOnce
  <1> QED BY <1>1, <1>3, <1>4 DEF MetricsCounters

LEMMA MetricsSpill ==
    ASSUME MetricsCounters, NEW f, Metrics!Spill(f)
    PROVE  MetricsCounters'
  <1>1. UNCHANGED <<group, added, reported, adder, clearing, Metrics!Counters>>
    BY DEF Metrics!Spill, Metrics!Counters
  <1>2. held' = [c \in Metrics!Counters |-> held[c] + (IF c = Metrics!CountCell(f) THEN 1 ELSE 0)
                                                   + (IF c = Metrics!DurationCell(f) THEN 1 ELSE 0)]
        /\ spilled' = spilled \cup ({Metrics!CountCell(f), Metrics!DurationCell(f)} \cap Metrics!Counters)
    BY DEF Metrics!Spill
  <1>3. \A c \in Metrics!Counters :
            /\ held'[c] \in Nat
            /\ c \notin spilled' => c \notin spilled /\ held'[c] = held[c]
    BY <1>2 DEF MetricsCounters
  <1>4. held' \in [Metrics!Counters -> Nat] /\ spilled' \subseteq Metrics!Counters
    BY <1>2, <1>3 DEF MetricsCounters
  <1>5. Metrics!ReportedOnce'
    BY <1>1, <1>3 DEF MetricsCounters, Metrics!ReportedOnce
  <1> QED BY <1>1, <1>4, <1>5 DEF MetricsCounters

LEMMA MetricsShow ==
    ASSUME MetricsCounters, Metrics!TypeOK, NEW counters, NEW cleared, Metrics!Show(counters, cleared),
           counters = cleared \/ group = "record"
    PROVE  MetricsCounters'
  <1>0. MaxAdded \in Nat
    BY DevicesAssumption DEF DevicesAssumption, Metrics!MetricsAssumption
  <1>1. UNCHANGED <<group, added, spilled, adder, clearing, Metrics!Counters>>
    BY DEF Metrics!Show, Metrics!Counters
  <1>2. \A c \in Metrics!Counters : held[c] \in Nat /\ reported[c] \in Nat /\ added[c] \in Nat /\ Metrics!Told(c) \in Nat
    BY <1>0, MetricsTold DEF MetricsCounters
  <1>3. held' \in [Metrics!Counters -> Nat] /\ reported' \in [Metrics!Counters -> Nat]
    BY <1>2 DEF Metrics!Show
  <1>4. Metrics!ReportedOnce'
    <2> SUFFICES ASSUME group \notin {"record", "call"}, NEW c \in Metrics!Counters, c \notin spilled
                 PROVE  IF c = "ams_count" THEN held'[c] + reported'[c] <= added[c]
                        ELSE held'[c] + reported'[c] = added[c]
      BY <1>1 DEF Metrics!ReportedOnce
    <2>1. IF c = "ams_count" THEN held[c] + reported[c] <= added[c]
          ELSE held[c] + reported[c] = added[c]
      BY DEF MetricsCounters, Metrics!ReportedOnce
    <2>2. Metrics!Told(c) = held[c] + reported[c]
      BY <1>0, <1>2, <2>1, MetricsTold
    <2>3. \/ c \in counters /\ held'[c] = 0 /\ reported'[c] = Metrics!Told(c)
          \/ c \notin counters /\ held'[c] = held[c] /\ reported'[c] = reported[c]
      BY DEF Metrics!Show
    <2> QED BY <1>2, <2>1, <2>2, <2>3
  <1> QED BY <1>1, <1>3, <1>4 DEF MetricsCounters

(* The rate. *)
LEMMA MetricsRate ==
    ASSUME MetricsCounters, Metrics!TypeOK, Metrics!AmsRateReadOnce
    PROVE  MetricsCounters'
  <1>0. MaxAdded \in Nat
    BY DevicesAssumption DEF DevicesAssumption, Metrics!MetricsAssumption
  <1>1. group = "ams" /\ UNCHANGED <<group, added, spilled, adder, clearing, Metrics!Counters>>
    BY DEF Metrics!AmsRateReadOnce, Metrics!Counters
  <1>2. Metrics!Counters = {"ams_count", "cs_count"}
    BY <1>1, MetricsGroups DEF MetricsCounters
  <1>3. \A c \in Metrics!Counters : held[c] \in Nat /\ reported[c] \in Nat /\ added[c] \in Nat /\ Metrics!Told(c) \in Nat
    BY <1>0, MetricsTold DEF MetricsCounters
  <1> DEFINE least == Metrics!Min({held["ams_count"], held["cs_count"]})
  <1>4. least \in Nat /\ least <= held["ams_count"]
    <2>1. \A a, b \in Int : Metrics!Min({a, b}) = IF a <= b THEN a ELSE b
      BY DEF Metrics!Min
    <2>2. held["ams_count"] \in Nat /\ held["cs_count"] \in Nat
      BY <1>2, <1>3
    <2> QED BY <2>1, <2>2
  <1>5. /\ reported' = [c \in Metrics!Counters |-> IF c = "cs_count" THEN Metrics!Told(c) ELSE reported[c] + least]
        /\ held' = [c \in Metrics!Counters |-> 0]
    BY DEF Metrics!AmsRateReadOnce
  <1> HIDE DEF least
  <1>6. held' \in [Metrics!Counters -> Nat] /\ reported' \in [Metrics!Counters -> Nat]
    BY <1>3, <1>4, <1>5
  <1>7. Metrics!ReportedOnce'
    <2> SUFFICES ASSUME NEW c \in Metrics!Counters, c \notin spilled
                 PROVE  IF c = "ams_count" THEN held'[c] + reported'[c] <= added[c]
                        ELSE held'[c] + reported'[c] = added[c]
      BY <1>1 DEF Metrics!ReportedOnce
    <2>1. IF c = "ams_count" THEN held[c] + reported[c] <= added[c]
          ELSE held[c] + reported[c] = added[c]
      BY <1>1 DEF MetricsCounters, Metrics!ReportedOnce
    <2>2. CASE c = "ams_count"
      <3>1. held'[c] = 0 /\ reported'[c] = reported[c] + least
        BY <1>5, <2>2
      <3> QED BY <1>3, <1>4, <2>1, <2>2, <3>1
    <2>3. CASE c = "cs_count"
      <3>1. held'[c] = 0 /\ reported'[c] = Metrics!Told(c)
        BY <1>5, <2>3
      <3>2. Metrics!Told(c) = held[c] + reported[c]
        BY <1>0, <1>3, <2>1, <2>3, MetricsTold
      <3> QED BY <1>3, <2>1, <2>3, <3>1, <3>2
    <2> QED BY <1>2, <2>2, <2>3
  <1> QED BY <1>1, <1>6, <1>7 DEF MetricsCounters

LEMMA MetricsCountersStep ==
    ASSUME Metrics!TypeOK, MetricsCounters, [Metrics!Next]_metrics_vars
    PROVE  MetricsCounters'
  <1>0. MaxAdded \in Nat
    BY DevicesAssumption DEF DevicesAssumption, Metrics!MetricsAssumption
  <1>1. ASSUME NEW counters, Metrics!Increase(counters) PROVE MetricsCounters'
    BY <1>1, MetricsIncrease
  <1>2. ASSUME NEW counters, Metrics!Show(counters, counters) PROVE MetricsCounters'
    BY <1>2, MetricsShow
  <1>3. CASE Metrics!DspRecordDuration
    <2>1. "dsp_usage_duration" \in Metrics!Counters /\ Metrics!Show({"dsp_usage_duration"}, {"dsp_usage_count"})
      BY <1>3 DEF Metrics!DspRecordDuration, Metrics!Show
    <2> QED BY <2>1, MetricsGroups, MetricsShow DEF MetricsCounters
  <1>4. ASSUME NEW a \in Adders, Metrics!CallCountRead(a) PROVE MetricsCounters'
    <2>1. group = "call" /\ UNCHANGED <<group, held, added, reported, spilled, clearing, Metrics!Counters>>
      BY <1>4 DEF Metrics!CallCountRead, Metrics!Counters
    <2>2. adder' \in [Adders -> Int]
      BY <1>4, <2>1, MetricsGroups DEF Metrics!CallCountRead, MetricsCounters
    <2> QED BY <2>1, <2>2 DEF MetricsCounters, Metrics!ReportedOnce
  <1>5. ASSUME NEW a \in Adders, Metrics!CallCountWrite(a) PROVE MetricsCounters'
    <2>1. group = "call" /\ UNCHANGED <<group, reported, spilled, clearing, Metrics!Counters>>
      BY <1>5 DEF Metrics!CallCountWrite, Metrics!Counters, MetricsCounters
    <2>2. held' \in [Metrics!Counters -> Nat] /\ adder' \in [Adders -> Int]
      <3>1. adder[a] + 1 \in Nat /\ adder' = [adder EXCEPT ![a] = -1]
            /\ held' = [held EXCEPT !["voice_call_count"] = adder[a] + 1]
        BY <1>5 DEF Metrics!CallCountWrite, MetricsCounters
      <3>2. adder' \in [Adders -> Int]
        BY <3>1 DEF MetricsCounters
      <3>3. held' \in [Metrics!Counters -> Nat]
        BY <3>1 DEF MetricsCounters
      <3> QED BY <3>2, <3>3
    <2>3. added' \in [Metrics!Counters -> 0 .. MaxAdded]
      <3>1. "voice_call_count" \in Metrics!Counters
        BY <2>1, MetricsGroups DEF MetricsCounters
      <3>2. added["voice_call_count"] + 1 \in 0 .. MaxAdded
        BY <1>0, <1>5, <3>1 DEF Metrics!CallCountWrite, MetricsCounters
      <3> QED BY <1>5, <3>2 DEF Metrics!CallCountWrite, MetricsCounters
    <2> QED BY <2>1, <2>2, <2>3 DEF MetricsCounters, Metrics!ReportedOnce
  <1>6. CASE Metrics!CallCount
    <2>1. group = "call" /\ UNCHANGED <<group, held, added, spilled, adder, Metrics!Counters>> /\ clearing' = Metrics!Counters
      BY <1>6 DEF Metrics!CallCount, Metrics!Counters
    <2>2. reported' \in [Metrics!Counters -> Nat]
      BY <1>0, <1>6, MetricsTold DEF Metrics!CallCount
    <2> QED BY <2>1, <2>2 DEF MetricsCounters, Metrics!ReportedOnce
  <1>7. CASE Metrics!CallCountClear
    <2>1. group = "call" /\ UNCHANGED <<group, added, reported, spilled, adder, Metrics!Counters>>
      BY <1>7 DEF Metrics!CallCountClear, Metrics!Counters, MetricsCounters
    <2>2. held' \in [Metrics!Counters -> Nat] /\ clearing' \subseteq Metrics!Counters
      BY <1>7 DEF Metrics!CallCountClear, MetricsCounters
    <2> QED BY <2>1, <2>2 DEF MetricsCounters, Metrics!ReportedOnce
  <1>8. ASSUME UNCHANGED <<group, held, added, reported, spilled, adder, clearing>> PROVE MetricsCounters'
    BY <1>8 DEF MetricsCounters, Metrics!Counters, Metrics!ReportedOnce
  <1>9. CASE Metrics!Adds
    <2>1. \/ \E counters : Metrics!Increase(counters)
          \/ Metrics!Set \/ \E f : Metrics!Spill(f)
          \/ \E a \in Adders : Metrics!CallCountRead(a) \/ Metrics!CallCountWrite(a)
          \/ UNCHANGED <<group, held, added, reported, spilled, adder, clearing>>
      BY <1>9, Zenon DEF Metrics!Adds, Metrics!AmsIncrease, Metrics!CcaIncrease,
           Metrics!AmsSet, Metrics!CcaSet, Metrics!WavesVolumeIncrease, Metrics!AdaptedInfoFeature,
         Metrics!BtActiveDurationIncrease, Metrics!AddPcmLatency,
         Metrics!PcmActiveCountIncrease, Metrics!VoiceInfoNoiseLevel,
         Metrics!DspRecordUsageDurationIncrease, Metrics!DspRecordUsageCountIncrease,
         Metrics!SoftwareRestartIncrease,
         Metrics!OffloadEffectDuration
    <2> QED BY <1>1, <1>4, <1>5, <1>8, <2>1, MetricsSet, MetricsSpill
  <1>10. CASE Metrics!Shows
    <2>1. \/ \E counters : Metrics!Show(counters, counters)
          \/ Metrics!AmsRateReadOnce
          \/ Metrics!DspRecordDuration \/ Metrics!CallCount \/ Metrics!CallCountClear
          \/ UNCHANGED <<group, held, added, reported, spilled, adder, clearing>>
      BY <1>10, Zenon DEF Metrics!Shows, Metrics!CcaCountReadOnce,
           Metrics!Waves, Metrics!AdaptedInfoActiveCount,
         Metrics!AdaptedInfoActiveDuration, Metrics!PcmLatency, Metrics!PcmCount,
         Metrics!BtUsage, Metrics!VoiceInfoNoiseLevelShow,
         Metrics!DspRecordCount, Metrics!AudioSoftwareRestartCount, Metrics!OffloadEffectsId,
         Metrics!OffloadEffectsDuration
    <2> QED BY <1>2, <1>3, <1>6, <1>7, <1>8, <2>1, MetricsRate
  <1>11. CASE UNCHANGED metrics_vars
    BY <1>8, <1>11 DEF metrics_vars
  <1> QED BY <1>9, <1>10, <1>11 DEF Metrics!Next

LEMMA MetricsTableStep ==
    ASSUME Metrics!TypeOK, MetricsTable, [Metrics!Next]_metrics_vars
    PROVE  MetricsTable'
  <1>0. MaxAdded \in Nat /\ MaxEffects \in Nat \ {0} /\ "none" \notin Effects
    BY DevicesAssumption DEF DevicesAssumption, Metrics!MetricsAssumption
  <1>1. CASE Metrics!OffloadEffectDuration
    <2>1. PICK e \in Effects, i \in Metrics!Slots :
            /\ IF Metrics!Found(e) # {} THEN i \in Metrics!Found(e) ELSE i = offload_effects_count + 1
            /\ effect_seconds[i] < MaxAdded
            /\ effect_seconds' = [effect_seconds EXCEPT ![i] = @ + 1]
            /\ IF Metrics!Found(e) # {} THEN UNCHANGED <<effect_uuid, offload_effects_count>>
               ELSE effect_uuid' = [effect_uuid EXCEPT ![i] = e] /\ offload_effects_count' = i
            /\ owner' = [owner EXCEPT ![i] = e]
      BY <1>1, Zenon DEF Metrics!OffloadEffectDuration
    <2>2. effect_seconds' \in [Metrics!Slots -> 0 .. MaxAdded]
      <3>1. effect_seconds[i] + 1 \in 0 .. MaxAdded
        BY <1>0, <2>1 DEF MetricsTable
      <3> QED BY <2>1, <3>1 DEF MetricsTable
    <2>3. owner' \in [Metrics!Slots -> Effects \cup {"none"}]
      BY <2>1 DEF MetricsTable
    <2>4. CASE Metrics!Found(e) # {}
      <3>1. effect_uuid[i] = e /\ i \in 1 .. offload_effects_count
        BY <2>1, <2>4 DEF Metrics!Found
      <3>2. owner[i] = e
        BY <1>0, <3>1 DEF MetricsTable, Metrics!OffloadPaired
      <3>3. owner' = owner
        BY <2>1, <3>2 DEF MetricsTable
      <3> QED BY <2>1, <2>2, <2>3, <2>4, <3>3 DEF MetricsTable, Metrics!OffloadPaired
    <2>5. CASE Metrics!Found(e) = {}
      <3>1. /\ i = offload_effects_count + 1 /\ offload_effects_count' = i
            /\ effect_uuid' = [effect_uuid EXCEPT ![i] = e] /\ owner' = [owner EXCEPT ![i] = e]
        BY <2>1, <2>5
      <3>0. offload_effects_count \in Nat /\ offload_effects_count <= MaxEffects
        BY <1>0 DEF MetricsTable
      <3>2. effect_uuid' \in [Metrics!Slots -> Effects \cup {"none"}]
        BY <3>1 DEF MetricsTable
      <3>3. offload_effects_count' \in 0 .. MaxEffects
        BY <1>0, <3>1 DEF MetricsTable, Metrics!Slots
      <3>4. /\ effect_uuid'[i] = e /\ owner'[i] = e
            /\ \A j \in Metrics!Slots : j # i => effect_uuid'[j] = effect_uuid[j] /\ owner'[j] = owner[j]
        BY <3>1 DEF MetricsTable
      <3>5. \A j \in 1 .. offload_effects_count : j \in Metrics!Slots /\ effect_uuid[j] # e /\ j # i
        <4> SUFFICES ASSUME NEW j \in 1 .. offload_effects_count
                     PROVE  j \in Metrics!Slots /\ effect_uuid[j] # e /\ j # i
          OBVIOUS
        <4>1. effect_uuid[j] # e
          BY <2>5, Zenon DEF Metrics!Found
        <4>2. j \in Metrics!Slots /\ j # i
          BY <1>0, <3>0, <3>1 DEF Metrics!Slots
        <4> QED BY <4>1, <4>2
      <3>6. Metrics!OffloadPaired'
        <4> SUFFICES ASSUME NEW k \in 1 .. i
                     PROVE  /\ effect_uuid'[k] \in {owner'[k], "none"}
                            /\ \A j \in 1 .. k - 1 : owner'[j] = owner'[k] => effect_uuid'[j] = "none"
          BY <3>1 DEF Metrics!OffloadPaired
        <4>1. \A j \in 1 .. k - 1 : j \in 1 .. offload_effects_count
          BY <3>0, <3>1
        <4>2. CASE k = i
          BY <3>4, <3>5, <4>1, <4>2 DEF MetricsTable, Metrics!OffloadPaired
        <4>3. CASE k # i
          <5>1. k \in 1 .. offload_effects_count
            BY <1>0, <3>1, <4>3 DEF Metrics!Slots, MetricsTable
          <5> QED BY <3>4, <3>5, <4>1, <5>1 DEF MetricsTable, Metrics!OffloadPaired
        <4> QED BY <4>2, <4>3
      <3> QED BY <2>2, <2>3, <3>2, <3>3, <3>6 DEF MetricsTable
    <2> QED BY <2>4, <2>5
  <1>2. CASE Metrics!OffloadEffectsId
    <2>1. \A i \in 1 .. offload_effects_count : i \in Metrics!Slots /\ \A j \in 1 .. i - 1 : j \in Metrics!Slots
      <3>1. offload_effects_count \in Nat /\ offload_effects_count <= MaxEffects
        BY <1>0 DEF MetricsTable
      <3> QED BY <1>0, <3>1 DEF Metrics!Slots
    <2>2. effect_uuid' = Metrics!Nobody /\ UNCHANGED <<effect_seconds, offload_effects_count, owner>>
      BY <1>2 DEF Metrics!OffloadEffectsId
    <2>3. effect_uuid' \in [Metrics!Slots -> Effects \cup {"none"}] /\ \A i \in Metrics!Slots : effect_uuid'[i] = "none"
      BY <2>2 DEF Metrics!Nobody
    <2> QED BY <2>1, <2>2, <2>3 DEF MetricsTable, Metrics!OffloadPaired
  <1>3. CASE Metrics!OffloadEffectsDuration
    BY <1>0, <1>3 DEF Metrics!OffloadEffectsDuration, MetricsTable, Metrics!OffloadPaired,
         Metrics!Nobody, Metrics!Slots
  <1>4. CASE UNCHANGED Metrics!offload_vars
    BY <1>4 DEF Metrics!offload_vars, MetricsTable, Metrics!OffloadPaired
  <1>5. Metrics!OffloadEffectDuration \/ Metrics!OffloadEffectsId \/ Metrics!OffloadEffectsDuration \/ UNCHANGED Metrics!offload_vars
    BY Zenon DEF Metrics!Next, metrics_vars, Metrics!Adds, Metrics!Shows, Metrics!Increase,
         Metrics!Show, Metrics!CallCountRead, Metrics!CallCountWrite, Metrics!CallCount,
       Metrics!CallCountClear, Metrics!AmsIncrease, Metrics!CcaIncrease, Metrics!AmsSet,
       Metrics!CcaSet, Metrics!Set, Metrics!Spill,
       Metrics!WavesVolumeIncrease, Metrics!AdaptedInfoFeature,
       Metrics!BtActiveDurationIncrease, Metrics!AddPcmLatency,
       Metrics!PcmActiveCountIncrease, Metrics!VoiceInfoNoiseLevel,
       Metrics!DspRecordUsageDurationIncrease, Metrics!DspRecordUsageCountIncrease,
       Metrics!SoftwareRestartIncrease,
       Metrics!AmsRateReadOnce, Metrics!CcaCountReadOnce, Metrics!Waves,
       Metrics!AdaptedInfoActiveCount, Metrics!AdaptedInfoActiveDuration,
       Metrics!PcmLatency, Metrics!PcmCount, Metrics!BtUsage, Metrics!VoiceInfoNoiseLevelShow,
       Metrics!DspRecordCount, Metrics!DspRecordDuration,
       Metrics!AudioSoftwareRestartCount, Metrics!offload_vars
  <1> QED BY <1>1, <1>2, <1>3, <1>4, <1>5

(* What was added is reported once or held, and a slot's id is its effect's. *)
MetricsInv == MetricsCounters /\ MetricsTable

LEMMA MetricsSafe ==
    ASSUME MetricsInv
    PROVE  Metrics!TypeOK /\ Metrics!ReportedOnce /\ Metrics!OffloadPaired
  BY Zenon DEF MetricsInv, MetricsCounters, MetricsTable, Metrics!TypeOK

LEMMA MetricsInit ==
    ASSUME Metrics!Init
    PROVE  MetricsInv
  <1>0. MaxAdded \in Nat /\ MaxEffects \in Nat \ {0}
    BY DevicesAssumption DEF DevicesAssumption, Metrics!MetricsAssumption
  <1>1. MetricsCounters
    BY <1>0 DEF Metrics!Init, MetricsCounters, Metrics!ReportedOnce
  <1>2. MetricsTable
    BY <1>0 DEF Metrics!Init, MetricsTable, Metrics!OffloadPaired, Metrics!Nobody
  <1> QED BY <1>1, <1>2 DEF MetricsInv

LEMMA MetricsStep ==
    ASSUME MetricsInv, [Metrics!Next]_metrics_vars
    PROVE  MetricsInv'
  BY MetricsSafe, MetricsCountersStep, MetricsTableStep DEF MetricsInv

--------------------------------------------------------------------------------
(* Cs35l45Power *)

PowerFlags ==
    /\ boot \in BOOLEAN /\ power \in BOOLEAN /\ runtime_error \in BOOLEAN /\ irq45 \in BOOLEAN
    /\ force_int \in BOOLEAN /\ virt2_mbox_comp \in BOOLEAN /\ asleep \in BOOLEAN
    /\ cache_only \in BOOLEAN /\ classh \in BOOLEAN /\ classh_tracking \in BOOLEAN

PowerStates ==
    /\ setup45 \in PowerSetups /\ boot_pc \in {"idle", "stop"}
    /\ open \in {"closed", "opened", "playing"}
    /\ pmu \in {"idle", "queued", "sent"} /\ pmd \in {"idle", "queued", "sent"}
    /\ rpm \in {"active", "suspended"} /\ mbox \in Power!Commands \cup {"none"}
    /\ dsp \in {"off", "paused", "running"} /\ kept \in Power!Values /\ chip45 \in Power!Values
    /\ wanted45 \in Power!Values /\ setting \in Power!Settings

(* A chip the kernel takes for active is: it neither sleeps nor will, and is written to; and
   one that is suspended is not, until it failed to wake up. *)
PowerBus ==
    /\ rpm = "active" => ~cache_only /\ ~asleep /\ mbox # "HIBERNATE"
    /\ ~runtime_error /\ rpm # "active" => cache_only

(* The references: DAPM's until the DSP is booted and again when it stops, the stream's, and
   that of the forced interrupt. *)
References ==
    (IF boot /\ boot_pc = "idle" THEN 0 ELSE 1) + (IF open = "closed" THEN 0 ELSE 1)
    + (IF force_int THEN 1 ELSE 0)

PowerUsage ==
    /\ usage \in Nat /\ usage <= MaxUsage + 1 + (IF open = "closed" THEN 0 ELSE 1)
    /\ ~runtime_error /\ setup45 # "repeat" => usage = References

(* The widget's works: at most that of its last event is left, and while one is, or a stream
   is open, the chip is active. *)
PowerWorks ==
    /\ power => pmd = "idle" /\ open = "playing" /\ boot /\ boot_pc = "idle"
    /\ ~power => pmu = "idle"
    /\ setup45 # "repeat" /\ (open # "closed" \/ pmd # "idle") => rpm = "active"

(* What the firmware was told last is what the widget asks for, or a work will tell it. *)
PowerTold ==
    setup45 # "repeat" =>
        /\ power => pmu = "queued" \/ mbox = "RESUME" \/ (mbox = "none" /\ dsp = "running")
        /\ ~power => pmd = "queued" \/ mbox = "PAUSE" \/ (mbox # "RESUME" /\ dsp # "running")

PowerKept ==
    /\ ~runtime_error => classh = classh_tracking
    /\ ~runtime_error /\ setting \in {"of", "mixer"} =>
           /\ kept = wanted45 /\ (rpm = "active" => chip45 = wanted45)
           /\ setting = "of" => wanted45 = "a"
    /\ setting = "rate" /\ open = "playing" /\ setup45 # "repeat" => chip45 = wanted45

PowerInv ==
    /\ PowerFlags /\ PowerStates /\ PowerBus /\ PowerUsage /\ PowerWorks /\ PowerTold /\ PowerKept

LEMMA PowerConstants ==
    PowerSetups \subseteq {"steady", "slow", "repeat"} /\ MaxUsage \in Nat
  BY DevicesAssumption, Zenon DEF DevicesAssumption, Power!PowerAssumption

(* Controls that write a register. *)
LEMMA PowerWrites ==
    ASSUME Power!AudControls \/ Power!SetSysclk \/ Power!DaiSetFmt
    PROVE  (\E v \in {"a", "b"} : Power!Write(v)) /\ setting \in {"mixer", "other", "clock", "fmt"}
  <1>1. CASE Power!AudControls
    BY <1>1 DEF Power!AudControls
  <1>2. CASE Power!SetSysclk
    BY <1>2, Zenon DEF Power!SetSysclk
  <1>3. CASE Power!DaiSetFmt
    BY <1>3, Zenon DEF Power!DaiSetFmt
  <1> QED BY <1>1, <1>2, <1>3

LEMMA PowerFlagsStep ==
    ASSUME PowerFlags, Power!Next
    PROVE  PowerFlags'
  <1> USE DEF PowerFlags, Power!Power, Power!Bus, Power!PowerEv, Power!ResumeRuntime,
       Power!ResumeAndGet
  <1>1. CASE Power!DspBootPutOn
    BY <1>1, Zenon DEF Power!DspBootPutOn
  <1>2. CASE Power!DspBootPutOff
    BY <1>2, Zenon DEF Power!DspBootPutOff
  <1>3. CASE Power!DspBootEvPmd
    BY <1>3, Zenon DEF Power!DspBootEvPmd
  <1>4. CASE Power!StreamOpen
    BY <1>4, Zenon DEF Power!StreamOpen
  <1>5. CASE Power!DaiHwParams
    BY <1>5, Zenon DEF Power!DaiHwParams
  <1>6. CASE Power!StreamClose
    BY <1>6, Zenon DEF Power!StreamClose
  <1>7. CASE Power!PmuWork
    BY <1>7, Zenon DEF Power!PmuWork, Power!SetCsplmboxcmd
  <1>8. CASE Power!PmdWork
    BY <1>8, Zenon DEF Power!PmdWork, Power!SetCsplmboxcmd
  <1>9. CASE Power!DspAnswers
    BY <1>9, Zenon DEF Power!DspAnswers
  <1>10. CASE Power!SpeakerStatus
    BY <1>10, Zenon DEF Power!SpeakerStatus
  <1>11. CASE Power!SuspendRuntime
    BY <1>11, Zenon DEF Power!SuspendRuntime
  <1>12. CASE Power!AudControls \/ Power!SetSysclk \/ Power!DaiSetFmt
    <2>1. PICK v \in {"a", "b"} : Power!Write(v)
      BY <1>12, PowerWrites, Zenon
    <2> QED BY <2>1, Zenon DEF Power!Write
  <1>13. CASE Power!ClasshEnPut
    BY <1>13, Zenon DEF Power!ClasshEnPut
  <1>14. CASE Power!ForceIntPut
    BY <1>14, Zenon DEF Power!ForceIntPut
  <1> QED BY <1>1, <1>2, <1>3, <1>4, <1>5, <1>6, <1>7, <1>8, <1>9, <1>10, <1>11, <1>12, <1>13,
       <1>14, Zenon DEF Power!Next

LEMMA PowerStatesStep ==
    ASSUME PowerFlags, PowerStates, Power!Next
    PROVE  PowerStates'
  <1> USE DEF PowerStates, PowerFlags, Power!Power, Power!Bus, Power!PowerEv,
       Power!ResumeRuntime, Power!ResumeAndGet, Power!Commands,
      Power!Values, Power!AfterReset, Power!Reinitialized
  <1>1. CASE Power!DspBootPutOn
    BY <1>1 DEF Power!DspBootPutOn
  <1>2. CASE Power!DspBootPutOff
    BY <1>2 DEF Power!DspBootPutOff
  <1>3. CASE Power!DspBootEvPmd
    BY <1>3 DEF Power!DspBootEvPmd
  <1>4. CASE Power!StreamOpen
    BY <1>4 DEF Power!StreamOpen
  <1>5. CASE Power!DaiHwParams
    BY <1>5 DEF Power!DaiHwParams
  <1>6. CASE Power!StreamClose
    BY <1>6 DEF Power!StreamClose
  <1>7. CASE Power!PmuWork
    BY <1>7 DEF Power!PmuWork, Power!SetCsplmboxcmd
  <1>8. CASE Power!PmdWork
    BY <1>8 DEF Power!PmdWork, Power!SetCsplmboxcmd
  <1>9. CASE Power!DspAnswers
    BY <1>9 DEF Power!DspAnswers
  <1>10. CASE Power!SpeakerStatus
    BY <1>10 DEF Power!SpeakerStatus
  <1>11. CASE Power!SuspendRuntime
    BY <1>11 DEF Power!SuspendRuntime
  <1>12. CASE Power!AudControls \/ Power!SetSysclk \/ Power!DaiSetFmt
    BY <1>12 DEF Power!AudControls, Power!SetSysclk, Power!DaiSetFmt, Power!Write
  <1>13. CASE Power!ClasshEnPut
    BY <1>13 DEF Power!ClasshEnPut
  <1>14. CASE Power!ForceIntPut
    BY <1>14 DEF Power!ForceIntPut
  <1> QED BY <1>1, <1>2, <1>3, <1>4, <1>5, <1>6, <1>7, <1>8, <1>9, <1>10, <1>11, <1>12, <1>13,
       <1>14, Zenon DEF Power!Next

LEMMA PowerBusStep ==
    ASSUME PowerFlags, PowerStates, PowerBus, Power!Next
    PROVE  PowerBus'
  <1> USE DEF PowerBus, PowerStates, PowerFlags, Power!Power, Power!Bus, Power!PowerEv,
       Power!ResumeRuntime, Power!ResumeAndGet,
      Power!Commands
  <1>1. CASE Power!DspBootPutOn
    BY <1>1 DEF Power!DspBootPutOn
  <1>2. CASE Power!DspBootPutOff
    BY <1>2 DEF Power!DspBootPutOff
  <1>3. CASE Power!DspBootEvPmd
    BY <1>3 DEF Power!DspBootEvPmd
  <1>4. CASE Power!StreamOpen
    BY <1>4 DEF Power!StreamOpen
  <1>5. CASE Power!DaiHwParams
    BY <1>5 DEF Power!DaiHwParams
  <1>6. CASE Power!StreamClose
    BY <1>6 DEF Power!StreamClose
  <1>7. CASE Power!PmuWork
    BY <1>7 DEF Power!PmuWork, Power!SetCsplmboxcmd
  <1>8. CASE Power!PmdWork
    BY <1>8 DEF Power!PmdWork, Power!SetCsplmboxcmd
  <1>9. CASE Power!DspAnswers
    BY <1>9 DEF Power!DspAnswers
  <1>10. CASE Power!SpeakerStatus
    BY <1>10 DEF Power!SpeakerStatus
  <1>11. CASE Power!SuspendRuntime
    BY <1>11 DEF Power!SuspendRuntime
  <1>12. CASE Power!AudControls \/ Power!SetSysclk \/ Power!DaiSetFmt
    <2>1. PICK v \in {"a", "b"} : Power!Write(v) /\ setting \in {"mixer", "other", "clock", "fmt"}
      BY <1>12, PowerWrites, Zenon
    <2> QED BY <2>1 DEF Power!Write
  <1>13. CASE Power!ClasshEnPut
    BY <1>13 DEF Power!ClasshEnPut
  <1>14. CASE Power!ForceIntPut
    BY <1>14 DEF Power!ForceIntPut
  <1> QED BY <1>1, <1>2, <1>3, <1>4, <1>5, <1>6, <1>7, <1>8, <1>9, <1>10, <1>11, <1>12, <1>13,
       <1>14, Zenon DEF Power!Next

LEMMA PowerUsageStep ==
    ASSUME PowerFlags, PowerStates, PowerBus, PowerUsage, PowerWorks, Power!Next
    PROVE  PowerUsage'
  <1> USE PowerConstants DEF PowerUsage, PowerBus, PowerWorks, References, PowerStates,
       PowerFlags, Power!Power, Power!Bus, Power!PowerEv, Power!ResumeRuntime, Power!ResumeAndGet,
      Power!Drop
  <1>1. CASE Power!DspBootPutOn
    BY <1>1 DEF Power!DspBootPutOn
  <1>2. CASE Power!DspBootPutOff
    BY <1>2 DEF Power!DspBootPutOff
  <1>3. CASE Power!DspBootEvPmd
    BY <1>3 DEF Power!DspBootEvPmd
  <1>4. CASE Power!StreamOpen
    BY <1>4 DEF Power!StreamOpen
  <1>5. CASE Power!DaiHwParams
    BY <1>5 DEF Power!DaiHwParams
  <1>6. CASE Power!StreamClose
    BY <1>6 DEF Power!StreamClose
  <1>7. CASE Power!PmuWork
    BY <1>7 DEF Power!PmuWork, Power!SetCsplmboxcmd
  <1>8. CASE Power!PmdWork
    BY <1>8 DEF Power!PmdWork, Power!SetCsplmboxcmd
  <1>9. CASE Power!DspAnswers
    BY <1>9 DEF Power!DspAnswers
  <1>10. CASE Power!SpeakerStatus
    BY <1>10 DEF Power!SpeakerStatus
  <1>11. CASE Power!SuspendRuntime
    BY <1>11 DEF Power!SuspendRuntime
  <1>12. CASE Power!AudControls \/ Power!SetSysclk \/ Power!DaiSetFmt
    <2>1. PICK v \in {"a", "b"} : Power!Write(v) /\ setting \in {"mixer", "other", "clock", "fmt"}
      BY <1>12, PowerWrites, Zenon
    <2> QED BY <2>1 DEF Power!Write
  <1>13. CASE Power!ClasshEnPut
    BY <1>13 DEF Power!ClasshEnPut
  <1>14. CASE Power!ForceIntPut
    <2>1. CASE force_int
      <3>1. ~force_int' /\ usage' = Power!Drop(usage) /\ UNCHANGED <<setup45, Power!Power, runtime_error>>
        BY <1>14, <2>1, Zenon DEF Power!ForceIntPut
      <3> QED BY <2>1, <3>1
    <2>2. CASE ~force_int
      <3>1. force_int' /\ usage <= MaxUsage /\ Power!ResumeAndGet /\ UNCHANGED <<setup45, Power!Power>>
        BY <1>14, <2>2, Zenon DEF Power!ForceIntPut
      <3> QED BY <2>2, <3>1
    <2> QED BY <2>1, <2>2
  <1> QED BY <1>1, <1>2, <1>3, <1>4, <1>5, <1>6, <1>7, <1>8, <1>9, <1>10, <1>11, <1>12, <1>13,
       <1>14, Zenon DEF Power!Next

LEMMA PowerWorksStep ==
    ASSUME PowerFlags, PowerStates, PowerBus, PowerUsage, PowerWorks, Power!Next
    PROVE  PowerWorks'
  <1> USE DEF PowerUsage, PowerBus, PowerWorks, References, PowerStates, PowerFlags,
       Power!Power, Power!Bus, Power!PowerEv, Power!ResumeRuntime, Power!ResumeAndGet,
      Power!Drop
  <1>1. CASE Power!DspBootPutOn
    BY <1>1 DEF Power!DspBootPutOn
  <1>2. CASE Power!DspBootPutOff
    BY <1>2 DEF Power!DspBootPutOff
  <1>3. CASE Power!DspBootEvPmd
    BY <1>3 DEF Power!DspBootEvPmd
  <1>4. CASE Power!StreamOpen
    BY <1>4 DEF Power!StreamOpen
  <1>5. CASE Power!DaiHwParams
    BY <1>5 DEF Power!DaiHwParams
  <1>6. CASE Power!StreamClose
    BY <1>6 DEF Power!StreamClose
  <1>7. CASE Power!PmuWork
    BY <1>7 DEF Power!PmuWork, Power!SetCsplmboxcmd
  <1>8. CASE Power!PmdWork
    BY <1>8 DEF Power!PmdWork, Power!SetCsplmboxcmd
  <1>9. CASE Power!DspAnswers
    BY <1>9 DEF Power!DspAnswers
  <1>10. CASE Power!SpeakerStatus
    BY <1>10 DEF Power!SpeakerStatus
  <1>11. CASE Power!SuspendRuntime
    BY <1>11 DEF Power!SuspendRuntime
  <1>12. CASE Power!AudControls \/ Power!SetSysclk \/ Power!DaiSetFmt
    <2>1. PICK v \in {"a", "b"} : Power!Write(v) /\ setting \in {"mixer", "other", "clock", "fmt"}
      BY <1>12, PowerWrites, Zenon
    <2> QED BY <2>1 DEF Power!Write
  <1>13. CASE Power!ClasshEnPut
    BY <1>13 DEF Power!ClasshEnPut
  <1>14. CASE Power!ForceIntPut
    BY <1>14 DEF Power!ForceIntPut
  <1> QED BY <1>1, <1>2, <1>3, <1>4, <1>5, <1>6, <1>7, <1>8, <1>9, <1>10, <1>11, <1>12, <1>13,
       <1>14, Zenon DEF Power!Next

LEMMA PowerToldStep ==
    ASSUME PowerFlags, PowerStates, PowerBus, PowerUsage, PowerWorks, PowerTold, Power!Next
    PROVE  PowerTold'
  <1> USE DEF PowerUsage, PowerBus, PowerWorks, PowerTold, References, PowerStates,
       PowerFlags, Power!Power, Power!Bus, Power!PowerEv, Power!ResumeRuntime, Power!ResumeAndGet,
      Power!Commands
  <1>1. CASE Power!DspBootPutOn
    BY <1>1 DEF Power!DspBootPutOn
  <1>2. CASE Power!DspBootPutOff
    BY <1>2 DEF Power!DspBootPutOff
  <1>3. CASE Power!DspBootEvPmd
    BY <1>3 DEF Power!DspBootEvPmd
  <1>4. CASE Power!StreamOpen
    BY <1>4 DEF Power!StreamOpen
  <1>5. CASE Power!DaiHwParams
    BY <1>5 DEF Power!DaiHwParams
  <1>6. CASE Power!StreamClose
    BY <1>6 DEF Power!StreamClose
  <1>7. CASE Power!PmuWork
    BY <1>7 DEF Power!PmuWork, Power!SetCsplmboxcmd
  <1>8. CASE Power!PmdWork
    BY <1>8 DEF Power!PmdWork, Power!SetCsplmboxcmd
  <1>9. CASE Power!DspAnswers
    BY <1>9 DEF Power!DspAnswers
  <1>10. CASE Power!SpeakerStatus
    BY <1>10 DEF Power!SpeakerStatus
  <1>11. CASE Power!SuspendRuntime
    BY <1>11 DEF Power!SuspendRuntime
  <1>12. CASE Power!AudControls \/ Power!SetSysclk \/ Power!DaiSetFmt
    <2>1. PICK v \in {"a", "b"} : Power!Write(v) /\ setting \in {"mixer", "other", "clock", "fmt"}
      BY <1>12, PowerWrites, Zenon
    <2> QED BY <2>1 DEF Power!Write
  <1>13. CASE Power!ClasshEnPut
    BY <1>13 DEF Power!ClasshEnPut
  <1>14. CASE Power!ForceIntPut
    BY <1>14 DEF Power!ForceIntPut
  <1> QED BY <1>1, <1>2, <1>3, <1>4, <1>5, <1>6, <1>7, <1>8, <1>9, <1>10, <1>11, <1>12, <1>13,
       <1>14, Zenon DEF Power!Next

LEMMA PowerKeptStep ==
    ASSUME PowerFlags, PowerStates, PowerBus, PowerUsage, PowerWorks, PowerKept, Power!Next
    PROVE  PowerKept'
  <1> USE DEF PowerUsage, PowerBus, PowerWorks, PowerKept, References, PowerStates,
       PowerFlags, Power!Power, Power!Bus, Power!PowerEv, Power!ResumeRuntime, Power!ResumeAndGet,
      Power!AfterReset, Power!Reinitialized, Power!MixerCache
  <1>1. CASE Power!DspBootPutOn
    BY <1>1 DEF Power!DspBootPutOn
  <1>2. CASE Power!DspBootPutOff
    BY <1>2 DEF Power!DspBootPutOff
  <1>3. CASE Power!DspBootEvPmd
    BY <1>3 DEF Power!DspBootEvPmd
  <1>4. CASE Power!StreamOpen
    BY <1>4 DEF Power!StreamOpen
  <1>5. CASE Power!DaiHwParams
    BY <1>5 DEF Power!DaiHwParams
  <1>6. CASE Power!StreamClose
    BY <1>6 DEF Power!StreamClose
  <1>7. CASE Power!PmuWork
    BY <1>7 DEF Power!PmuWork, Power!SetCsplmboxcmd
  <1>8. CASE Power!PmdWork
    BY <1>8 DEF Power!PmdWork, Power!SetCsplmboxcmd
  <1>9. CASE Power!DspAnswers
    BY <1>9 DEF Power!DspAnswers
  <1>10. CASE Power!SpeakerStatus
    BY <1>10 DEF Power!SpeakerStatus
  <1>11. CASE Power!SuspendRuntime
    BY <1>11 DEF Power!SuspendRuntime
  <1>12. CASE Power!AudControls \/ Power!SetSysclk \/ Power!DaiSetFmt
    <2>1. PICK v \in {"a", "b"} : Power!Write(v) /\ setting \in {"mixer", "other", "clock", "fmt"}
      BY <1>12, PowerWrites, Zenon
    <2> QED BY <2>1 DEF Power!Write
  <1>13. CASE Power!ClasshEnPut
    BY <1>13 DEF Power!ClasshEnPut
  <1>14. CASE Power!ForceIntPut
    BY <1>14 DEF Power!ForceIntPut
  <1> QED BY <1>1, <1>2, <1>3, <1>4, <1>5, <1>6, <1>7, <1>8, <1>9, <1>10, <1>11, <1>12, <1>13,
       <1>14, Zenon DEF Power!Next

LEMMA PowerInit ==
    ASSUME Power!Init
    PROVE  PowerInv
  <1>1. PowerFlags
    BY Zenon DEF Power!Init, PowerFlags
  <1>2. PowerStates
    BY DEF Power!Init, PowerStates, Power!AfterReset, Power!Commands, Power!Values
  <1>3. PowerBus /\ PowerWorks /\ PowerTold
    BY DEF Power!Init, PowerBus, PowerWorks, PowerTold
  <1>4. PowerUsage
    BY PowerConstants DEF Power!Init, PowerUsage, References
  <1>5. PowerKept
    BY DEF Power!Init, PowerKept, Power!AfterReset
  <1> QED BY <1>1, <1>2, <1>3, <1>4, <1>5, Zenon DEF PowerInv

LEMMA PowerStep ==
    ASSUME PowerInv, [Power!Next]_power_vars
    PROVE  PowerInv'
  <1>1. CASE Power!Next
    BY <1>1, PowerFlagsStep, PowerStatesStep, PowerBusStep, PowerUsageStep, PowerWorksStep,
         PowerToldStep,
       PowerKeptStep, Zenon DEF PowerInv
  <1>2. CASE UNCHANGED power_vars
    <2> USE <1>2 DEF power_vars, PowerInv
    <2>1. PowerFlags' /\ PowerBus' /\ PowerWorks'
      BY Zenon DEF PowerFlags, PowerBus, PowerWorks
    <2>2. PowerStates'
      BY Zenon DEF PowerStates
    <2>3. PowerUsage'
      BY Zenon DEF PowerUsage, References
    <2>4. PowerTold'
      BY Zenon DEF PowerTold
    <2>5. PowerKept'
      BY Zenon DEF PowerKept
    <2> QED BY <2>1, <2>2, <2>3, <2>4, <2>5, Zenon
  <1> QED BY <1>1, <1>2

LEMMA PowerSafe ==
    ASSUME PowerInv
    PROVE  Power!TypeOK /\ Power!DspFollows /\ Power!AwakeWhenUsed /\ Power!SettingsSurvive
  <1>1. usage \in 0 .. MaxUsage + 3
    BY PowerConstants DEF PowerInv, PowerUsage
  <1>2. Power!TypeOK
    BY <1>1, Zenon DEF PowerInv, PowerFlags, PowerStates, Power!TypeOK
  <1>3. Power!DspFollows
    <2> SUFFICES ASSUME setup45 # "repeat" /\ boot /\ boot_pc = "idle" /\ pmu = "idle" /\ pmd = "idle"
                        /\ mbox = "none" /\ ~cache_only
                 PROVE  (dsp = "running") = power
      BY Zenon DEF Power!DspFollows
    <2>1. power => dsp = "running"
      BY DEF PowerInv, PowerTold
    <2>2. ~power => dsp # "running"
      BY DEF PowerInv, PowerTold
    <2> QED BY <2>1, <2>2, Zenon DEF PowerInv, PowerFlags
  <1>4. Power!AwakeWhenUsed
    BY DEF PowerInv, PowerBus, PowerWorks, Power!AwakeWhenUsed
  <1>5. Power!SettingsSurvive
    BY DEF PowerInv, PowerKept, Power!SettingsSurvive
  <1> QED BY <1>2, <1>3, <1>4, <1>5

--------------------------------------------------------------------------------
(* Cs35l45Volume *)

VolumeFlags ==
    /\ playing \in BOOLEAN /\ spk \in BOOLEAN /\ recent \in BOOLEAN /\ global_en \in BOOLEAN
    /\ vol_ramp \in BOOLEAN /\ strayed \in BOOLEAN

LEMMA VolumeFlagsStep ==
    ASSUME VolumeFlags, [Volume!Next]_volume_vars
    PROVE  VolumeFlags'
  <1> USE Zenon DEF VolumeFlags, Volume!Device, Volume!Parameters, Volume!Work,
                    Volume!GlobalEnEv, Volume!AbortRamp, Volume!RampOver
  <1>1. CASE Volume!VolRampStart
    BY <1>1 DEF Volume!VolRampStart
  <1>2. CASE Volume!VolRampKnee
    BY <1>2 DEF Volume!VolRampKnee
  <1>3. CASE Volume!VolRampEnd
    BY <1>3 DEF Volume!VolRampEnd
  <1>4. CASE Volume!Stream
    BY <1>4 DEF Volume!Stream
  <1>5. CASE Volume!TimeoutPasses
    BY <1>5 DEF Volume!TimeoutPasses
  <1>6. CASE Volume!AmplifierModePut
    BY <1>6 DEF Volume!AmplifierModePut
  <1>7. CASE Volume!AmplifierModeSet
    BY <1>7 DEF Volume!AmplifierModeSet
  <1>8. CASE Volume!AmplifierModeRamp
    BY <1>8 DEF Volume!AmplifierModeRamp
  <1>9. CASE Volume!PutManualRamp
    BY <1>9 DEF Volume!PutManualRamp
  <1>10. CASE Volume!ManualRampSet
    BY <1>10 DEF Volume!ManualRampSet
  <1>11. CASE Volume!PutVolswSx
    BY <1>11 DEF Volume!PutVolswSx
  <1>12. CASE Volume!VolswSxWrite
    BY <1>12 DEF Volume!VolswSxWrite
  <1>13. CASE Volume!PutParameter
    BY <1>13 DEF Volume!PutParameter
  <1>14. CASE UNCHANGED volume_vars
    BY <1>14 DEF volume_vars
  <1> QED BY <1>1, <1>2, <1>3, <1>4, <1>5, <1>6, <1>7, <1>8, <1>9, <1>10, <1>11, <1>12, <1>13,
       <1>14 DEF Volume!Next

(* What the volume's register may hold, and the volumes it is written for. *)
OfRegister(r) == r \in Nat /\ r < 2048
Audible(v) == v \in Nat /\ v <= 913

LEMMA VolumeSet ==
    /\ \A r, v \in Int : OfRegister(r) => OfRegister(Volume!SetOver(r, v))
    /\ \A r, v : Audible(v) =>
          Volume!Heard(Volume!SetOver(r, v)) = v /\ OfRegister(Volume!SetOver(r, v))
    /\ \A v : Audible(v) => Volume!Heard((v + 1231) % 2048) = v
  BY SMTT(40) DEF OfRegister, Audible, Volume!SetOver, Volume!Heard, Volume!ZERO_PCM_VOL,
         Volume!MAX_PCM_VOL, Volume!AMP_VOL_PCM_MUTE

LEMMA VolumeWritten ==
    ASSUME OfRegister(volume)
    PROVE  /\ \A v \in Int : OfRegister(Volume!SetVol(v))
           /\ \A v : Audible(v) => Volume!Heard(Volume!SetVol(v)) = v
  <1>1. volume \in Int
    BY DEF OfRegister
  <1>2. /\ \A v \in Int : OfRegister(Volume!SetOver(volume, v))
        /\ \A v : Audible(v) => Volume!Heard(Volume!SetOver(volume, v)) = v
    BY <1>1, VolumeSet
  <1> QED BY <1>2, Zenon DEF Volume!SetVol

LEMMA VolumeSlope ==
    ASSUME NEW t, NEW from \in Nat, NEW to \in Nat
    PROVE  /\ Volume!First(t, from, to) \in {from, to}
           /\ Volume!Reached(t, from, to) \in Nat
           /\ to <= 913 => Volume!Reached(t, from, to) \in {to - 1, to}
  <1>1. to - from \in Int /\ (~(to - from <= 0) => to - 1 \in Nat)
    OBVIOUS
  <1>2. Volume!Last(t, from, to) = to \/ (~(to - from <= 0) /\ Volume!Last(t, from, to) = to - 1)
    BY ZenonT(60) DEF Volume!Last
  <1> QED BY <1>1, <1>2 DEF Volume!First, Volume!Reached, Volume!MAX_PCM_VOL

VolumeNumbers ==
    /\ tuned_by \in {"attenuation", "time", "timeout"}
    /\ pc \in {<<"idle", 0>>} \cup ({"volume"} \X Nat) \cup ({"manual"} \X {0, 1})
              \cup ({"mode", "ramp"} \X {"SPK", "RCV"})
    /\ amplifier_mode \in Volume!Modes /\ prev_active_dev \in Volume!Modes
    /\ circuit \in {"SPK", "RCV"} /\ ramp \in {"idle", "queued", "knee", "end"}
    /\ volume \in Nat /\ volume < 2048 /\ manual_ramp \in {0, 1}
    /\ knee_y \in Nat /\ end_y \in Nat /\ dig_vol \in Int /\ wanted_vol \in Nat /\ wanted_vol <= 913
    /\ ramp_init_att \in Nat /\ ramp_init_att <= 120
    /\ ramp_knee_att \in Nat /\ ramp_knee_att <= 120
    /\ ramp_knee_time \in Nat /\ ramp_knee_time <= 65535
    /\ ramp_end_time \in Nat /\ ramp_end_time <= 65535
    /\ auto_ramp_timeout \in Nat /\ auto_ramp_timeout <= 65535

LEMMA VolumeNumbersStep ==
    ASSUME DevicesAssumption, VolumeNumbers, [Volume!Next]_volume_vars
    PROVE  VolumeNumbers'
  <1>0. Attenuations \subseteq Int /\ Times \subseteq Int /\ Timeouts \subseteq Int
        /\ Volumes \subseteq Int
    BY Zenon DEF DevicesAssumption, Volume!VolumeAssumption
  <1>a. OfRegister(volume) /\ \A v \in Int : OfRegister(Volume!SetVol(v))
    BY VolumeWritten DEF VolumeNumbers, OfRegister
  <1>b. /\ Volume!InitY \in Nat
        /\ Volume!Floor(dig_vol) \in Nat /\ Volume!Floor(dig_vol - (ramp_knee_att * 8)) \in Nat
    BY DEF VolumeNumbers, Volume!Floor, Volume!InitY
  <1>c. \A v \in Int : v % 2048 \in Nat /\ v % 2048 < 2048
    OBVIOUS
  <1>e. ramp_knee_time \in Nat /\ ramp_end_time \in Nat /\ knee_y \in Nat /\ end_y \in Nat
    BY DEF VolumeNumbers
  <1>1. CASE Volume!VolRampStart
    <2>1. knee_y' \in Nat /\ end_y' \in Nat
      BY <1>1, <1>b, Zenon DEF Volume!VolRampStart
    <2>2. Volume!First(ramp_knee_time, Volume!InitY, knee_y') \in Int
      BY <2>1, <1>b, VolumeSlope
    <2>3. OfRegister(volume')
      BY <2>2, <1>a, <1>1, Zenon DEF Volume!VolRampStart
    <2> QED BY <2>1, <2>3, <1>1 DEF Volume!VolRampStart, VolumeNumbers, OfRegister, Volume!Device,
                                 Volume!Parameters
  <1>2. CASE Volume!VolRampKnee
    <2> DEFINE bent == Volume!SetVol(Volume!Reached(ramp_knee_time, Volume!InitY, knee_y))
               begun == Volume!SetOver(bent, Volume!First(ramp_end_time, knee_y, end_y))
               ended == Volume!SetOver(begun, Volume!Reached(ramp_end_time, knee_y, end_y))
    <2>1. /\ Volume!Reached(ramp_knee_time, Volume!InitY, knee_y) \in Int
          /\ Volume!First(ramp_end_time, knee_y, end_y) \in Int
          /\ Volume!Reached(ramp_end_time, knee_y, end_y) \in Int
      BY <1>b, <1>e, VolumeSlope
    <2>2. OfRegister(bent) /\ bent \in Int
      BY <2>1, <1>a DEF OfRegister
    <2>3. OfRegister(begun) /\ begun \in Int
      BY <2>1, <2>2, VolumeSet DEF OfRegister
    <2>4. OfRegister(ended)
      BY <2>1, <2>3, VolumeSet, Zenon
    <2>5. volume' = begun \/ volume' = ended
      BY <1>2, Zenon DEF Volume!VolRampKnee
    <2>6. OfRegister(volume')
      BY <2>3, <2>4, <2>5, Zenon
    <2> QED BY <2>6, <1>2 DEF Volume!VolRampKnee, VolumeNumbers, OfRegister, Volume!Device,
                            Volume!Parameters
  <1>3. CASE Volume!VolRampEnd
    <2>1. Volume!Reached(ramp_end_time, knee_y, end_y) \in Int
      BY <1>e, VolumeSlope
    <2>2. OfRegister(volume')
      BY <2>1, <1>a, <1>3, Zenon DEF Volume!VolRampEnd
    <2> QED BY <2>2, <1>3 DEF Volume!VolRampEnd, VolumeNumbers, OfRegister, Volume!Device,
                            Volume!Parameters, Volume!RampOver
  <1>11. CASE Volume!PutVolswSx
    <2> PICK v \in Volumes :
          /\ dig_vol' = IF vol_ramp THEN dig_vol ELSE v
          /\ volume' = IF vol_ramp THEN volume ELSE Volume!SetVol(v)
          /\ IF v \in 0 .. Volume!MAX_PCM_VOL
             THEN pc' = <<"volume", v>> /\ wanted_vol' = v /\ strayed' = vol_ramp
             ELSE UNCHANGED <<pc, wanted_vol>> /\ strayed' = (strayed \/ ~vol_ramp)
      BY <1>11, Zenon DEF Volume!PutVolswSx
    <2>1. v \in Int
      BY <1>0
    <2>2. dig_vol' \in Int /\ OfRegister(volume')
      BY <2>1, <1>a DEF VolumeNumbers
    <2>3. (pc' = pc /\ wanted_vol' = wanted_vol)
          \/ (v \in Nat /\ v <= 913 /\ pc' = <<"volume", v>> /\ wanted_vol' = v)
      BY <2>1 DEF Volume!MAX_PCM_VOL
    <2> QED BY <2>2, <2>3, <1>11 DEF Volume!PutVolswSx, Volume!Modes, VolumeNumbers,
                               OfRegister, Volume!Device, Volume!Parameters
  <1> USE DEF VolumeNumbers, OfRegister, Volume!Device, Volume!Parameters, Volume!Work,
              Volume!GlobalEnEv, Volume!AbortRamp, Volume!RampOver
  <1>4. CASE Volume!Stream
    BY <1>a, <1>c, <1>4 DEF Volume!Stream
  <1>5. CASE Volume!TimeoutPasses
    BY <1>a, <1>c, <1>5 DEF Volume!TimeoutPasses
  <1>6. CASE Volume!AmplifierModePut
    BY <1>a, <1>c, <1>6 DEF Volume!AmplifierModePut, Volume!Idle, Volume!MAX_PCM_VOL,
         Volume!Modes
  <1>7. CASE Volume!AmplifierModeSet
    BY <1>a, <1>c, <1>7 DEF Volume!AmplifierModeSet, Volume!Idle, Volume!MAX_PCM_VOL,
         Volume!Modes
  <1>8. CASE Volume!AmplifierModeRamp
    BY <1>a, <1>c, <1>8 DEF Volume!AmplifierModeRamp, Volume!Idle, Volume!MAX_PCM_VOL,
         Volume!Modes
  <1>9. CASE Volume!PutManualRamp
    BY <1>a, <1>c, <1>9 DEF Volume!PutManualRamp, Volume!Idle, Volume!MAX_PCM_VOL, Volume!Modes
  <1>10. CASE Volume!ManualRampSet
    BY <1>a, <1>c, <1>10 DEF Volume!ManualRampSet, Volume!Idle, Volume!MAX_PCM_VOL, Volume!Modes
  <1>12. CASE Volume!VolswSxWrite
    BY <1>a, <1>c, <1>12 DEF Volume!VolswSxWrite, Volume!Idle, Volume!MAX_PCM_VOL,
         Volume!Modes, Volume!AMP_VOL_PCM_MUTE
  <1>13. CASE Volume!PutParameter
    BY <1>0, <1>13 DEF Volume!PutParameter, Volume!PutInitAttenuation,
         Volume!PutKneeAttenuation, Volume!PutRampKneeTime, Volume!PutRampEndTime,
         Volume!PutAutoRampTimeout, Volume!Within, Volume!MAX_VOL_ATT,
         Volume!MAX_AUTO_RAMP_TIMEOUT
  <1>14. CASE UNCHANGED volume_vars
    BY <1>14 DEF volume_vars
  <1> QED BY <1>1, <1>2, <1>3, <1>4, <1>5, <1>6, <1>7, <1>8, <1>9, <1>10, <1>11, <1>12, <1>13,
       <1>14 DEF Volume!Next


LEMMA VolumeTypedStep ==
    ASSUME DevicesAssumption, Volume!TypeOK, [Volume!Next]_volume_vars
    PROVE  Volume!TypeOK'
  <1>1. VolumeFlags /\ VolumeNumbers
    BY DEF Volume!TypeOK, VolumeFlags, VolumeNumbers, Volume!MAX_PCM_VOL, Volume!MAX_VOL_ATT,
           Volume!MAX_AUTO_RAMP_TIMEOUT
  <1>2. VolumeFlags' /\ VolumeNumbers'
    BY <1>1, VolumeFlagsStep, VolumeNumbersStep
  <1> QED BY <1>2 DEF Volume!TypeOK, VolumeFlags, VolumeNumbers, Volume!MAX_PCM_VOL,
                      Volume!MAX_VOL_ATT, Volume!MAX_AUTO_RAMP_TIMEOUT

(* The pin is down while the circuit is changed, and a ramp goes from the volume at its
   knee to the one that is set, which no store changes meanwhile. *)
Ramping == ramp \in {"knee", "end"}

VolumeInv ==
    /\ pc[1] = "mode" => ~spk /\ ~global_en
    /\ vol_ramp <=> Ramping
    /\ Ramping => end_y = Volume!Floor(dig_vol) /\ knee_y <= end_y
    /\ ~strayed =>
          /\ dig_vol = wanted_vol
          /\ pc[1] = "volume" => pc[2] = dig_vol
          /\ Volume!Heard(volume) <= dig_vol
          /\ ~Ramping => Volume!Heard(volume) \in {dig_vol - 1, dig_vol}

(* On a ramp to a volume in range, what is written can be heard. *)
LEMMA VolumeRamped ==
    ASSUME VolumeFlags, VolumeNumbers, VolumeInv, ~strayed
    PROVE  /\ Volume!Floor(dig_vol) = dig_vol /\ Audible(dig_vol)
           /\ Volume!InitY \in Nat /\ Volume!InitY <= dig_vol
           /\ Volume!Floor(dig_vol - (ramp_knee_att * 8)) \in Nat
           /\ Volume!Floor(dig_vol - (ramp_knee_att * 8)) <= dig_vol
  <1>1. dig_vol \in Nat /\ dig_vol <= 913
    BY DEF VolumeInv, VolumeNumbers
  <1>2. /\ dig_vol - (ramp_knee_att * 8) \in Int /\ dig_vol - (ramp_knee_att * 8) <= dig_vol
        /\ dig_vol - (ramp_init_att * 8) \in Int /\ dig_vol - (ramp_init_att * 8) <= dig_vol
    BY <1>1 DEF VolumeNumbers
  <1> QED BY <1>1, <1>2 DEF Volume!Floor, Volume!InitY, Audible

(* What a ramp writes then: *)
Below(v) == Audible(v) /\ v <= dig_vol
Reaching(v) == Audible(v) /\ v \in {dig_vol - 1, dig_vol}

LEMMA VolumeSloped ==
    ASSUME NEW t, NEW from \in Nat, NEW to \in Nat, Audible(dig_vol), from <= dig_vol,
           to <= dig_vol
    PROVE  /\ Below(Volume!First(t, from, to)) /\ Below(Volume!Reached(t, from, to))
           /\ to = dig_vol => Reaching(Volume!Reached(t, from, to))
  <1>1. to <= 913 /\ from <= 913
    BY DEF Audible
  <1>2. /\ Volume!First(t, from, to) \in {from, to}
        /\ Volume!Reached(t, from, to) \in Nat
        /\ Volume!Reached(t, from, to) \in {to - 1, to}
    BY <1>1, VolumeSlope
  <1> QED BY <1>1, <1>2 DEF Audible, Below, Reaching

(* One step of a ramp that is to a volume in range. *)
LEMMA VolumeRampHeard ==
    ASSUME VolumeFlags, VolumeNumbers, VolumeInv, ~strayed
    PROVE  /\ Volume!VolRampStart => Below(Volume!Heard(volume'))
           /\ Volume!VolRampKnee => Below(Volume!Heard(volume'))
           /\ Volume!VolRampEnd => Reaching(Volume!Heard(volume'))
  <1>1. OfRegister(volume) /\ ramp_knee_time \in Nat /\ ramp_end_time \in Nat /\ end_y \in Nat
        /\ knee_y \in Nat
    BY DEF VolumeNumbers, OfRegister
  <1>2. /\ Volume!Floor(dig_vol) = dig_vol /\ Audible(dig_vol)
        /\ Volume!InitY \in Nat /\ Volume!InitY <= dig_vol
        /\ Volume!Floor(dig_vol - (ramp_knee_att * 8)) \in Nat
        /\ Volume!Floor(dig_vol - (ramp_knee_att * 8)) <= dig_vol
    BY VolumeRamped
  <1>3. \A v : Audible(v) => Volume!Heard(Volume!SetVol(v)) = v
    BY <1>1, VolumeWritten
  <1>4. ASSUME Volume!VolRampStart PROVE Below(Volume!Heard(volume'))
    <2>1. knee_y' \in Nat /\ knee_y' <= dig_vol
      BY <1>2, <1>4, Zenon DEF Volume!VolRampStart
    <2>2. Below(Volume!First(ramp_knee_time, Volume!InitY, knee_y'))
      BY <1>2, <2>1, VolumeSloped
    <2>3. volume' = Volume!SetVol(Volume!First(ramp_knee_time, Volume!InitY, knee_y'))
      BY <1>4, Zenon DEF Volume!VolRampStart
    <2> QED BY <1>3, <2>2, <2>3, Zenon DEF Below
  <1>5. Ramping => end_y = dig_vol /\ knee_y <= dig_vol
    BY <1>2 DEF VolumeInv
  <1>6. ASSUME Volume!VolRampKnee PROVE Below(Volume!Heard(volume'))
    <2> DEFINE bent == Volume!SetVol(Volume!Reached(ramp_knee_time, Volume!InitY, knee_y))
               begun == Volume!SetOver(bent, Volume!First(ramp_end_time, knee_y, end_y))
               ended == Volume!SetOver(begun, Volume!Reached(ramp_end_time, knee_y, end_y))
    <2>0. Ramping
      BY <1>6 DEF Volume!VolRampKnee, Ramping
    <2>1. end_y = dig_vol /\ knee_y <= dig_vol /\ end_y <= dig_vol
      BY <1>1, <1>5, <2>0
    <2>2. /\ Below(Volume!First(ramp_end_time, knee_y, end_y))
          /\ Below(Volume!Reached(ramp_end_time, knee_y, end_y))
      BY <1>1, <1>2, <2>1, VolumeSloped
    <2>3. Volume!Heard(begun) = Volume!First(ramp_end_time, knee_y, end_y)
      BY <2>2, VolumeSet DEF Below
    <2>4. Volume!Heard(ended) = Volume!Reached(ramp_end_time, knee_y, end_y)
      BY <2>2, VolumeSet DEF Below
    <2>5. volume' = begun \/ volume' = ended
      BY <1>6, Zenon DEF Volume!VolRampKnee
    <2> QED BY <2>2, <2>3, <2>4, <2>5, Zenon
  <1>7. ASSUME Volume!VolRampEnd PROVE Reaching(Volume!Heard(volume'))
    <2>0. Ramping
      BY <1>7, Zenon DEF Volume!VolRampEnd, Ramping
    <2>1. end_y = dig_vol /\ knee_y <= dig_vol /\ end_y <= dig_vol
      BY <1>1, <1>5, <2>0
    <2>2. Reaching(Volume!Reached(ramp_end_time, knee_y, end_y))
      BY <1>1, <1>2, <2>1, VolumeSloped
    <2>3. volume' = Volume!SetVol(Volume!Reached(ramp_end_time, knee_y, end_y))
      BY <1>7, Zenon DEF Volume!VolRampEnd
    <2> QED BY <1>3, <2>2, <2>3, Zenon DEF Reaching
  <1> QED BY <1>4, <1>6, <1>7

LEMMA VolumeInvStep ==
    ASSUME DevicesAssumption, Volume!TypeOK, VolumeInv, [Volume!Next]_volume_vars
    PROVE  VolumeInv'
  <1>0. VolumeFlags /\ VolumeNumbers
    BY DEF Volume!TypeOK, VolumeFlags, VolumeNumbers, Volume!MAX_PCM_VOL, Volume!MAX_VOL_ATT,
           Volume!MAX_AUTO_RAMP_TIMEOUT
  <1>a. OfRegister(volume)
    BY <1>0 DEF VolumeNumbers, OfRegister
  <1>b. \A v \in Nat : v <= 913 => Volume!Heard(Volume!SetVol(v)) = v
    BY <1>a, VolumeWritten DEF Audible
  <1>c. \A v \in Nat : v <= 913 => Volume!Heard((v + 1231) % 2048) = v
    BY VolumeSet DEF Audible
  <1>d. ~strayed => /\ Volume!VolRampStart \/ Volume!VolRampKnee =>
                           Volume!Heard(volume') <= dig_vol
                    /\ Volume!VolRampEnd =>
                           /\ Volume!Heard(volume') <= dig_vol
                           /\ Volume!Heard(volume') \in {dig_vol - 1, dig_vol}
    <2>1. \A v : (Below(v) => v <= dig_vol)
                  /\ (Reaching(v) => v <= dig_vol /\ v \in {dig_vol - 1, dig_vol})
      BY <1>0 DEF Below, Reaching, VolumeNumbers
    <2> QED BY <1>0, <2>1, VolumeRampHeard, Zenon
  <1>e. \A v \in Int : Volume!Floor(v) \in Nat
    BY DEF Volume!Floor
  <1>f. (Volume!Heard(volume))' = Volume!Heard(volume')
    BY Zenon DEF Volume!Heard
  <1>g. (Volume!Floor(dig_vol))' = Volume!Floor(dig_vol')
    BY Zenon DEF Volume!Floor
  <1>1. CASE Volume!VolRampStart
    <2>1. knee_y' <= end_y'
      BY <1>0, <1>1 DEF Volume!VolRampStart, Volume!Floor, VolumeNumbers
    <2>2. dig_vol' = dig_vol /\ end_y' = Volume!Floor(dig_vol) /\ ramp' = "knee" /\ vol_ramp' = TRUE
          /\ UNCHANGED <<pc, spk, global_en, strayed, wanted_vol>>
      BY <1>1, Zenon DEF Volume!VolRampStart, Volume!Device
    <2>3. (~strayed => Volume!Heard(volume') <= dig_vol) /\ ramp = "queued"
      BY <1>1, <1>d, Zenon DEF Volume!VolRampStart
    <2> QED BY <1>f, <1>g, <2>1, <2>2, <2>3 DEF VolumeInv, Ramping
  <1>2. CASE Volume!VolRampKnee
    <2>2. dig_vol' = dig_vol /\ ramp = "knee" /\ ramp' = "end"
          /\ UNCHANGED <<pc, spk, global_en, strayed, wanted_vol, vol_ramp, knee_y, end_y>>
      BY <1>2 DEF Volume!VolRampKnee, Volume!Device
    <2> QED BY <1>2, <1>d, <1>f, <1>g, <2>2 DEF VolumeInv, Ramping
  <1>3. CASE Volume!VolRampEnd
    <2>2. dig_vol' = dig_vol /\ ramp' = "idle" /\ vol_ramp' = FALSE
          /\ UNCHANGED <<pc, spk, global_en, strayed, wanted_vol>>
      BY <1>3, Zenon DEF Volume!VolRampEnd, Volume!Device, Volume!RampOver
    <2> QED BY <1>3, <1>d, <1>f, <2>2 DEF VolumeInv, Ramping
  <1>11. CASE Volume!PutVolswSx
    <2>0. Volumes \subseteq Int
      BY Zenon DEF DevicesAssumption, Volume!VolumeAssumption
    <2> PICK v \in Volumes :
          /\ dig_vol' = IF vol_ramp THEN dig_vol ELSE v
          /\ volume' = IF vol_ramp THEN volume ELSE Volume!SetVol(v)
          /\ IF v \in 0 .. Volume!MAX_PCM_VOL
             THEN pc' = <<"volume", v>> /\ wanted_vol' = v /\ strayed' = vol_ramp
             ELSE UNCHANGED <<pc, wanted_vol>> /\ strayed' = (strayed \/ ~vol_ramp)
      BY <1>11, Zenon DEF Volume!PutVolswSx
    <2>1. UNCHANGED <<spk, global_en, vol_ramp, ramp, knee_y, end_y>> /\ pc = Volume!Idle
      BY <1>11, Zenon DEF Volume!PutVolswSx, Volume!Device
    <2>2. v \in Int /\ vol_ramp \in BOOLEAN /\ strayed \in BOOLEAN
      BY <1>0, <2>0 DEF VolumeFlags
    <2>3. CASE vol_ramp
      <3>1. dig_vol' = dig_vol /\ volume' = volume /\ Ramping
        BY <2>3 DEF VolumeInv
      <3>2. \/ strayed' /\ pc' = <<"volume", v>>
            \/ (strayed' => strayed) /\ (strayed => strayed') /\ UNCHANGED <<pc, wanted_vol>>
        <4>1. \/ strayed' = vol_ramp /\ pc' = <<"volume", v>>
              \/ strayed' = (strayed \/ ~vol_ramp) /\ UNCHANGED <<pc, wanted_vol>>
          BY Zenon
        <4> QED BY <4>1, <2>3, Zenon
      <3>4. pc'[1] # "mode"
        BY <2>1, <3>2 DEF Volume!Idle
      <3> QED BY <1>f, <1>g, <2>1, <3>1, <3>2, <3>4 DEF VolumeInv, Ramping
    <2>4. CASE ~vol_ramp
      <3>1. dig_vol' = v /\ volume' = Volume!SetVol(v) /\ ~Ramping /\ ~Ramping'
        BY <2>1, <2>4 DEF VolumeInv, Ramping
      <3>2. (~strayed)' => v \in Nat /\ v <= 913 /\ pc' = <<"volume", v>> /\ wanted_vol' = v
        <4>1. strayed' \/ (v \in 0 .. Volume!MAX_PCM_VOL /\ pc' = <<"volume", v>> /\ wanted_vol' = v)
          BY <2>4, Zenon
        <4> QED BY <4>1, <2>2 DEF Volume!MAX_PCM_VOL
      <3>3. pc'[1] # "mode"
        <4>1. pc' = pc \/ pc' = <<"volume", v>>
          BY Zenon
        <4> QED BY <4>1, <2>1 DEF Volume!Idle
      <3>4. (~strayed)' => Volume!Heard(volume') = v
        BY <1>b, <3>1, <3>2
      <3> QED BY <1>f, <2>1, <2>2, <2>4, <3>1, <3>2, <3>3, <3>4 DEF VolumeInv
    <2> QED BY <2>3, <2>4
  <1> USE <1>0 DEF VolumeInv, Ramping, VolumeFlags, VolumeNumbers, Volume!Device,
                   Volume!Parameters, Volume!Work, Volume!GlobalEnEv, Volume!AbortRamp,
                   Volume!RampOver
  <1>4. CASE Volume!Stream
    BY <1>b, <1>c, <1>f, <1>g, <1>4 DEF Volume!Stream
  <1>5. CASE Volume!TimeoutPasses
    BY <1>b, <1>c, <1>f, <1>g, <1>5 DEF Volume!TimeoutPasses
  <1>6. CASE Volume!AmplifierModePut
    BY <1>b, <1>c, <1>f, <1>g, <1>6 DEF Volume!AmplifierModePut, Volume!Idle, Volume!MAX_PCM_VOL,
         Volume!AMP_VOL_PCM_MUTE
  <1>7. CASE Volume!AmplifierModeSet
    BY <1>b, <1>c, <1>f, <1>g, <1>7 DEF Volume!AmplifierModeSet, Volume!Idle, Volume!MAX_PCM_VOL,
         Volume!AMP_VOL_PCM_MUTE
  <1>8. CASE Volume!AmplifierModeRamp
    BY <1>b, <1>c, <1>f, <1>g, <1>8 DEF Volume!AmplifierModeRamp, Volume!Idle, Volume!MAX_PCM_VOL,
         Volume!AMP_VOL_PCM_MUTE
  <1>9. CASE Volume!PutManualRamp
    BY <1>b, <1>c, <1>f, <1>g, <1>9 DEF Volume!PutManualRamp, Volume!Idle, Volume!MAX_PCM_VOL,
         Volume!AMP_VOL_PCM_MUTE
  <1>10. CASE Volume!ManualRampSet
    BY <1>b, <1>c, <1>f, <1>g, <1>10 DEF Volume!ManualRampSet, Volume!Idle, Volume!MAX_PCM_VOL,
         Volume!AMP_VOL_PCM_MUTE
  <1>12. CASE Volume!VolswSxWrite
    BY <1>b, <1>c, <1>f, <1>g, <1>12 DEF Volume!VolswSxWrite, Volume!Idle, Volume!MAX_PCM_VOL,
         Volume!AMP_VOL_PCM_MUTE
  <1>13. CASE Volume!PutParameter
    BY <1>b, <1>c, <1>f, <1>g, <1>13 DEF Volume!PutParameter, Volume!Idle, Volume!MAX_PCM_VOL,
         Volume!AMP_VOL_PCM_MUTE
  <1>14. CASE UNCHANGED volume_vars
    BY <1>14 DEF volume_vars
  <1> QED BY <1>1, <1>2, <1>3, <1>4, <1>5, <1>6, <1>7, <1>8, <1>9, <1>10, <1>11, <1>12, <1>13,
       <1>14 DEF Volume!Next

LEMMA VolumeInit ==
    ASSUME Volume!Init
    PROVE  Volume!TypeOK /\ VolumeInv
  <1> USE DEF Volume!Init, Volume!Idle, Volume!ZERO_PCM_VOL
  <1>1. VolumeFlags
    BY Zenon DEF VolumeFlags
  <1>2. VolumeNumbers
    BY DEF VolumeNumbers, Volume!Modes
  <1>3. Volume!TypeOK
    BY <1>1, <1>2 DEF Volume!TypeOK, VolumeFlags, VolumeNumbers, Volume!MAX_PCM_VOL,
       Volume!MAX_VOL_ATT, Volume!MAX_AUTO_RAMP_TIMEOUT
  <1>4. Volume!Heard(volume) = dig_vol
    BY DEF Volume!Heard, Volume!MAX_PCM_VOL, Volume!AMP_VOL_PCM_MUTE
  <1>5. VolumeInv
    BY <1>4 DEF VolumeInv, Ramping
  <1> QED BY <1>3, <1>5

LEMMA VolumeHeld ==
    ASSUME Volume!TypeOK, VolumeInv
    PROVE  Volume!VolumeSafe
  <1>1. ramp \in {"idle", "queued"} => ~Ramping
    BY DEF Ramping
  <1> QED BY <1>1, Zenon DEF VolumeInv, Volume!VolumeSafe

--------------------------------------------------------------------------------
(* CsDsp: the firmware of the CS35L45's DSP and its controls *)

LEMMA FirmwareTypedStep ==
    ASSUME Firmware!TypeOK, [Firmware!Next]_dsp_vars
    PROVE  Firmware!TypeOK'
  <1>0. /\ Firmware!Tuned(fw) \in Firmware!Values /\ Firmware!SyncControls \in Firmware!Values /\ Firmware!Enabled(fw) \in BOOLEAN
        /\ Firmware!InitControlCaches(fw) \in Firmware!Values
        /\ kind = "legacy" => Firmware!ReadCtrl \in Firmware!Values
        /\ \A v \in Inputs : Firmware!Raw(v) \in Firmware!Values /\ v \in Firmware!Values
    BY DEF Firmware!TypeOK, Firmware!Values, Firmware!Tuned, Firmware!Loaded,
         Firmware!SyncControls, Firmware!Raw, Firmware!InitControlCaches, Firmware!Enabled,
         Firmware!Defined, Firmware!ReadCtrl
  <1> USE DEF Firmware!TypeOK, Firmware!Fixed, Firmware!Chip, Firmware!Firmware
  <1>1. CASE Firmware!FwPut \/ Firmware!PreloadOff
    BY <1>1 DEF Firmware!FwPut, Firmware!PreloadOff
  <1>2. CASE Firmware!PreloadOn
    <2>1. listed' \in BOOLEAN /\ enabled' \in BOOLEAN /\ booted' \in BOOLEAN /\ preload' \in BOOLEAN
      BY <1>0, <1>2, Zenon DEF Firmware!PreloadOn, Firmware!PowerUp
    <2>2. cache_ctl' \in Firmware!Values /\ code' \in Firmware!Firmware \cup {"none"} /\ mem' \in Firmware!Values
      BY <1>0, <1>2 DEF Firmware!PreloadOn, Firmware!PowerUp, Firmware!Values
    <2> QED BY <1>2, <2>1, <2>2 DEF Firmware!PreloadOn
  <1>3. CASE Firmware!BootOn
    BY <1>0, <1>3 DEF Firmware!BootOn, Firmware!Run
  <1>4. CASE Firmware!BootOff
    BY <1>4 DEF Firmware!BootOff, Firmware!PowerDown, Firmware!Values
  <1>5. CASE Firmware!Put
    BY <1>0, <1>5 DEF Firmware!Put, Firmware!WriteCtrl
  <1>6. CASE Firmware!TlvPutFails \/ Firmware!PutAcked \/ Firmware!DspRuns
    BY <1>6 DEF Firmware!TlvPutFails, Firmware!PutAcked, Firmware!DspRuns, Firmware!Values
  <1>7. CASE Firmware!Get
    BY <1>0, <1>7 DEF Firmware!Get
  <1>8. CASE UNCHANGED dsp_vars
    BY <1>8 DEF dsp_vars
  <1> QED BY <1>1, <1>2, <1>3, <1>4, <1>5, <1>6, <1>7, <1>8 DEF Firmware!Next

(* A control is enabled only while its own firmware is loaded: another is chosen, and then
   loaded, only after the DSP was powered down, which disables it. *)
FirmwareOwner ==
    /\ enabled => booted /\ fw = Mine /\ code = Mine
    /\ running => booted
    /\ code = Other => mem = "foreign"

(* The cache of a parameter has what was stored; the DSP agrees with it once it runs, and
   before that if nothing was stored. *)
FirmwareAgrees ==
    /\ wanted_ctl # "none" => set
    /\ set => cache_ctl = wanted_ctl /\ wanted_ctl # "none"
    /\ enabled /\ (set => running) => mem = cache_ctl

FirmwareInv ==
    /\ Firmware!TypeOK
    /\ setup_dsp = "sound" => FirmwareOwner
    /\ setup_dsp = "sound" /\ kind = "param" => FirmwareAgrees

LEMMA FirmwareInit ==
    ASSUME Firmware!Init
    PROVE  FirmwareInv
  <1>1. Mine # Other /\ "none" \notin {Mine, Other}
    BY DevicesAssumption DEF DevicesAssumption, Firmware!CsDspAssumption
  <1> QED BY <1>1 DEF Firmware!Init, FirmwareInv, Firmware!TypeOK, Firmware!Values,
       Firmware!Firmware, FirmwareOwner, FirmwareAgrees

LEMMA FirmwareStep ==
    ASSUME FirmwareInv, [Firmware!Next]_dsp_vars
    PROVE  FirmwareInv'
  <1>1. Firmware!TypeOK'
    BY FirmwareTypedStep DEF FirmwareInv
  <1>2. Mine # Other /\ "none" \notin {Mine, Other} /\ "none" \notin Inputs
    BY DevicesAssumption DEF DevicesAssumption, Firmware!CsDspAssumption
  <1>3. ASSUME setup_dsp' = "sound" PROVE FirmwareOwner' /\ (kind' = "param" => FirmwareAgrees')
    <2>0. UNCHANGED Firmware!Fixed
      BY DEF Firmware!Next, dsp_vars, Firmware!Fixed, Firmware!FwPut, Firmware!PreloadOn,
           Firmware!PreloadOff, Firmware!BootOn, Firmware!BootOff, Firmware!Put,
           Firmware!TlvPutFails,
             Firmware!PutAcked, Firmware!Get, Firmware!DspRuns
    <2>a. Firmware!TypeOK /\ setup_dsp = "sound" /\ FirmwareOwner /\ (kind = "param" => FirmwareAgrees)
      BY <1>3, <2>0 DEF FirmwareInv, Firmware!Fixed
    <2> USE <1>2, <2>0, <2>a DEF FirmwareOwner, FirmwareAgrees, Firmware!TypeOK,
         Firmware!Fixed, Firmware!Chip, Firmware!Firmware
    <2>1. CASE Firmware!FwPut \/ Firmware!PreloadOff
      BY <2>1 DEF Firmware!FwPut, Firmware!PreloadOff
    <2>2. CASE Firmware!PreloadOn
      BY <2>2 DEF Firmware!PreloadOn, Firmware!PowerUp, Firmware!Enabled, Firmware!Defined,
           Firmware!InitControlCaches, Firmware!Tuned, Firmware!Loaded
    <2>3. CASE Firmware!BootOn
      BY <2>3 DEF Firmware!BootOn, Firmware!Run, Firmware!SyncControls, Firmware!Raw
    <2>4. CASE Firmware!BootOff
      BY <2>4 DEF Firmware!BootOff, Firmware!PowerDown
    <2>5. CASE Firmware!Put
      BY <2>5 DEF Firmware!Put, Firmware!WriteCtrl, Firmware!Raw
    <2>6. CASE Firmware!TlvPutFails \/ Firmware!PutAcked \/ Firmware!Get \/ Firmware!DspRuns
      BY <2>6 DEF Firmware!TlvPutFails, Firmware!PutAcked, Firmware!Get, Firmware!DspRuns
    <2>7. CASE UNCHANGED dsp_vars
      BY <2>7 DEF dsp_vars
    <2> QED BY <2>1, <2>2, <2>3, <2>4, <2>5, <2>6, <2>7 DEF Firmware!Next
  <1> QED BY <1>1, <1>3 DEF FirmwareInv

LEMMA FirmwareSafe ==
    ASSUME FirmwareInv
    PROVE  Firmware!ControlsTrue /\ Firmware!ForeignUntouched
  BY DevicesAssumption
     DEF DevicesAssumption, Firmware!CsDspAssumption, FirmwareInv, FirmwareOwner,
          FirmwareAgrees,
         Firmware!ControlsTrue, Firmware!ForeignUntouched, Firmware!ReadCtrl

--------------------------------------------------------------------------------
(* AdspStream: first, arithmetic of a ring of any size *)

LEMMA Division ==
    ASSUME NEW n \in Nat \ {0}, NEW t \in Int
    PROVE  \E q \in Int, r \in Nat : r = t % n /\ r < n /\ t = n * q + r
  <1> DEFINE q == t \div n  r == t % n
  <1>1. r \in Nat /\ r < n
    OBVIOUS
  <1>2. q \in Int
    OBVIOUS
  <1>3. q = t \div n /\ r = t % n
    OBVIOUS
  <1> HIDE DEF q, r
  <1>4. t = n * q + r
    BY <1>3
  <1> QED BY <1>1, <1>2, <1>3, <1>4

LEMMA TimesBound ==
    ASSUME NEW n \in Nat \ {0}, NEW k \in Int, k >= 1
    PROVE  n * k >= n
  OBVIOUS

LEMMA RemainderUnique ==
    ASSUME NEW n \in Nat \ {0}, NEW q \in Int, NEW p \in Int, NEW r \in Nat, NEW s \in Nat,
           r < n, s < n, n * q + r = n * p + s
    PROVE  r = s
  <1>1. q = p \/ q - p >= 1 \/ p - q >= 1
    OBVIOUS
  <1>2. n * (q - p) = s - r /\ n * (p - q) = r - s
    OBVIOUS
  <1>3. CASE q - p >= 1
    <2>1. n * (q - p) >= n
      BY <1>3, TimesBound
    <2> QED BY <1>2, <2>1
  <1>4. CASE p - q >= 1
    <2>1. n * (p - q) >= n
      BY <1>4, TimesBound
    <2> QED BY <1>2, <2>1
  <1> QED BY <1>1, <1>2, <1>3, <1>4

(* A step of at most the ring's size goes on or wraps once. *)
LEMMA ModPlus ==
    ASSUME NEW n \in Nat \ {0}, NEW t \in Int, NEW d \in Nat, d <= n
    PROVE  (t + d) % n = IF (t % n) + d < n THEN (t % n) + d ELSE (t % n) + d - n
  <1>1. PICK q \in Int, r \in Nat : r = t % n /\ r < n /\ t = n * q + r
    BY Division
  <1>2. PICK p \in Int, s \in Nat : s = (t + d) % n /\ s < n /\ t + d = n * p + s
    <2>1. t + d \in Int
      OBVIOUS
    <2> QED BY <2>1, Division
  <1>3. t = n * q + r /\ t + d = n * p + s
    BY <1>1, <1>2
  <1>4. CASE r + d < n
    <2>1. n * q + (r + d) = n * p + s
      BY <1>3
    <2>2. r + d = s
      <3>1. r + d \in Nat
        BY <1>1
      <3> QED BY <1>1, <1>2, <1>4, <2>1, <3>1, RemainderUnique
    <2> QED BY <1>1, <1>2, <1>4, <2>2
  <1>5. CASE ~(r + d < n)
    <2>1. n * (q + 1) + (r + d - n) = n * p + s
      BY <1>3
    <2>2. r + d - n = s
      <3>1. r + d - n \in Nat /\ r + d - n < n /\ q + 1 \in Int
        BY <1>1, <1>5
      <3> QED BY <1>1, <1>2, <2>1, <3>1, RemainderUnique
    <2> QED BY <1>1, <1>2, <1>5, <2>2
  <1> QED BY <1>4, <1>5

LEMMA ModSmall ==
    ASSUME NEW n \in Nat \ {0}, NEW d \in Nat, d < n
    PROVE  d % n = d
  <1>1. PICK q \in Int, r \in Nat : r = d % n /\ r < n /\ d = n * q + r
    <2>1. d \in Int
      OBVIOUS
    <2> QED BY <2>1, Division
  <1>2. n * 0 + d = n * q + r
    BY <1>1
  <1> QED BY <1>1, <1>2, RemainderUnique

(* From one index to another of the ring it is as far as they were moved apart, *)
LEMMA ModMinus ==
    ASSUME NEW n \in Nat \ {0}, NEW t \in Int, NEW d \in Nat, d < n, NEW r, r = t % n
    PROVE  /\ r \in Nat /\ r < n
           /\ \/ (t + d) % n = r + d /\ r + d < n
              \/ (t + d) % n = r + d - n /\ r + d >= n
  <1>1. r \in Nat /\ r < n
    <2>1. PICK q \in Int, r1 \in Nat : r1 = t % n /\ r1 < n /\ t = n * q + r1
      BY Division
    <2> QED BY <2>1
  <1>2. \A x : x = t % n => (t + d) % n = IF x + d < n THEN x + d ELSE x + d - n
    <2>1. d <= n
      OBVIOUS
    <2> QED BY <2>1, ModPlus, Zenon
  <1>3. PICK e : e = (t + d) % n
    OBVIOUS
  <1>4. \/ e = r + d /\ r + d < n
        \/ e = r + d - n /\ r + d >= n
    BY <1>1, <1>2, <1>3
  <1> QED BY <1>1, <1>3, <1>4, Zenon

LEMMA ModApart ==
    ASSUME NEW n \in Nat \ {0}, NEW t \in Int, NEW d \in Nat, d < n, NEW r, r = t % n
    PROVE  (((t + d) % n) - r) % n = d
  <1>1. PICK e : e = (t + d) % n
    OBVIOUS
  <1>2. /\ r \in Nat /\ r < n
        /\ \/ e = r + d /\ r + d < n
           \/ e = r + d - n /\ r + d >= n
    BY <1>1, ModMinus, Zenon
  <1>5. d % n = d
    BY ModSmall
  <1>6. (d - n) % n = d
    <2>1. PICK q \in Int, s \in Nat : s = (d - n) % n /\ s < n /\ d - n = n * q + s
      <3>1. d - n \in Int
        OBVIOUS
      <3> QED BY <3>1, Division
    <2>2. n * (q + 1) + s = n * 0 + d /\ q + 1 \in Int
      <3>1. n * (q + 1) = n * q + n
        OBVIOUS
      <3>2. d - n = n * q + s
        BY <2>1
      <3> QED BY <3>1, <3>2
    <2>3. s = d
      BY <2>1, <2>2, RemainderUnique
    <2> QED BY <2>1, <2>3
  <1>7. e - r = d \/ e - r = d - n
    BY <1>2
  <1> QED BY <1>1, <1>5, <1>6, <1>7, Zenon

(* and an index is moved as the number it stands for is. *)
LEMMA ModTwice ==
    ASSUME NEW n \in Nat \ {0}, NEW t \in Int, NEW d \in Nat, d <= n, NEW r, r = t % n
    PROVE  (r + d) % n = (t + d) % n /\ (t + d) % n \in Nat /\ (t + d) % n < n
  <1>1. r \in Nat /\ r < n
    <2>1. PICK q \in Int, r1 \in Nat : r1 = t % n /\ r1 < n /\ t = n * q + r1
      BY Division
    <2> QED BY <2>1
  <1>2. PICK e, f : e = (t + d) % n /\ f = (r + d) % n
    OBVIOUS
  <1>3. \A x : x = t % n => (t + d) % n = IF x + d < n THEN x + d ELSE x + d - n
    BY ModPlus, Zenon
  <1>4. r % n = r
    BY <1>1, ModSmall
  <1>5. r \in Int /\ \A x : x = r % n => (r + d) % n = IF x + d < n THEN x + d ELSE x + d - n
    <2>1. r \in Int
      BY <1>1
    <2> QED BY <2>1, ModPlus, Zenon
  <1>6. e = (IF r + d < n THEN r + d ELSE r + d - n) /\ f = e
    BY <1>2, <1>3, <1>4, <1>5, Zenon
  <1>7. e \in Nat /\ e < n
    BY <1>1, <1>6
  <1> QED BY <1>2, <1>6, <1>7, Zenon

--------------------------------------------------------------------------------
(* Then the ring of two regions. *)

LEMMA StreamRing ==
    /\ FirstWords \in Nat \ {0} /\ SecondWords \in Nat \ {0} /\ Stream!RegionIds = {1, 2}
    /\ Stream!cumulative_size[0] = 0 /\ Stream!cumulative_size[1] = FirstWords
    /\ Stream!cumulative_size[2] = FirstWords + SecondWords /\ Stream!Size = FirstWords + SecondWords
  <1>1. DOMAIN <<FirstWords, SecondWords>> = {1, 2} /\ <<FirstWords, SecondWords>>[1] = FirstWords
        /\ <<FirstWords, SecondWords>>[2] = SecondWords
    OBVIOUS
  <1>2. FirstWords \in Nat \ {0} /\ SecondWords \in Nat \ {0}
    BY <1>1, DevicesAssumption, Zenon DEF DevicesAssumption, Stream!StreamAssumption
  <1>3. Stream!RegionIds = {1, 2}
    BY <1>1 DEF Stream!RegionIds
  <1> DEFINE F(f) == [r \in {0, 1, 2} |-> IF r \in {1, 2} THEN f[r - 1] + <<FirstWords, SecondWords>>[r] ELSE 0]
             g == [r \in {0, 1, 2} |-> IF r = 0 THEN 0 ELSE IF r = 1 THEN FirstWords ELSE FirstWords + SecondWords]
  <1>4. g = F(g)
    BY <1>1, <1>2
  <1>5. Stream!cumulative_size = CHOOSE f : f = F(f)
    BY <1>3 DEF Stream!cumulative_size
  <1>6. Stream!cumulative_size = F(Stream!cumulative_size)
    BY <1>4, <1>5
  <1>7. Stream!cumulative_size[0] = 0 /\ Stream!cumulative_size[1] = FirstWords
        /\ Stream!cumulative_size[2] = FirstWords + SecondWords
    BY <1>1, <1>2, <1>6
  <1>8. (CHOOSE r \in Stream!RegionIds : r + 1 \notin Stream!RegionIds) = 2
    BY <1>3
  <1> QED BY <1>2, <1>3, <1>7, <1>8 DEF Stream!Size

--------------------------------------------------------------------------------
(* Where the next word that is taken is, in the ring. *)
StreamAt == (taken - first) % Stream!Size

(* While the DSP runs, the firmware and the driver are at the same word, the ring never holds
   more words than fit, and the driver never believes in more than were written. *)
StreamRingOK ==
    /\ attached => on
    /\ read_index = -1 => avail = 0
    /\ on => /\ taken + avail <= produced /\ produced - taken < Stream!Size
             /\ next_read_index = -1 => taken = first /\ produced = first
             /\ next_read_index # -1 => next_read_index = StreamAt
             /\ read_index = -1 \/ read_index = next_read_index

StreamCounted ==
    stream # "closed" => /\ origin + copied_total <= taken
                         /\ setup_buf # "faulty" => origin + copied_total = taken

StreamNumbers ==
    /\ setup_buf \in StreamSetups /\ stream \in {"closed", "open", "prepared", "running"}
    /\ frag \in Fragments \cup {0} /\ high_water_mark \in Fragments \cup {0}
    /\ avail \in Nat /\ avail < Stream!Size
    /\ read_index \in Int /\ -1 <= read_index /\ read_index < Stream!Size
    /\ next_read_index \in Int /\ -1 <= next_read_index /\ next_read_index < Stream!Size
    /\ copied_total \in Nat /\ copied_total <= MaxWords /\ produced \in Nat /\ produced <= MaxWords
    /\ first \in Nat /\ first <= MaxWords /\ taken \in Nat /\ taken <= MaxWords
    /\ origin \in Nat /\ origin <= MaxWords

StreamFlags ==
    /\ attached \in BOOLEAN /\ waiting \in BOOLEAN /\ on \in BOOLEAN /\ fatal_error \in BOOLEAN
    /\ irq_odd \in BOOLEAN /\ buf_error \in BOOLEAN /\ error \in BOOLEAN /\ armed \in BOOLEAN
    /\ irq \in BOOLEAN /\ torn \in BOOLEAN

StreamCore == StreamNumbers /\ StreamRingOK /\ StreamCounted

StreamInv == StreamCore /\ StreamFlags /\ ~torn

LEMMA StreamConstants ==
    Stream!Size \in Nat \ {0} /\ MaxWords \in Nat /\ Fragments \subseteq Nat \ {0}
  BY StreamRing, DevicesAssumption DEF DevicesAssumption, Stream!StreamAssumption

LEMMA StreamAtKept ==
    ASSUME UNCHANGED <<taken, first>>
    PROVE  StreamAt' = StreamAt
  BY Zenon DEF StreamAt

(* The firmware counts the words in the ring, *)
LEMMA StreamFilled ==
    ASSUME StreamCore, on, next_read_index # -1
    PROVE  Stream!Filled = produced - taken
  <1> DEFINE t == taken - first  d == produced - taken  n == Stream!Size
  <1>1. n \in Nat \ {0} /\ t \in Int /\ d \in Nat /\ d < n
    BY StreamConstants DEF StreamCore, StreamNumbers, StreamRingOK
  <1>2. t + d = produced - first
    BY DEF StreamCore, StreamNumbers
  <1>3. next_read_index = t % n /\ Stream!next_write_index = (t + d) % n
    <2>1. next_read_index = StreamAt
      BY Zenon DEF StreamCore, StreamRingOK
    <2> QED BY <1>2, <2>1, Zenon DEF StreamAt, Stream!next_write_index
  <1> HIDE DEF t, n
  <1>4. (((t + d) % n) - next_read_index) % n = d
    <2> HIDE DEF d
    <2>1. next_read_index = t % n
      BY <1>3, Zenon
    <2> QED BY <1>1, <2>1, ModApart, Zenon
  <1>5. Stream!Filled = (((t + d) % n) - next_read_index) % n
    BY <1>3, Zenon DEF Stream!Filled, n
  <1> QED BY <1>4, <1>5

(* and so does the driver, once it knows where it reads. *)
LEMMA StreamAvail ==
    ASSUME StreamCore, on
    PROVE  /\ Stream!ReadIndex = -1 => Stream!Avail = avail /\ read_index = -1
           /\ Stream!ReadIndex # -1 => Stream!ReadIndex = next_read_index /\ Stream!Avail = produced - taken
  <1>1. Stream!ReadIndex = -1 => read_index = -1
    BY DEF Stream!ReadIndex, StreamCore, StreamNumbers
  <1>2. Stream!ReadIndex = -1 => Stream!Avail = avail
    BY DEF Stream!Avail
  <1>3. Stream!ReadIndex # -1 => Stream!ReadIndex = next_read_index /\ next_read_index # -1 /\ ~(Stream!ReadIndex < 0)
    BY DEF Stream!ReadIndex, StreamCore, StreamNumbers, StreamRingOK
  <1>4. ASSUME Stream!ReadIndex # -1 PROVE Stream!Avail = produced - taken
    <2> DEFINE t == taken - first  d == produced - taken  n == Stream!Size
    <2>1. n \in Nat \ {0} /\ t \in Int /\ d \in Nat /\ d < n
      BY StreamConstants DEF StreamCore, StreamNumbers, StreamRingOK
    <2>2. t + d = produced - first
      BY DEF StreamCore, StreamNumbers
    <2>3. next_read_index = t % n /\ Stream!next_write_index = (t + d) % n
      <3>1. next_read_index = StreamAt
        BY <1>3, <1>4, Zenon DEF StreamCore, StreamRingOK
      <3> QED BY <2>2, <3>1, Zenon DEF StreamAt, Stream!next_write_index
    <2> HIDE DEF t, n
    <2>4. /\ next_read_index \in Nat /\ next_read_index < n
          /\ \/ Stream!next_write_index = next_read_index + d /\ next_read_index + d < n
             \/ Stream!next_write_index = next_read_index + d - n /\ next_read_index + d >= n
      <3> HIDE DEF d
      <3>1. \A r : r = t % n => /\ r \in Nat /\ r < n
                               /\ \/ (t + d) % n = r + d /\ r + d < n
                                  \/ (t + d) % n = r + d - n /\ r + d >= n
        BY <2>1, ModMinus
      <3>2. next_read_index = t % n
        BY <2>3, Zenon
      <3> QED BY <2>3, <3>1, <3>2, Zenon
    <2>5. Stream!ReadIndex = next_read_index /\ ~(Stream!ReadIndex < 0)
      BY <1>3, <1>4, Zenon
    <2>6. Stream!Avail = (LET m == Stream!next_write_index - next_read_index IN IF m < 0 THEN m + n ELSE m)
      BY <2>5, Zenon DEF Stream!Avail, n
    <2>7. Stream!Avail = d
      <3> HIDE DEF d
      <3> QED BY <2>1, <2>4, <2>6
    <2> QED BY <2>7
  <1> QED BY <1>1, <1>2, <1>3, <1>4, Zenon

(* Updating what the driver believes. *)
LEMMA StreamUpdate ==
    ASSUME StreamCore, on, Stream!UpdateAvail
    PROVE  /\ avail' \in Nat /\ avail' < Stream!Size /\ read_index' \in Int /\ -1 <= read_index'
           /\ read_index' < Stream!Size /\ (read_index' = -1 => avail' = 0)
           /\ (read_index' = -1 \/ read_index' = next_read_index) /\ taken + avail' <= produced
  <1>1. read_index' = Stream!ReadIndex /\ avail' = Stream!Avail
    BY Zenon DEF Stream!UpdateAvail
  <1>2. CASE Stream!ReadIndex = -1
    <2>1. avail' = avail /\ read_index = -1 /\ read_index' = -1
      BY <1>1, <1>2, StreamAvail, Zenon
    <2> QED BY <2>1, StreamConstants DEF StreamCore, StreamNumbers, StreamRingOK
  <1>3. CASE Stream!ReadIndex # -1
    <2>1. avail' = produced - taken /\ read_index' = next_read_index /\ read_index' # -1
      BY <1>1, <1>3, StreamAvail, Zenon
    <2> QED BY <2>1, StreamConstants DEF StreamCore, StreamNumbers, StreamRingOK
  <1> QED BY <1>2, <1>3

(* An index within the ring has an address in it. *)
LEMMA StreamAddress ==
    ASSUME NEW i \in Nat, i < Stream!Size
    PROVE  \E r \in Stream!RegionIds : /\ i >= Stream!cumulative_size[r - 1] /\ i < Stream!cumulative_size[r]
                                /\ Stream!Address(i) = <<r, i - Stream!cumulative_size[r - 1]>>
  <1> DEFINE P(r) == i < Stream!cumulative_size[r] /\ i >= Stream!cumulative_size[r - 1]
  <1>1. \E r \in Stream!RegionIds : P(r)
    <2>1. CASE i < FirstWords
      <3>1. P(1)
        BY <2>1, StreamRing
      <3> QED BY <3>1, StreamRing
    <2>2. CASE ~(i < FirstWords)
      <3>1. P(2)
        BY <2>2, StreamRing
      <3> QED BY <3>1, StreamRing
    <2> QED BY <2>1, <2>2
  <1>2. Stream!RegionOf(i) = CHOOSE r \in Stream!RegionIds : P(r)
    BY Zenon DEF Stream!RegionOf
  <1> HIDE DEF P
  <1>3. Stream!RegionOf(i) \in Stream!RegionIds /\ P(Stream!RegionOf(i))
    BY <1>1, <1>2, Zenon
  <1>4. Stream!Address(i) = <<Stream!RegionOf(i), i - Stream!cumulative_size[Stream!RegionOf(i) - 1]>>
    BY Zenon DEF Stream!Address
  <1> QED BY <1>3, <1>4, Zenon DEF P

(* What a read takes from the ring is what the firmware has there. *)
LEMMA StreamHolds ==
    ASSUME StreamCore, on, NEW k \in Nat, k < avail
    PROVE  Stream!Holds(Stream!Address((read_index + k) % Stream!Size), taken + k)
  <1> DEFINE t == taken - first  n == Stream!Size
  <1>1. n \in Nat \ {0} /\ t \in Int /\ k <= n /\ taken + k < produced
    BY StreamConstants DEF StreamCore, StreamNumbers, StreamRingOK
  <1>2. read_index = t % n
    <2>1. read_index # -1
      BY DEF StreamCore, StreamRingOK
    <2>2. read_index = StreamAt
      BY <2>1, Zenon DEF StreamCore, StreamRingOK
    <2> QED BY <2>2, Zenon DEF StreamAt
  <1>3. t + k = (taken + k) - first
    BY DEF StreamCore, StreamNumbers
  <1> HIDE DEF t
  <1>4. (read_index + k) % n = (t + k) % n /\ (t + k) % n \in Nat /\ (t + k) % n < n
    <2> HIDE DEF n
    <2> QED BY <1>1, <1>2, ModTwice, Zenon
  <1> DEFINE i == ((taken + k) - first) % Stream!Size
  <1>5. (read_index + k) % Stream!Size = i /\ i \in Nat /\ i < Stream!Size
    BY <1>3, <1>4, Zenon
  <1> HIDE DEF i
  <1>6. \E r \in Stream!RegionIds : /\ i >= Stream!cumulative_size[r - 1] /\ i < Stream!cumulative_size[r]
                             /\ Stream!Address(i) = <<r, i - Stream!cumulative_size[r - 1]>>
    BY <1>5, StreamAddress, Zenon
  <1>7. i = ((taken + k) - first) % Stream!Size
    BY Zenon DEF i
  <1> QED BY <1>1, <1>5, <1>6, <1>7, Zenon DEF Stream!Holds

LEMMA StreamFlagsStep ==
    ASSUME StreamFlags, Stream!Next
    PROVE  StreamFlags'
  <1> USE DEF StreamFlags, Stream!Compr, Stream!Buf, Stream!Dsp
  <1>1. CASE Stream!DspStarts
    BY <1>1, Zenon DEF Stream!DspStarts
  <1>2. CASE Stream!DspProduces
    BY <1>2, Zenon DEF Stream!DspProduces
  <1>3. CASE Stream!DspInterrupts
    BY <1>3, Zenon DEF Stream!DspInterrupts
  <1>4. CASE Stream!DspOn
    BY <1>4, Zenon DEF Stream!DspOn
  <1>5. CASE Stream!DspOff
    BY <1>5, Zenon DEF Stream!DspOff, Stream!Detached
  <1>6. CASE Stream!WdtExpire
    BY <1>6, Zenon DEF Stream!WdtExpire
  <1>7. CASE Stream!CompressOpen
    BY <1>7, Zenon DEF Stream!CompressOpen
  <1>8. CASE Stream!SetParams
    BY <1>8, Zenon DEF Stream!SetParams
  <1>9. CASE Stream!TriggerStart
    BY <1>9, Zenon DEF Stream!TriggerStart, Stream!CanAttach
  <1>10. CASE Stream!TriggerStop
    BY <1>10, Zenon DEF Stream!TriggerStop, Stream!Stopped, Stream!BufferClear
  <1>11. CASE Stream!CompressFree
    BY <1>11, Zenon DEF Stream!CompressFree, Stream!Stopped, Stream!BufferClear
  <1>12. CASE Stream!HandleIrq
    BY <1>12, Zenon DEF Stream!HandleIrq, Stream!UpdateAvail
  <1>13. CASE Stream!Pointer
    BY <1>13, Zenon DEF Stream!Pointer, Stream!StopError, Stream!BufferClear,
         Stream!UpdateAvail, Stream!ReenableIrq
  <1>14. CASE Stream!Read
    BY <1>14, Zenon DEF Stream!Read
  <1> QED BY <1>1, <1>2, <1>3, <1>4, <1>5, <1>6, <1>7, <1>8, <1>9, <1>10, <1>11, <1>12, <1>13,
       <1>14, Zenon DEF Stream!Next

(* Steps of the firmware. *)
LEMMA StreamFirmwareStep ==
    ASSUME StreamCore, StreamFlags, Stream!DspStarts \/ Stream!DspProduces \/ Stream!DspInterrupts \/ Stream!DspOn \/ Stream!DspOff \/ Stream!WdtExpire
    PROVE  StreamCore'
  <1> USE StreamConstants DEF Stream!Compr, Stream!Buf, Stream!Dsp
  <1> USE DEF StreamCore, StreamNumbers, StreamRingOK, StreamCounted
  <1>1. CASE Stream!DspStarts
    <2>1. StreamAt' = StreamAt
      BY <1>1, StreamAtKept, Zenon DEF Stream!DspStarts
    <2>2. StreamAt = 0
      <3>1. taken - first = 0
        BY <1>1 DEF Stream!DspStarts
      <3>2. 0 % Stream!Size = 0
        BY ModSmall
      <3> QED BY <3>1, <3>2, Zenon DEF StreamAt
    <2> QED BY <1>1, <2>1, <2>2 DEF Stream!DspStarts
  <1>2. CASE Stream!DspProduces
    <2>1. StreamAt' = StreamAt
      BY <1>2, StreamAtKept, Zenon DEF Stream!DspProduces
    <2>2. Stream!Filled = produced - taken
      <3>1. on /\ next_read_index # -1
        BY <1>2, Zenon DEF Stream!DspProduces
      <3> QED BY <3>1, StreamFilled, Zenon
    <2> QED BY <1>2, <2>1, <2>2 DEF Stream!DspProduces
  <1>3. CASE Stream!DspInterrupts
    <2>1. StreamAt' = StreamAt
      BY <1>3, StreamAtKept, Zenon DEF Stream!DspInterrupts
    <2> QED BY <1>3, <2>1 DEF Stream!DspInterrupts
  <1>4. CASE Stream!DspOn
    BY <1>4 DEF Stream!DspOn
  <1>5. CASE Stream!DspOff
    BY <1>5 DEF Stream!DspOff, Stream!Detached
  <1>6. CASE Stream!WdtExpire
    <2>1. StreamAt' = StreamAt
      BY <1>6, StreamAtKept, Zenon DEF Stream!WdtExpire
    <2> QED BY <1>6, <2>1 DEF Stream!WdtExpire
  <1> QED BY <1>1, <1>2, <1>3, <1>4, <1>5, <1>6, Zenon

(* Steps of the stream's user but for reads. *)
LEMMA StreamUserStep ==
    ASSUME StreamCore, StreamFlags,
           Stream!CompressOpen \/ Stream!SetParams \/ Stream!TriggerStart \/ Stream!TriggerStop \/ Stream!CompressFree
    PROVE  StreamCore'
  <1> USE StreamConstants DEF Stream!Compr, Stream!Buf, Stream!Dsp
  <1>1. StreamAt' = StreamAt
    BY StreamAtKept, Zenon
    DEF Stream!CompressOpen, Stream!SetParams, Stream!TriggerStart, Stream!TriggerStop,
         Stream!CompressFree, Stream!Stopped
  <1> USE DEF StreamCore, StreamNumbers, StreamRingOK, StreamCounted
  <1>7. CASE Stream!CompressOpen
    BY <1>1, <1>7 DEF Stream!CompressOpen
  <1>8. CASE Stream!SetParams
    BY <1>1, <1>8 DEF Stream!SetParams
  <1>9. CASE Stream!TriggerStart
    BY <1>1, <1>9 DEF Stream!TriggerStart, Stream!CanAttach
  <1>10. CASE Stream!TriggerStop
    BY <1>1, <1>10 DEF Stream!TriggerStop, Stream!Stopped, Stream!BufferClear
  <1>11. CASE Stream!CompressFree
    BY <1>1, <1>11 DEF Stream!CompressFree, Stream!Stopped, Stream!BufferClear
  <1> QED BY <1>7, <1>8, <1>9, <1>10, <1>11, Zenon

(* The interrupt and the poll. *)
LEMMA StreamPollStep ==
    ASSUME StreamCore, StreamFlags, Stream!HandleIrq \/ Stream!Pointer
    PROVE  StreamCore'
  <1> USE StreamConstants DEF Stream!Compr, Stream!Buf, Stream!Dsp
  <1>1. StreamAt' = StreamAt
    BY StreamAtKept, Zenon DEF Stream!HandleIrq, Stream!Pointer
  <1>2. CASE ~Stream!UpdateAvail
    <2> USE DEF StreamCore, StreamNumbers, StreamRingOK, StreamCounted
    <2>1. CASE Stream!HandleIrq
      BY <1>1, <1>2, <2>1 DEF Stream!HandleIrq
    <2>2. CASE Stream!Pointer
      BY <1>1, <1>2, <2>2 DEF Stream!Pointer, Stream!StopError, Stream!BufferClear
    <2> QED BY <2>1, <2>2
  <1>3. CASE Stream!UpdateAvail /\ on
    <2>1. /\ avail' \in Nat /\ avail' < Stream!Size /\ read_index' \in Int /\ -1 <= read_index'
          /\ read_index' < Stream!Size /\ (read_index' = -1 => avail' = 0)
          /\ (read_index' = -1 \/ read_index' = next_read_index) /\ taken + avail' <= produced
      BY <1>3, StreamUpdate, Zenon
    <2> USE DEF StreamCore, StreamNumbers, StreamRingOK, StreamCounted
    <2>2. CASE Stream!HandleIrq
      BY <1>1, <2>1, <2>2 DEF Stream!HandleIrq
    <2>3. CASE Stream!Pointer
      BY <1>1, <2>1, <2>3 DEF Stream!Pointer, Stream!StopError
    <2> QED BY <2>2, <2>3
  <1>4. CASE Stream!UpdateAvail /\ ~on
    <2> USE DEF StreamCore, StreamNumbers, StreamRingOK, StreamCounted
    <2>1. CASE Stream!HandleIrq
      BY <1>4, <2>1, Zenon DEF Stream!HandleIrq
    <2>2. CASE Stream!Pointer
      <3>1. Stream!Broken
        BY <1>4, Zenon DEF Stream!Broken
      <3> QED BY <1>1, <1>4, <2>2, <3>1 DEF Stream!Pointer, Stream!StopError, Stream!BufferClear
    <2> QED BY <2>1, <2>2
  <1> QED BY <1>2, <1>3, <1>4, Zenon

(* A read takes words that are there, and gives them in order. *)
LEMMA StreamReadStep ==
    ASSUME StreamCore, StreamFlags, ~torn, Stream!Read
    PROVE  StreamCore' /\ ~torn'
  <1>1. on
    BY Zenon DEF Stream!Read, Stream!Broken, StreamCore, StreamRingOK
  <1>2. PICK n \in 1 .. Stream!Size, fails \in BOOLEAN :
          LET got == Stream!Least(n, avail) IN
          /\ fails => setup_buf = "faulty"
          /\ torn' = (torn \/ \E k \in 0 .. got - 1 : ~Stream!Holds(Stream!Address((read_index + k) % Stream!Size), taken + k))
          /\ taken' = taken + got
          /\ read_index' = (read_index + got) % Stream!Size
          /\ next_read_index' = read_index' /\ avail' = avail - got
          /\ copied_total' = IF fails THEN copied_total ELSE copied_total + got
    BY Zenon DEF Stream!Read
  <1> DEFINE got == Stream!Least(n, avail)
  <1>3. /\ fails => setup_buf = "faulty"
        /\ torn' = (torn \/ \E k \in 0 .. got - 1 : ~Stream!Holds(Stream!Address((read_index + k) % Stream!Size), taken + k))
        /\ taken' = taken + got
        /\ read_index' = (read_index + got) % Stream!Size
        /\ next_read_index' = read_index' /\ avail' = avail - got
        /\ copied_total' = IF fails THEN copied_total ELSE copied_total + got
    BY <1>2, Zenon
  <1>4. got \in Nat /\ got >= 1 /\ got <= avail /\ got <= Stream!Size
    BY StreamConstants DEF Stream!Least, StreamCore, StreamNumbers, Stream!Read
  <1> HIDE DEF got
  <1>5. ~torn'
    <2>1. \A k \in 0 .. got - 1 : k \in Nat /\ k < avail
      BY <1>4 DEF StreamCore, StreamNumbers
    <2>2. \A k \in 0 .. got - 1 : Stream!Holds(Stream!Address((read_index + k) % Stream!Size), taken + k)
      BY <1>1, <2>1, StreamHolds, Zenon
    <2> QED BY <1>3, <2>2, Zenon
  <1>6. read_index' = StreamAt' /\ read_index' \in Nat /\ read_index' < Stream!Size
    <2> DEFINE t == taken - first  m == Stream!Size
    <2>1. m \in Nat \ {0} /\ t \in Int /\ got <= m
      BY <1>4, StreamConstants DEF StreamCore, StreamNumbers
    <2>2. read_index = t % m
      <3>1. read_index # -1
        BY <1>4 DEF StreamCore, StreamRingOK, StreamNumbers
      <3> QED BY <1>1, <3>1, Zenon DEF StreamAt, StreamCore, StreamRingOK
    <2>3. t + got = taken' - first
      BY <1>3, <1>4 DEF StreamCore, StreamNumbers
    <2>4. first' = first
      BY Zenon DEF Stream!Read
    <2>5. StreamAt' = (t + got) % m
      BY <2>3, <2>4, Zenon DEF StreamAt
    <2>6. read_index' = (read_index + got) % m
      BY <1>3, Zenon
    <2> HIDE DEF t, m
    <2>7. (read_index + got) % m = (t + got) % m /\ (t + got) % m \in Nat /\ (t + got) % m < m
      BY <1>4, <2>1, <2>2, ModTwice, Zenon
    <2> QED BY <2>5, <2>6, <2>7, Zenon DEF m
  <1>7. StreamCore'
    BY <1>1, <1>3, <1>4, <1>6, StreamConstants
    DEF Stream!Read, StreamCore, StreamNumbers, StreamRingOK, StreamCounted
  <1> QED BY <1>5, <1>7

LEMMA StreamInit ==
    ASSUME Stream!Init
    PROVE  StreamInv
  <1>1. StreamFlags /\ ~torn
    BY Zenon DEF Stream!Init, StreamFlags
  <1>2. StreamNumbers
    BY StreamConstants DEF Stream!Init, StreamNumbers
  <1>3. StreamRingOK /\ StreamCounted
    BY Zenon DEF Stream!Init, StreamRingOK, StreamCounted
  <1> QED BY <1>1, <1>2, <1>3, Zenon DEF StreamInv, StreamCore

LEMMA StreamStep ==
    ASSUME StreamInv, [Stream!Next]_stream_vars
    PROVE  StreamInv'
  <1> USE DEF StreamInv
  <1>1. CASE Stream!Next
    <2>1. StreamFlags'
      BY <1>1, StreamFlagsStep, Zenon
    <2>2. CASE Stream!Read
      BY <2>1, <2>2, StreamReadStep, Zenon
    <2>3. CASE ~Stream!Read
      <3>1. torn' = torn
        BY <1>1, <2>3, Zenon
        DEF Stream!Next, Stream!DspStarts, Stream!DspProduces, Stream!DspInterrupts,
             Stream!DspOn, Stream!DspOff, Stream!WdtExpire, Stream!CompressOpen,
            Stream!SetParams, Stream!TriggerStart, Stream!TriggerStop, Stream!CompressFree,
            Stream!Stopped, Stream!HandleIrq, Stream!Pointer
      <3>2. StreamCore'
        BY <1>1, <2>3, StreamFirmwareStep, StreamUserStep, StreamPollStep, Zenon DEF Stream!Next
      <3> QED BY <2>1, <3>1, <3>2, Zenon
    <2> QED BY <2>2, <2>3
  <1>2. CASE UNCHANGED stream_vars
    <2>1. StreamAt' = StreamAt
      BY <1>2, StreamAtKept, Zenon DEF stream_vars
    <2>2. StreamNumbers'
      BY <1>2, Zenon DEF stream_vars, StreamCore, StreamNumbers
    <2>3. StreamRingOK' /\ StreamCounted'
      BY <1>2, <2>1, SMT DEF stream_vars, StreamCore, StreamRingOK, StreamCounted
    <2>4. StreamFlags' /\ torn' = torn
      BY <1>2, Zenon DEF stream_vars, StreamFlags
    <2> QED BY <2>2, <2>3, <2>4, Zenon DEF StreamCore
  <1> QED BY <1>1, <1>2

LEMMA StreamSafe ==
    ASSUME StreamInv
    PROVE  Stream!TypeOK /\ Stream!StreamInOrder
  <1>1. Stream!TypeOK
    BY Zenon DEF StreamInv, StreamCore, StreamNumbers, StreamFlags, Stream!TypeOK
  <1>2. on /\ read_index >= 0 => read_index = (taken - first) % Stream!Size /\ taken + avail <= produced
    <2>1. read_index >= 0 => read_index # -1
      OBVIOUS
    <2> QED BY <2>1, Zenon DEF StreamInv, StreamCore, StreamRingOK, StreamAt
  <1>3. setup_buf # "faulty" => copied_total <= taken - origin \/ stream = "closed"
    BY DEF StreamInv, StreamCore, StreamNumbers, StreamCounted
  <1>4. setup_buf # "faulty" /\ stream = "running" => origin + copied_total = taken
    <2>1. stream = "running" => stream # "closed"
      OBVIOUS
    <2> QED BY <2>1, Zenon DEF StreamInv, StreamCore, StreamCounted
  <1> QED BY <1>1, <1>2, <1>3, <1>4, Zenon DEF StreamInv, Stream!StreamInOrder

--------------------------------------------------------------------------------
(* Cs35l41Power *)

AmpFlags ==
    /\ preloaded \in BOOLEAN /\ booted41 \in BOOLEAN /\ running41 \in BOOLEAN /\ halo_booted \in BOOLEAN
    /\ enabled41 \in BOOLEAN /\ reload_tuning \in BOOLEAN /\ gpi_global_en \in BOOLEAN
    /\ hibernate_force_wake \in BOOLEAN /\ force_int41 \in BOOLEAN /\ cache_only41 \in BOOLEAN
    /\ asleep41 \in BOOLEAN /\ mbox_8 \in BOOLEAN /\ forgotten \in BOOLEAN

AmpStates ==
    /\ setup41 \in AmpSetups /\ setup41 \in {"sound", "faulty", "race"} /\ setting41 \in Amp!Settings /\ path \in {"ASP", "DSP"}
    /\ stream41 \in {"closed", "opened", "awake", "booted", "loaded", "playing", "pausing", "down",
                  "unloaded"}
    /\ amp_hibernate \in Amp!States /\ hb_work \in {"idle", "queued", "started"}
    /\ kept41 \in Amp!Values /\ stored41 \in Amp!Values /\ chip41 \in Amp!Values /\ wanted41 \in Amp!Values
    /\ fw41 \in {"off", "running", "paused", "rdy"}
    /\ setup41 = "faulty" => setting41 = "tuning"

(* Nothing comes between the release of hb_lock and what is stored then, but the work in "race". *)
AmpLock ==
    /\ storing \subseteq {"stream", "pin", "reset", "switch"}
    /\ setup41 # "race" => storing = {} /\ ~forgotten

(* How often the interrupt is disabled: by hibernation, by a forced one, and for good by one
   that was forgotten or a reset that fails. *)
Asleep == IF amp_hibernate = "STANDBY" THEN 1 ELSE 0
Due == (IF force_int41 THEN 1 ELSE 0) + Asleep
AmpIrq ==
    /\ irq_depth \in Nat
    /\ setup41 # "faulty" => Due <= irq_depth /\ (~forgotten => irq_depth = Due)
    /\ setup41 = "faulty" => Asleep <= irq_depth

(* The cache is what is written while the driver believes in hibernation, or has forgotten one,
   and then alone the chip sleeps; the work is queued for a firmware that runs, and not while a stream is up. *)
AmpSleep ==
    /\ cache_only41 => amp_hibernate = "STANDBY" \/ forgotten
    /\ setup41 # "faulty" /\ asleep41 => cache_only41
    /\ stream41 # "closed" /\ amp_hibernate = "STANDBY" => cache_only41
    /\ setup41 # "race" =>
           /\ hb_work \in {"idle", "queued"}
           /\ hb_work = "queued" => running41 /\ amp_hibernate # "INCOMPATIBLE"
           /\ amp_hibernate \in {"AWAKE", "STANDBY"} => running41
           /\ stream41 \in {"awake", "booted", "loaded", "playing"} =>
                  hb_work = "idle" /\ amp_hibernate # "STANDBY"

(* Where the value of each setting outlives the chip. *)
AmpKept ==
    setup41 # "faulty" =>
        /\ setting41 = "ctl" => kept41 = wanted41
        /\ setting41 \in {"format", "rate", "clock"} => stored41 = wanted41 /\ (stored41 = "reset" => kept41 = "reset")
        /\ setting41 = "pdata" => stored41 = wanted41
        /\ setting41 \in {"pin", "tuning", "force_int"} => kept41 = "reset" /\ wanted41 = "reset"
        /\ ~cache_only41 /\ setting41 # "other" => chip41 = wanted41

(* A firmware that was started was booted, and is known to the driver; it runs from the load
   of a stream through it to that stream's end. *)
AmpFirmware ==
    setup41 = "sound" =>
        /\ running41 => booted41
        /\ fw41 # "off" => running41
        /\ halo_booted => running41 /\ fw41 # "off"
        /\ preloaded => booted41
        /\ path = "DSP" /\ stream41 \in {"booted", "loaded", "playing"} => booted41
        /\ fw41 = "running" <=> path = "DSP" /\ stream41 \in {"loaded", "playing"}

AmpPin ==
    setup41 = "sound" =>
        /\ enabled41 => stream41 \in {"loaded", "playing", "pausing"}
        /\ stream41 = "playing" /\ enabled41 /\ halo_booted => mbox_8 = gpi_global_en
        /\ mbox_8 /\ fw41 # "off" => stream41 \in {"loaded", "playing"}

AmpInv == AmpFlags /\ AmpStates /\ AmpLock /\ AmpIrq /\ AmpSleep /\ AmpKept /\ AmpFirmware /\ AmpPin

(* Settings that are remembered, and registers that are written. *)
LEMMA AmpRemembers ==
    ASSUME Amp!SetDaiFmt \/ Amp!PcmHwParams \/ Amp!SetSysclk
    PROVE  \E v \in {"a", "b"} : Amp!Remember(v) /\ stream41 = "opened" /\ setting41 \in {"format", "rate", "clock"}
  <1>1. CASE Amp!SetDaiFmt
    BY <1>1, Zenon DEF Amp!SetDaiFmt
  <1>2. CASE Amp!PcmHwParams
    BY <1>2, Zenon DEF Amp!PcmHwParams
  <1>3. CASE Amp!SetSysclk
    BY <1>3, Zenon DEF Amp!SetSysclk
  <1> QED BY <1>1, <1>2, <1>3

AmpWritten(v) ==
    \/ setting41 \in {"ctl", "other"} /\ UNCHANGED stored41
    \/ setting41 \in {"pdata", "rate"} /\ stored41' = v

LEMMA AmpWrites ==
    ASSUME Amp!ControlPut \/ Amp!BpCurrentLimitPut \/ Amp!Default96kPut
    PROVE  \E v \in {"a", "b"} : Amp!Write(v) /\ AmpWritten(v)
  <1>1. CASE Amp!ControlPut
    BY <1>1, Zenon DEF Amp!ControlPut, AmpWritten
  <1>2. CASE Amp!BpCurrentLimitPut
    BY <1>2, Zenon DEF Amp!BpCurrentLimitPut, AmpWritten
  <1>3. CASE Amp!Default96kPut
    BY <1>3, Zenon DEF Amp!Default96kPut, AmpWritten
  <1> QED BY <1>1, <1>2, <1>3

LEMMA AmpMbox ==
    ASSUME fw41 \in {"off", "running", "paused", "rdy"}, NEW cmd
    PROVE  Amp!SetCsplMboxCmd(fw41, cmd) \in {"off", "running", "paused", "rdy"}
  BY DEF Amp!SetCsplMboxCmd

(* Unloading leaves flags; what is stored once hb_lock is released may forget a hibernation. *)
LEMMA AmpUnloads ==
    ASSUME AmpFlags, NEW of, Amp!PowerEvPmd(of)
    PROVE  /\ booted41' \in BOOLEAN /\ running41' \in BOOLEAN
           /\ cache_only41' \in BOOLEAN /\ asleep41' \in BOOLEAN /\ forgotten' = forgotten
  <1> USE DEF AmpFlags, Amp!Bus, Amp!Lock
  <1>1. CASE halo_booted
    BY <1>1, Zenon DEF Amp!PowerEvPmd
  <1>2. CASE ~halo_booted
    <2>1. /\ forgotten' = forgotten /\ booted41' \in {booted41, FALSE} /\ running41' \in {running41, FALSE}
          /\ Amp!Woken \/ UNCHANGED <<cache_only41, asleep41>>
      BY <1>2, Zenon DEF Amp!PowerEvPmd, Amp!ExitHibernate
    <2>2. cache_only41' \in BOOLEAN /\ asleep41' \in BOOLEAN
      BY <2>1, Zenon DEF Amp!Woken
    <2>3. booted41' \in BOOLEAN /\ running41' \in BOOLEAN
      BY <2>1, Zenon
    <2> QED BY <2>1, <2>2, <2>3, Zenon
  <1> QED BY <1>1, <1>2

LEMMA AmpForgets ==
    ASSUME Amp!PowerEvStores \/ Amp!SwitchStores \/ Amp!HibernateSwitchOn,
           AmpStates
    PROVE  /\ UNCHANGED <<setup41, setting41, force_int41, irq_depth>>
           /\ amp_hibernate' \in {"NOT_LOADED", "INCOMPATIBLE"}
           /\ amp_hibernate = "STANDBY" \/ forgotten => forgotten'
  <1> USE DEF Amp!Rest, Amp!Fixed, Amp!Switches
  <1>1. CASE Amp!PowerEvStores
    <2>1. PICK of \in {"stream", "pin", "reset"} : Amp!Stored(of, Amp!NotLoaded(amp_hibernate))
      BY <1>1, Zenon DEF Amp!PowerEvStores
    <2>2. Amp!NotLoaded(amp_hibernate) \in {"NOT_LOADED", "INCOMPATIBLE"}
      BY Zenon DEF Amp!NotLoaded
    <2> QED BY <2>1, <2>2, Zenon DEF Amp!Stored
  <1>2. CASE Amp!SwitchStores
    BY <1>2, Zenon DEF Amp!SwitchStores, Amp!Stored
  <1>3. CASE Amp!HibernateSwitchOn
    BY <1>3, Zenon DEF Amp!HibernateSwitchOn
  <1> QED BY <1>1, <1>2, <1>3

LEMMA AmpFlagsStep ==
    ASSUME AmpFlags, Amp!Next
    PROVE  AmpFlags'
  <1> USE DEF AmpFlags, Amp!Fixed, Amp!Switches, Amp!Dsp, Amp!Bus, Amp!Rest, Amp!Lock
  <1>1. CASE Amp!WorkStarts
    BY <1>1, ZenonT(60) DEF Amp!WorkStarts
  <1>2. CASE Amp!EnterHibernate
    BY <1>2, ZenonT(60) DEF Amp!EnterHibernate
  <1>3. CASE Amp!PcmStartup
    BY <1>3, ZenonT(60) DEF Amp!PcmStartup, Amp!CancelWork, Amp!ExitHibernate, Amp!Woken
  <1>4. CASE Amp!SetDaiFmt \/ Amp!PcmHwParams \/ Amp!SetSysclk
    <2>1. PICK v \in {"a", "b"} : Amp!Remember(v) /\ stream41 = "opened" /\ setting41 \in {"format", "rate", "clock"}
      BY <1>4, AmpRemembers, Zenon
    <2> QED BY <2>1, ZenonT(60) DEF Amp!Remember
  <1>5. CASE Amp!HibernatePmu
    BY <1>5, ZenonT(60) DEF Amp!HibernatePmu, Amp!CancelWork, Amp!ExitHibernate, Amp!Woken
  <1>6. CASE Amp!StreamPreloads
    BY <1>6, ZenonT(60) DEF Amp!StreamPreloads, Amp!PowerEvPmu, Amp!BootWork
  <1>7. CASE Amp!StreamLoads
    BY <1>7, ZenonT(60) DEF Amp!StreamLoads, Amp!DspLoadEv, Amp!SetCsplMboxCmd, Amp!Resuming
  <1>8. CASE Amp!MainAmpPmu
    BY <1>8, ZenonT(60) DEF Amp!MainAmpPmu
  <1>9. CASE Amp!MainAmpPmd
    BY <1>9, ZenonT(60) DEF Amp!MainAmpPmd, Amp!SetCsplMboxCmd
  <1>10. CASE Amp!MainAmpDown
    BY <1>10, ZenonT(60) DEF Amp!MainAmpDown
  <1>11. CASE Amp!StreamUnloads
    <2>1. /\ UNCHANGED <<preloaded, halo_booted, enabled41, reload_tuning, gpi_global_en,
                         hibernate_force_wake, force_int41, mbox_8>>
          /\ \/ Amp!PowerEvPmd("stream")
             \/ UNCHANGED <<booted41, running41, cache_only41, asleep41, forgotten>>
      BY <1>11, ZenonT(60) DEF Amp!StreamUnloads
    <2> QED BY <2>1, AmpUnloads, Zenon
  <1>12. CASE Amp!HibernatePmd
    BY <1>12, ZenonT(60) DEF Amp!HibernatePmd
  <1>13. CASE Amp!PreloaderPut
    <2>1. /\ UNCHANGED <<halo_booted, enabled41, reload_tuning, gpi_global_en,
                         hibernate_force_wake, force_int41, mbox_8>>
          /\ preloaded' = ~preloaded
          /\ \/ Amp!PowerEvPmd("pin")
             \/ /\ Amp!PowerEvPmu \/ UNCHANGED <<booted41, running41>>
                /\ UNCHANGED <<cache_only41, asleep41, forgotten>>
      BY <1>13, ZenonT(60) DEF Amp!PreloaderPut
    <2>2. preloaded' \in BOOLEAN
      BY <2>1, Zenon
    <2>3. CASE Amp!PowerEvPmd("pin")
      BY <2>1, <2>2, <2>3, AmpUnloads, Zenon
    <2>4. CASE ~Amp!PowerEvPmd("pin")
      <3>1. booted41' \in BOOLEAN /\ running41' \in BOOLEAN
        BY <2>1, <2>4, ZenonT(60) DEF Amp!PowerEvPmu, Amp!BootWork
      <3> QED BY <2>1, <2>2, <2>4, <3>1, Zenon
    <2> QED BY <2>3, <2>4, Zenon
  <1>14. CASE Amp!HaloBootedPut
    BY <1>14, ZenonT(60) DEF Amp!HaloBootedPut
  <1>15. CASE Amp!HibernateSwitchPut
    BY <1>15, ZenonT(60) DEF Amp!HibernateSwitchPut, Amp!CancelWork, Amp!Woken,
         Amp!ExitHibernate
  <1>16. CASE Amp!ForceWakePut
    <2>1. /\ hibernate_force_wake' = ~hibernate_force_wake \/ UNCHANGED hibernate_force_wake
          /\ UNCHANGED Amp!Bus \/ Amp!Woken
      BY <1>16, ZenonT(60) DEF Amp!ForceWakePut, Amp!ExitHibernate
    <2>2. UNCHANGED <<preloaded, Amp!Dsp, enabled41, reload_tuning, gpi_global_en, force_int41, mbox_8,
                      Amp!Lock>>
      BY <1>16, ZenonT(60) DEF Amp!ForceWakePut
    <2>3. cache_only41' \in BOOLEAN /\ asleep41' \in BOOLEAN
      BY <2>1, ZenonT(60) DEF Amp!Woken
    <2>4. hibernate_force_wake' \in BOOLEAN
      BY <2>1, Zenon
    <2> QED BY <2>2, <2>3, <2>4, Zenon
  <1>17. CASE Amp!ControlPut \/ Amp!BpCurrentLimitPut \/ Amp!Default96kPut
    <2>1. PICK v \in {"a", "b"} : Amp!Write(v) /\ AmpWritten(v)
      BY <1>17, AmpWrites, Zenon
    <2> QED BY <2>1, ZenonT(60) DEF Amp!Write
  <1>18. CASE Amp!ForceIntPut
    BY <1>18, ZenonT(60) DEF Amp!ForceIntPut
  <1>19. CASE Amp!ReloadTuningPut
    BY <1>19, ZenonT(60) DEF Amp!ReloadTuningPut
  <1>20. CASE Amp!GpiGlobalEnPut
    BY <1>20, ZenonT(60) DEF Amp!GpiGlobalEnPut
  <1>21. CASE Amp!AmpResetPut
    BY <1>21, ZenonT(60) DEF Amp!AmpResetPut, Amp!ResetBus, Amp!Reloaded, Amp!CancelWork, Amp!NotLoaded
  <1>22. CASE Amp!PowerEvStores
    BY <1>22, ZenonT(60) DEF Amp!PowerEvStores, Amp!Stored, Amp!NotLoaded
  <1>23. CASE Amp!SwitchStores
    BY <1>23, ZenonT(60) DEF Amp!SwitchStores, Amp!Stored
  <1>24. CASE Amp!HibernateSwitchOn
    BY <1>24, ZenonT(60) DEF Amp!HibernateSwitchOn
  <1> QED BY <1>1, <1>2, <1>3, <1>4, <1>5, <1>6, <1>7, <1>8, <1>9, <1>10, <1>11, <1>12, <1>13,
       <1>14, <1>15, <1>16, <1>17, <1>18, <1>19, <1>20, <1>21, <1>22, <1>23, <1>24,
       Zenon DEF Amp!Next

LEMMA AmpStatesStep ==
    ASSUME AmpFlags, AmpStates, Amp!Next
    PROVE  AmpStates'
  <1> USE DEF AmpStates, AmpFlags, Amp!States, Amp!Values, Amp!Restore, Amp!SetPdata,
       Amp!CtlCache, Amp!Fixed, Amp!Switches, Amp!Dsp, Amp!Bus, Amp!Rest, Amp!Lock
  <1>1. CASE Amp!WorkStarts
    BY <1>1 DEF Amp!WorkStarts
  <1>2. CASE Amp!EnterHibernate
    BY <1>2 DEF Amp!EnterHibernate
  <1>3. CASE Amp!PcmStartup
    BY <1>3 DEF Amp!PcmStartup, Amp!CancelWork, Amp!ExitHibernate, Amp!Woken
  <1>4. CASE Amp!SetDaiFmt \/ Amp!PcmHwParams \/ Amp!SetSysclk
    <2>1. PICK v \in {"a", "b"} : Amp!Remember(v) /\ stream41 = "opened" /\ setting41 \in {"format", "rate", "clock"}
      BY <1>4, AmpRemembers, Zenon
    <2> QED BY <2>1 DEF Amp!Remember
  <1>5. CASE Amp!HibernatePmu
    BY <1>5 DEF Amp!HibernatePmu, Amp!CancelWork, Amp!ExitHibernate, Amp!Woken
  <1>6. CASE Amp!StreamPreloads
    BY <1>6 DEF Amp!StreamPreloads, Amp!PowerEvPmu, Amp!BootWork
  <1>7. CASE Amp!StreamLoads
    BY <1>7 DEF Amp!StreamLoads, Amp!DspLoadEv, Amp!SetCsplMboxCmd, Amp!Resuming
  <1>8. CASE Amp!MainAmpPmu
    BY <1>8 DEF Amp!MainAmpPmu
  <1>9. CASE Amp!MainAmpPmd
    <2>1. fw41' = fw41 \/ \E cmd \in {"STOP_PRE_REINIT", "PAUSE"} : fw41' = Amp!SetCsplMboxCmd(fw41, cmd)
      BY <1>9 DEF Amp!MainAmpPmd
    <2>2. fw41' \in {"off", "running", "paused", "rdy"}
      BY <2>1, AmpMbox
    <2> QED BY <1>9, <2>2 DEF Amp!MainAmpPmd
  <1>10. CASE Amp!MainAmpDown
    BY <1>10 DEF Amp!MainAmpDown
  <1>11. CASE Amp!StreamUnloads
    BY <1>11 DEF Amp!StreamUnloads, Amp!PowerEvPmd, Amp!CancelWork, Amp!Woken,
         Amp!ExitHibernate, Amp!NotLoaded
  <1>12. CASE Amp!HibernatePmd
    BY <1>12 DEF Amp!HibernatePmd
  <1>13. CASE Amp!PreloaderPut
    BY <1>13 DEF Amp!PreloaderPut, Amp!PowerEvPmu, Amp!PowerEvPmd, Amp!BootWork,
         Amp!CancelWork, Amp!Woken, Amp!ExitHibernate, Amp!NotLoaded
  <1>14. CASE Amp!HaloBootedPut
    BY <1>14 DEF Amp!HaloBootedPut
  <1>15. CASE Amp!HibernateSwitchPut
    BY <1>15 DEF Amp!HibernateSwitchPut, Amp!CancelWork, Amp!Woken,
         Amp!ExitHibernate
  <1>16. CASE Amp!ForceWakePut
    BY <1>16 DEF Amp!ForceWakePut, Amp!CancelWork, Amp!ExitHibernate, Amp!Woken
  <1>17. CASE Amp!ControlPut \/ Amp!BpCurrentLimitPut \/ Amp!Default96kPut
    <2>1. PICK v \in {"a", "b"} : Amp!Write(v) /\ AmpWritten(v)
      BY <1>17, AmpWrites, Zenon
    <2> QED BY <2>1 DEF Amp!Write, AmpWritten
  <1>18. CASE Amp!ForceIntPut
    BY <1>18 DEF Amp!ForceIntPut
  <1>19. CASE Amp!ReloadTuningPut
    BY <1>19 DEF Amp!ReloadTuningPut
  <1>20. CASE Amp!GpiGlobalEnPut
    BY <1>20 DEF Amp!GpiGlobalEnPut
  <1>21. CASE Amp!AmpResetPut
    BY <1>21 DEF Amp!AmpResetPut, Amp!ResetBus, Amp!Reloaded, Amp!CancelWork, Amp!NotLoaded
  <1>22. CASE Amp!PowerEvStores
    BY <1>22 DEF Amp!PowerEvStores, Amp!Stored, Amp!NotLoaded
  <1>23. CASE Amp!SwitchStores
    BY <1>23 DEF Amp!SwitchStores, Amp!Stored
  <1>24. CASE Amp!HibernateSwitchOn
    BY <1>24 DEF Amp!HibernateSwitchOn
  <1> QED BY <1>1, <1>2, <1>3, <1>4, <1>5, <1>6, <1>7, <1>8, <1>9, <1>10, <1>11, <1>12, <1>13,
       <1>14, <1>15, <1>16, <1>17, <1>18, <1>19, <1>20, <1>21, <1>22, <1>23, <1>24,
       Zenon DEF Amp!Next

LEMMA AmpLockStep ==
    ASSUME AmpFlags, AmpStates, AmpLock, AmpSleep, Amp!Next
    PROVE  AmpLock'
  <1> USE DEF AmpLock, AmpSleep, AmpStates, AmpFlags, Amp!Settled, Amp!Fixed,
       Amp!Switches, Amp!Dsp, Amp!Bus, Amp!Rest, Amp!Lock
  <1>1. CASE Amp!WorkStarts
    BY <1>1 DEF Amp!WorkStarts
  <1>2. CASE Amp!EnterHibernate
    BY <1>2 DEF Amp!EnterHibernate
  <1>3. CASE Amp!PcmStartup
    BY <1>3 DEF Amp!PcmStartup, Amp!CancelWork, Amp!ExitHibernate, Amp!Woken
  <1>4. CASE Amp!SetDaiFmt \/ Amp!PcmHwParams \/ Amp!SetSysclk
    <2>1. PICK v \in {"a", "b"} : Amp!Remember(v) /\ stream41 = "opened" /\ setting41 \in {"format", "rate", "clock"}
      BY <1>4, AmpRemembers, Zenon
    <2> QED BY <2>1 DEF Amp!Remember
  <1>5. CASE Amp!HibernatePmu
    BY <1>5 DEF Amp!HibernatePmu, Amp!CancelWork, Amp!ExitHibernate, Amp!Woken
  <1>6. CASE Amp!StreamPreloads
    BY <1>6 DEF Amp!StreamPreloads, Amp!PowerEvPmu, Amp!BootWork
  <1>7. CASE Amp!StreamLoads
    BY <1>7 DEF Amp!StreamLoads, Amp!DspLoadEv, Amp!SetCsplMboxCmd, Amp!Resuming
  <1>8. CASE Amp!MainAmpPmu
    BY <1>8 DEF Amp!MainAmpPmu
  <1>9. CASE Amp!MainAmpPmd
    BY <1>9 DEF Amp!MainAmpPmd, Amp!SetCsplMboxCmd
  <1>10. CASE Amp!MainAmpDown
    BY <1>10 DEF Amp!MainAmpDown
  <1>11. CASE Amp!StreamUnloads
    BY <1>11 DEF Amp!StreamUnloads, Amp!PowerEvPmd, Amp!CancelWork, Amp!Woken,
         Amp!ExitHibernate, Amp!NotLoaded
  <1>12. CASE Amp!HibernatePmd
    BY <1>12 DEF Amp!HibernatePmd
  <1>13. CASE Amp!PreloaderPut
    BY <1>13 DEF Amp!PreloaderPut, Amp!PowerEvPmu, Amp!PowerEvPmd, Amp!BootWork,
         Amp!CancelWork, Amp!Woken, Amp!ExitHibernate, Amp!NotLoaded
  <1>14. CASE Amp!HaloBootedPut
    BY <1>14 DEF Amp!HaloBootedPut
  <1>15. CASE Amp!HibernateSwitchPut
    BY <1>15 DEF Amp!HibernateSwitchPut, Amp!CancelWork, Amp!Woken,
         Amp!ExitHibernate
  <1>16. CASE Amp!ForceWakePut
    BY <1>16 DEF Amp!ForceWakePut, Amp!CancelWork, Amp!ExitHibernate, Amp!Woken
  <1>17. CASE Amp!ControlPut \/ Amp!BpCurrentLimitPut \/ Amp!Default96kPut
    <2>1. PICK v \in {"a", "b"} : Amp!Write(v) /\ AmpWritten(v)
      BY <1>17, AmpWrites, Zenon
    <2> QED BY <2>1 DEF Amp!Write, AmpWritten
  <1>18. CASE Amp!ForceIntPut
    BY <1>18 DEF Amp!ForceIntPut
  <1>19. CASE Amp!ReloadTuningPut
    BY <1>19 DEF Amp!ReloadTuningPut
  <1>20. CASE Amp!GpiGlobalEnPut
    BY <1>20 DEF Amp!GpiGlobalEnPut
  <1>21. CASE Amp!AmpResetPut
    <2>1. /\ UNCHANGED <<setup41, forgotten>>
          /\ storing' = storing \/ (setup41 = "race" /\ storing' = storing \cup {"reset"})
      BY <1>21, Zenon DEF Amp!AmpResetPut, Amp!Reloaded
    <2> QED BY <2>1
  <1>22. CASE Amp!PowerEvStores
    BY <1>22 DEF Amp!PowerEvStores, Amp!Stored, Amp!NotLoaded
  <1>23. CASE Amp!SwitchStores
    BY <1>23 DEF Amp!SwitchStores, Amp!Stored
  <1>24. CASE Amp!HibernateSwitchOn
    BY <1>24 DEF Amp!HibernateSwitchOn
  <1> QED BY <1>1, <1>2, <1>3, <1>4, <1>5, <1>6, <1>7, <1>8, <1>9, <1>10, <1>11, <1>12, <1>13,
       <1>14, <1>15, <1>16, <1>17, <1>18, <1>19, <1>20, <1>21, <1>22, <1>23, <1>24,
       Zenon DEF Amp!Next

LEMMA AmpIrqStep ==
    ASSUME AmpFlags, AmpStates, AmpLock, AmpIrq, Amp!Next
    PROVE  AmpIrq'
  <1> USE DEF AmpIrq, Asleep, Due, AmpLock, AmpStates, AmpFlags, Amp!States, Amp!Fixed, Amp!Switches,
       Amp!Dsp, Amp!Bus, Amp!Rest, Amp!Lock
  <1>1. CASE Amp!WorkStarts
    BY <1>1 DEF Amp!WorkStarts
  <1>2. CASE Amp!EnterHibernate
    BY <1>2 DEF Amp!EnterHibernate
  <1>3. CASE Amp!PcmStartup
    BY <1>3 DEF Amp!PcmStartup, Amp!CancelWork, Amp!ExitHibernate, Amp!Woken
  <1>4. CASE Amp!SetDaiFmt \/ Amp!PcmHwParams \/ Amp!SetSysclk
    <2>1. PICK v \in {"a", "b"} : Amp!Remember(v) /\ stream41 = "opened" /\ setting41 \in {"format", "rate", "clock"}
      BY <1>4, AmpRemembers, Zenon
    <2> QED BY <2>1 DEF Amp!Remember
  <1>5. CASE Amp!HibernatePmu
    BY <1>5 DEF Amp!HibernatePmu, Amp!CancelWork, Amp!ExitHibernate, Amp!Woken
  <1>6. CASE Amp!StreamPreloads
    BY <1>6 DEF Amp!StreamPreloads, Amp!PowerEvPmu, Amp!BootWork
  <1>7. CASE Amp!StreamLoads
    BY <1>7 DEF Amp!StreamLoads, Amp!DspLoadEv, Amp!SetCsplMboxCmd, Amp!Resuming
  <1>8. CASE Amp!MainAmpPmu
    BY <1>8 DEF Amp!MainAmpPmu
  <1>9. CASE Amp!MainAmpPmd
    BY <1>9 DEF Amp!MainAmpPmd, Amp!SetCsplMboxCmd
  <1>10. CASE Amp!MainAmpDown
    BY <1>10 DEF Amp!MainAmpDown
  <1>11. CASE Amp!StreamUnloads
    BY <1>11 DEF Amp!StreamUnloads, Amp!PowerEvPmd, Amp!CancelWork, Amp!Woken,
         Amp!ExitHibernate, Amp!NotLoaded
  <1>12. CASE Amp!HibernatePmd
    BY <1>12 DEF Amp!HibernatePmd
  <1>13. CASE Amp!PreloaderPut
    BY <1>13 DEF Amp!PreloaderPut, Amp!PowerEvPmu, Amp!PowerEvPmd, Amp!BootWork,
         Amp!CancelWork, Amp!Woken, Amp!ExitHibernate, Amp!NotLoaded
  <1>14. CASE Amp!HaloBootedPut
    BY <1>14 DEF Amp!HaloBootedPut
  <1>15. CASE Amp!HibernateSwitchPut
    BY <1>15 DEF Amp!HibernateSwitchPut, Amp!CancelWork, Amp!Woken,
         Amp!ExitHibernate
  <1>16. CASE Amp!ForceWakePut
    BY <1>16 DEF Amp!ForceWakePut, Amp!CancelWork, Amp!ExitHibernate, Amp!Woken
  <1>17. CASE Amp!ControlPut \/ Amp!BpCurrentLimitPut \/ Amp!Default96kPut
    <2>1. PICK v \in {"a", "b"} : Amp!Write(v) /\ AmpWritten(v)
      BY <1>17, AmpWrites, Zenon
    <2> QED BY <2>1 DEF Amp!Write, AmpWritten
  <1>18. CASE Amp!ForceIntPut
    <2>1. CASE force_int41
      <3>1. ~force_int41' /\ irq_depth' = irq_depth + -1 /\ UNCHANGED <<setup41, amp_hibernate, forgotten>>
            /\ setting41 = "force_int"
        BY <1>18, <2>1, Zenon DEF Amp!ForceIntPut
      <3> QED BY <2>1, <3>1
    <2>2. CASE ~force_int41
      <3>1. force_int41' /\ irq_depth' = irq_depth + 1 /\ UNCHANGED <<setup41, amp_hibernate, forgotten>>
            /\ setting41 = "force_int"
        BY <1>18, <2>2, Zenon DEF Amp!ForceIntPut
      <3> QED BY <2>2, <3>1
    <2> QED BY <2>1, <2>2
  <1>19. CASE Amp!ReloadTuningPut
    BY <1>19 DEF Amp!ReloadTuningPut
  <1>20. CASE Amp!GpiGlobalEnPut
    BY <1>20 DEF Amp!GpiGlobalEnPut
  <1>21. CASE Amp!AmpResetPut
    BY <1>21 DEF Amp!AmpResetPut, Amp!ResetBus, Amp!Reloaded, Amp!CancelWork, Amp!NotLoaded
  <1>22. CASE Amp!PowerEvStores \/ Amp!SwitchStores \/ Amp!HibernateSwitchOn
    BY <1>22, AmpForgets
  <1> QED BY <1>1, <1>2, <1>3, <1>4, <1>5, <1>6, <1>7, <1>8, <1>9, <1>10, <1>11, <1>12, <1>13,
       <1>14, <1>15, <1>16, <1>17, <1>18, <1>19, <1>20, <1>21, <1>22,
       Zenon DEF Amp!Next

LEMMA AmpSleepStep ==
    ASSUME AmpFlags, AmpStates, AmpLock, AmpSleep, Amp!Next
    PROVE  AmpSleep'
  <1> USE DEF AmpLock, AmpSleep, AmpStates, AmpFlags, Amp!States, Amp!Fixed, Amp!Switches, Amp!Dsp,
       Amp!Bus, Amp!Rest, Amp!Lock
  <1>1. CASE Amp!WorkStarts
    BY <1>1 DEF Amp!WorkStarts
  <1>2. CASE Amp!EnterHibernate
    BY <1>2 DEF Amp!EnterHibernate
  <1>3. CASE Amp!PcmStartup
    BY <1>3 DEF Amp!PcmStartup, Amp!CancelWork, Amp!ExitHibernate, Amp!Woken
  <1>4. CASE Amp!SetDaiFmt \/ Amp!PcmHwParams \/ Amp!SetSysclk
    <2>1. PICK v \in {"a", "b"} : Amp!Remember(v) /\ stream41 = "opened" /\ setting41 \in {"format", "rate", "clock"}
      BY <1>4, AmpRemembers, Zenon
    <2> QED BY <2>1 DEF Amp!Remember
  <1>5. CASE Amp!HibernatePmu
    BY <1>5 DEF Amp!HibernatePmu, Amp!CancelWork, Amp!ExitHibernate, Amp!Woken
  <1>6. CASE Amp!StreamPreloads
    BY <1>6 DEF Amp!StreamPreloads, Amp!PowerEvPmu, Amp!BootWork
  <1>7. CASE Amp!StreamLoads
    BY <1>7 DEF Amp!StreamLoads, Amp!DspLoadEv, Amp!SetCsplMboxCmd, Amp!Resuming
  <1>8. CASE Amp!MainAmpPmu
    BY <1>8 DEF Amp!MainAmpPmu
  <1>9. CASE Amp!MainAmpPmd
    BY <1>9 DEF Amp!MainAmpPmd, Amp!SetCsplMboxCmd
  <1>10. CASE Amp!MainAmpDown
    BY <1>10 DEF Amp!MainAmpDown
  <1>11. CASE Amp!StreamUnloads
    BY <1>11 DEF Amp!StreamUnloads, Amp!PowerEvPmd, Amp!CancelWork, Amp!Woken,
         Amp!ExitHibernate, Amp!NotLoaded
  <1>12. CASE Amp!HibernatePmd
    BY <1>12 DEF Amp!HibernatePmd
  <1>13. CASE Amp!PreloaderPut
    BY <1>13 DEF Amp!PreloaderPut, Amp!PowerEvPmu, Amp!PowerEvPmd, Amp!BootWork,
         Amp!CancelWork, Amp!Woken, Amp!ExitHibernate, Amp!NotLoaded
  <1>14. CASE Amp!HaloBootedPut
    BY <1>14 DEF Amp!HaloBootedPut
  <1>15. CASE Amp!HibernateSwitchPut
    BY <1>15 DEF Amp!HibernateSwitchPut, Amp!CancelWork, Amp!Woken,
         Amp!ExitHibernate
  <1>16. CASE Amp!ForceWakePut
    BY <1>16 DEF Amp!ForceWakePut, Amp!CancelWork, Amp!ExitHibernate, Amp!Woken
  <1>17. CASE Amp!ControlPut \/ Amp!BpCurrentLimitPut \/ Amp!Default96kPut
    <2>1. PICK v \in {"a", "b"} : Amp!Write(v) /\ AmpWritten(v)
      BY <1>17, AmpWrites, Zenon
    <2> QED BY <2>1 DEF Amp!Write, AmpWritten
  <1>18. CASE Amp!ForceIntPut
    BY <1>18 DEF Amp!ForceIntPut
  <1>19. CASE Amp!ReloadTuningPut
    BY <1>19 DEF Amp!ReloadTuningPut
  <1>20. CASE Amp!GpiGlobalEnPut
    BY <1>20 DEF Amp!GpiGlobalEnPut
  <1>21. CASE Amp!AmpResetPut
    BY <1>21 DEF Amp!AmpResetPut, Amp!ResetBus, Amp!Reloaded, Amp!CancelWork, Amp!NotLoaded
  <1>22. CASE Amp!PowerEvStores
    BY <1>22 DEF Amp!PowerEvStores, Amp!Stored, Amp!NotLoaded
  <1>23. CASE Amp!SwitchStores
    BY <1>23 DEF Amp!SwitchStores, Amp!Stored
  <1>24. CASE Amp!HibernateSwitchOn
    BY <1>24 DEF Amp!HibernateSwitchOn
  <1> QED BY <1>1, <1>2, <1>3, <1>4, <1>5, <1>6, <1>7, <1>8, <1>9, <1>10, <1>11, <1>12, <1>13,
       <1>14, <1>15, <1>16, <1>17, <1>18, <1>19, <1>20, <1>21, <1>22, <1>23, <1>24,
       Zenon DEF Amp!Next

LEMMA AmpKeptStep ==
    ASSUME AmpFlags, AmpStates, AmpLock, AmpSleep, AmpKept, Amp!Next
    PROVE  AmpKept'
  <1> USE DEF AmpLock, AmpKept, AmpSleep, AmpStates, AmpFlags, Amp!Values, Amp!Settings, Amp!Restore,
       Amp!SetPdata, Amp!CtlCache, Amp!Fixed, Amp!Switches, Amp!Dsp, Amp!Bus, Amp!Rest, Amp!Lock
  <1>1. CASE Amp!WorkStarts
    BY <1>1 DEF Amp!WorkStarts
  <1>2. CASE Amp!EnterHibernate
    BY <1>2 DEF Amp!EnterHibernate
  <1>3. CASE Amp!PcmStartup
    BY <1>3 DEF Amp!PcmStartup, Amp!CancelWork, Amp!ExitHibernate, Amp!Woken
  <1>4. CASE Amp!SetDaiFmt \/ Amp!PcmHwParams \/ Amp!SetSysclk
    <2>1. PICK v \in {"a", "b"} : Amp!Remember(v) /\ stream41 = "opened" /\ setting41 \in {"format", "rate", "clock"}
      BY <1>4, AmpRemembers, Zenon
    <2> QED BY <2>1 DEF Amp!Remember
  <1>5. CASE Amp!HibernatePmu
    BY <1>5 DEF Amp!HibernatePmu, Amp!CancelWork, Amp!ExitHibernate, Amp!Woken
  <1>6. CASE Amp!StreamPreloads
    BY <1>6 DEF Amp!StreamPreloads, Amp!PowerEvPmu, Amp!BootWork
  <1>7. CASE Amp!StreamLoads
    BY <1>7 DEF Amp!StreamLoads, Amp!DspLoadEv, Amp!SetCsplMboxCmd, Amp!Resuming
  <1>8. CASE Amp!MainAmpPmu
    BY <1>8 DEF Amp!MainAmpPmu
  <1>9. CASE Amp!MainAmpPmd
    BY <1>9 DEF Amp!MainAmpPmd, Amp!SetCsplMboxCmd
  <1>10. CASE Amp!MainAmpDown
    BY <1>10 DEF Amp!MainAmpDown
  <1>11. CASE Amp!StreamUnloads
    BY <1>11 DEF Amp!StreamUnloads, Amp!PowerEvPmd, Amp!CancelWork, Amp!Woken,
         Amp!ExitHibernate, Amp!NotLoaded
  <1>12. CASE Amp!HibernatePmd
    BY <1>12 DEF Amp!HibernatePmd
  <1>13. CASE Amp!PreloaderPut
    BY <1>13 DEF Amp!PreloaderPut, Amp!PowerEvPmu, Amp!PowerEvPmd, Amp!BootWork,
         Amp!CancelWork, Amp!Woken, Amp!ExitHibernate, Amp!NotLoaded
  <1>14. CASE Amp!HaloBootedPut
    BY <1>14 DEF Amp!HaloBootedPut
  <1>15. CASE Amp!HibernateSwitchPut
    BY <1>15 DEF Amp!HibernateSwitchPut, Amp!CancelWork, Amp!Woken,
         Amp!ExitHibernate
  <1>16. CASE Amp!ForceWakePut
    BY <1>16 DEF Amp!ForceWakePut, Amp!CancelWork, Amp!ExitHibernate, Amp!Woken
  <1>17. CASE Amp!ControlPut \/ Amp!BpCurrentLimitPut \/ Amp!Default96kPut
    <2>1. PICK v \in {"a", "b"} : Amp!Write(v) /\ AmpWritten(v)
      BY <1>17, AmpWrites, Zenon
    <2> QED BY <2>1 DEF Amp!Write, AmpWritten
  <1>18. CASE Amp!ForceIntPut
    BY <1>18 DEF Amp!ForceIntPut
  <1>19. CASE Amp!ReloadTuningPut
    BY <1>19 DEF Amp!ReloadTuningPut
  <1>20. CASE Amp!GpiGlobalEnPut
    BY <1>20 DEF Amp!GpiGlobalEnPut
  <1>21. CASE Amp!AmpResetPut
    BY <1>21 DEF Amp!AmpResetPut, Amp!ResetBus, Amp!Reloaded, Amp!CancelWork, Amp!NotLoaded
  <1>22. CASE Amp!PowerEvStores
    BY <1>22 DEF Amp!PowerEvStores, Amp!Stored, Amp!NotLoaded
  <1>23. CASE Amp!SwitchStores
    BY <1>23 DEF Amp!SwitchStores, Amp!Stored
  <1>24. CASE Amp!HibernateSwitchOn
    BY <1>24 DEF Amp!HibernateSwitchOn
  <1> QED BY <1>1, <1>2, <1>3, <1>4, <1>5, <1>6, <1>7, <1>8, <1>9, <1>10, <1>11, <1>12, <1>13,
       <1>14, <1>15, <1>16, <1>17, <1>18, <1>19, <1>20, <1>21, <1>22, <1>23, <1>24,
       Zenon DEF Amp!Next

LEMMA AmpFirmwareStep ==
    ASSUME AmpFlags, AmpStates, AmpLock, AmpSleep, AmpFirmware, Amp!Next
    PROVE  AmpFirmware'
  <1> USE DEF AmpLock, AmpFirmware, AmpSleep, AmpStates, AmpFlags, Amp!Settled, Amp!Fixed,
       Amp!Switches, Amp!Dsp, Amp!Bus, Amp!Rest, Amp!Lock
  <1>1. CASE Amp!WorkStarts
    BY <1>1 DEF Amp!WorkStarts
  <1>2. CASE Amp!EnterHibernate
    BY <1>2 DEF Amp!EnterHibernate
  <1>3. CASE Amp!PcmStartup
    BY <1>3 DEF Amp!PcmStartup, Amp!CancelWork, Amp!ExitHibernate, Amp!Woken
  <1>4. CASE Amp!SetDaiFmt \/ Amp!PcmHwParams \/ Amp!SetSysclk
    <2>1. PICK v \in {"a", "b"} : Amp!Remember(v) /\ stream41 = "opened" /\ setting41 \in {"format", "rate", "clock"}
      BY <1>4, AmpRemembers, Zenon
    <2> QED BY <2>1 DEF Amp!Remember
  <1>5. CASE Amp!HibernatePmu
    BY <1>5 DEF Amp!HibernatePmu, Amp!CancelWork, Amp!ExitHibernate, Amp!Woken
  <1>6. CASE Amp!StreamPreloads
    BY <1>6 DEF Amp!StreamPreloads, Amp!PowerEvPmu, Amp!BootWork
  <1>7. CASE Amp!StreamLoads
    BY <1>7 DEF Amp!StreamLoads, Amp!DspLoadEv, Amp!SetCsplMboxCmd, Amp!Resuming
  <1>8. CASE Amp!MainAmpPmu
    BY <1>8 DEF Amp!MainAmpPmu
  <1>9. CASE Amp!MainAmpPmd
    BY <1>9 DEF Amp!MainAmpPmd, Amp!SetCsplMboxCmd
  <1>10. CASE Amp!MainAmpDown
    BY <1>10 DEF Amp!MainAmpDown
  <1>11. CASE Amp!StreamUnloads
    BY <1>11 DEF Amp!StreamUnloads, Amp!PowerEvPmd, Amp!CancelWork, Amp!Woken,
         Amp!ExitHibernate, Amp!NotLoaded
  <1>12. CASE Amp!HibernatePmd
    BY <1>12 DEF Amp!HibernatePmd
  <1>13. CASE Amp!PreloaderPut
    BY <1>13 DEF Amp!PreloaderPut, Amp!PowerEvPmu, Amp!PowerEvPmd, Amp!BootWork,
         Amp!CancelWork, Amp!Woken, Amp!ExitHibernate, Amp!NotLoaded
  <1>14. CASE Amp!HaloBootedPut
    BY <1>14 DEF Amp!HaloBootedPut
  <1>15. CASE Amp!HibernateSwitchPut
    BY <1>15 DEF Amp!HibernateSwitchPut, Amp!CancelWork, Amp!Woken,
         Amp!ExitHibernate
  <1>16. CASE Amp!ForceWakePut
    BY <1>16 DEF Amp!ForceWakePut, Amp!CancelWork, Amp!ExitHibernate, Amp!Woken
  <1>17. CASE Amp!ControlPut \/ Amp!BpCurrentLimitPut \/ Amp!Default96kPut
    <2>1. PICK v \in {"a", "b"} : Amp!Write(v) /\ AmpWritten(v)
      BY <1>17, AmpWrites, Zenon
    <2> QED BY <2>1 DEF Amp!Write, AmpWritten
  <1>18. CASE Amp!ForceIntPut
    BY <1>18 DEF Amp!ForceIntPut
  <1>19. CASE Amp!ReloadTuningPut
    BY <1>19 DEF Amp!ReloadTuningPut
  <1>20. CASE Amp!GpiGlobalEnPut
    BY <1>20 DEF Amp!GpiGlobalEnPut
  <1>21. CASE Amp!AmpResetPut
    BY <1>21 DEF Amp!AmpResetPut, Amp!ResetBus, Amp!Reloaded, Amp!CancelWork, Amp!NotLoaded
  <1>22. CASE Amp!PowerEvStores
    BY <1>22 DEF Amp!PowerEvStores, Amp!Stored, Amp!NotLoaded
  <1>23. CASE Amp!SwitchStores
    BY <1>23 DEF Amp!SwitchStores, Amp!Stored
  <1>24. CASE Amp!HibernateSwitchOn
    BY <1>24 DEF Amp!HibernateSwitchOn
  <1> QED BY <1>1, <1>2, <1>3, <1>4, <1>5, <1>6, <1>7, <1>8, <1>9, <1>10, <1>11, <1>12, <1>13,
       <1>14, <1>15, <1>16, <1>17, <1>18, <1>19, <1>20, <1>21, <1>22, <1>23, <1>24,
       Zenon DEF Amp!Next

LEMMA AmpPinStep ==
    ASSUME AmpFlags, AmpStates, AmpLock, AmpSleep, AmpFirmware, AmpPin, Amp!Next
    PROVE  AmpPin'
  <1> USE DEF AmpLock, AmpPin, AmpFirmware, AmpSleep, AmpStates, AmpFlags, Amp!Settled, Amp!Fixed,
       Amp!Switches, Amp!Dsp, Amp!Bus, Amp!Rest, Amp!Lock
  <1>1. CASE Amp!WorkStarts
    BY <1>1 DEF Amp!WorkStarts
  <1>2. CASE Amp!EnterHibernate
    BY <1>2 DEF Amp!EnterHibernate
  <1>3. CASE Amp!PcmStartup
    BY <1>3 DEF Amp!PcmStartup, Amp!CancelWork, Amp!ExitHibernate, Amp!Woken
  <1>4. CASE Amp!SetDaiFmt \/ Amp!PcmHwParams \/ Amp!SetSysclk
    <2>1. PICK v \in {"a", "b"} : Amp!Remember(v) /\ stream41 = "opened" /\ setting41 \in {"format", "rate", "clock"}
      BY <1>4, AmpRemembers, Zenon
    <2> QED BY <2>1 DEF Amp!Remember
  <1>5. CASE Amp!HibernatePmu
    BY <1>5 DEF Amp!HibernatePmu, Amp!CancelWork, Amp!ExitHibernate, Amp!Woken
  <1>6. CASE Amp!StreamPreloads
    BY <1>6 DEF Amp!StreamPreloads, Amp!PowerEvPmu, Amp!BootWork
  <1>7. CASE Amp!StreamLoads
    BY <1>7 DEF Amp!StreamLoads, Amp!DspLoadEv, Amp!SetCsplMboxCmd, Amp!Resuming
  <1>8. CASE Amp!MainAmpPmu
    BY <1>8 DEF Amp!MainAmpPmu
  <1>9. CASE Amp!MainAmpPmd
    BY <1>9 DEF Amp!MainAmpPmd, Amp!SetCsplMboxCmd
  <1>10. CASE Amp!MainAmpDown
    BY <1>10 DEF Amp!MainAmpDown
  <1>11. CASE Amp!StreamUnloads
    BY <1>11 DEF Amp!StreamUnloads, Amp!PowerEvPmd, Amp!CancelWork, Amp!Woken,
         Amp!ExitHibernate, Amp!NotLoaded
  <1>12. CASE Amp!HibernatePmd
    BY <1>12 DEF Amp!HibernatePmd
  <1>13. CASE Amp!PreloaderPut
    BY <1>13 DEF Amp!PreloaderPut, Amp!PowerEvPmu, Amp!PowerEvPmd, Amp!BootWork,
         Amp!CancelWork, Amp!Woken, Amp!ExitHibernate, Amp!NotLoaded
  <1>14. CASE Amp!HaloBootedPut
    BY <1>14 DEF Amp!HaloBootedPut
  <1>15. CASE Amp!HibernateSwitchPut
    BY <1>15 DEF Amp!HibernateSwitchPut, Amp!CancelWork, Amp!Woken,
         Amp!ExitHibernate
  <1>16. CASE Amp!ForceWakePut
    BY <1>16 DEF Amp!ForceWakePut, Amp!CancelWork, Amp!ExitHibernate, Amp!Woken
  <1>17. CASE Amp!ControlPut \/ Amp!BpCurrentLimitPut \/ Amp!Default96kPut
    <2>1. PICK v \in {"a", "b"} : Amp!Write(v) /\ AmpWritten(v)
      BY <1>17, AmpWrites, Zenon
    <2> QED BY <2>1 DEF Amp!Write, AmpWritten
  <1>18. CASE Amp!ForceIntPut
    BY <1>18 DEF Amp!ForceIntPut
  <1>19. CASE Amp!ReloadTuningPut
    BY <1>19 DEF Amp!ReloadTuningPut
  <1>20. CASE Amp!GpiGlobalEnPut
    BY <1>20 DEF Amp!GpiGlobalEnPut
  <1>21. CASE Amp!AmpResetPut
    BY <1>21 DEF Amp!AmpResetPut, Amp!ResetBus, Amp!Reloaded, Amp!CancelWork, Amp!NotLoaded
  <1>22. CASE Amp!PowerEvStores
    BY <1>22 DEF Amp!PowerEvStores, Amp!Stored, Amp!NotLoaded
  <1>23. CASE Amp!SwitchStores
    BY <1>23 DEF Amp!SwitchStores, Amp!Stored
  <1>24. CASE Amp!HibernateSwitchOn
    BY <1>24 DEF Amp!HibernateSwitchOn
  <1> QED BY <1>1, <1>2, <1>3, <1>4, <1>5, <1>6, <1>7, <1>8, <1>9, <1>10, <1>11, <1>12, <1>13,
       <1>14, <1>15, <1>16, <1>17, <1>18, <1>19, <1>20, <1>21, <1>22, <1>23, <1>24,
       Zenon DEF Amp!Next

LEMMA AmpInit ==
    ASSUME Amp!Init
    PROVE  AmpInv
  <1>1. AmpFlags
    BY Zenon DEF Amp!Init, Amp!Probed, AmpFlags
  <1>2. AmpStates
    BY DevicesAssumption DEF DevicesAssumption, Amp!PowerAssumption, Amp!Init, Amp!Probed,
         AmpStates, Amp!States, Amp!Values
  <1>3. AmpLock /\ AmpIrq /\ AmpSleep /\ AmpKept /\ AmpFirmware
    BY DEF Amp!Init, Amp!Probed, AmpLock, AmpIrq, Asleep, Due, AmpSleep, AmpKept, AmpFirmware, Amp!Settings
  <1>4. AmpPin
    BY DEF Amp!Init, Amp!Probed, AmpPin
  <1> QED BY <1>1, <1>2, <1>3, <1>4, Zenon DEF AmpInv

LEMMA AmpStep ==
    ASSUME AmpInv, [Amp!Next]_amp_vars
    PROVE  AmpInv'
  <1>1. CASE Amp!Next
    BY <1>1, AmpFlagsStep, AmpStatesStep, AmpLockStep, AmpIrqStep, AmpSleepStep, AmpKeptStep,
         AmpFirmwareStep, AmpPinStep,
       Zenon DEF AmpInv
  <1>2. CASE UNCHANGED amp_vars
    <2> USE <1>2 DEF amp_vars, AmpInv
    <2>1. AmpFlags'
      BY ZenonT(60) DEF AmpFlags
    <2>2. AmpStates'
      BY Zenon DEF AmpStates
    <2>3. AmpLock' /\ AmpIrq' /\ AmpSleep'
      BY Zenon DEF AmpLock, AmpIrq, Asleep, Due, AmpSleep
    <2>4. AmpKept' /\ AmpFirmware' /\ AmpPin'
      BY Zenon DEF AmpKept, AmpFirmware, AmpPin
    <2> QED BY <2>1, <2>2, <2>3, <2>4, Zenon
  <1> QED BY <1>1, <1>2

LEMMA AmpSafe ==
    ASSUME AmpInv
    PROVE  Amp!TypeOK /\ Amp!AmpSound
  <1>1. irq_depth \in Nat
    BY Zenon DEF AmpInv, AmpIrq
  <1>2. Amp!TypeOK
    <2>1. {preloaded, booted41, running41, halo_booted, enabled41, reload_tuning, gpi_global_en,
           hibernate_force_wake, force_int41, cache_only41, asleep41, mbox_8} \subseteq BOOLEAN
      BY Zenon DEF AmpInv, AmpFlags
    <2>2. {kept41, stored41, chip41, wanted41} \subseteq Amp!Values
      BY Zenon DEF AmpInv, AmpStates
    <2> QED BY <1>1, <2>1, <2>2, Zenon DEF AmpInv, AmpFlags, AmpStates, AmpLock, Amp!TypeOK
  <1>3. Amp!AwakeWhilePlaying
    BY DEF AmpInv, AmpStates, AmpLock, AmpSleep, Amp!AwakeWhilePlaying
  <1>4. Amp!RegistersKept
    BY Zenon DEF AmpInv, AmpKept, Amp!RegistersKept
  <1>5. Amp!FirmwareFollows
    BY DEF AmpInv, AmpFirmware, Amp!FirmwareFollows
  <1>6. Amp!PinHeld
    BY Zenon DEF AmpInv, AmpPin, Amp!PinHeld
  <1>7. Amp!IrqBalanced
    BY DEF AmpInv, AmpIrq, Asleep, Due, Amp!IrqBalanced
  <1> QED BY <1>2, <1>3, <1>4, <1>5, <1>6, <1>7, Zenon DEF Amp!AmpSound

--------------------------------------------------------------------------------
(* WmAdsp: the controls of the CS35L41's firmware *)

(* The driver's state, the control and the chip's word keep their types. *)
LEMMA ControlsTypedInit == Controls!Init => Controls!TypeOK
  <1> SUFFICES ASSUME Controls!Init PROVE Controls!TypeOK
    OBVIOUS
  <1>1. ctl \in [listed : BOOLEAN, enabled : BOOLEAN, set : BOOLEAN, cache : Controls!Values]
    BY DEF Controls!Init, Controls!Values
  <1> QED BY <1>1, Zenon DEF Controls!Init, Controls!TypeOK, Controls!Values

LEMMA ControlsTypedStep ==
    ASSUME Controls!TypeOK, [Controls!Next]_wm_vars
    PROVE  Controls!TypeOK'
  <1>0. Controls!Tuned \in Controls!Values /\ Controls!ReadCtrl \in Controls!Values \cup {"error"}
    BY DEF Controls!TypeOK, Controls!Values, Controls!Tuned, Controls!Loaded, Controls!ReadCtrl
  <1>v. \A v \in Inputs : Controls!Store(v) \in Controls!Values /\ Controls!Written(v) \in Controls!Values
                          /\ Controls!Wanted(v) \in Inputs \cup {"none"}
    BY DEF Controls!TypeOK, Controls!Values, Controls!Store, Controls!Written,
         Controls!Wanted, Controls!Raw
  <1>s. Controls!Synced \in Controls!Values
    BY DEF Controls!TypeOK, Controls!Synced, Controls!Raw
  <1> USE DEF Controls!TypeOK, Controls!Fixed, Controls!User, Controls!Dsp, Controls!Chip
  <1>1. CASE Controls!BootWork
    <2>1. Controls!Created \in [listed : BOOLEAN, enabled : BOOLEAN, set : BOOLEAN, cache : Controls!Values]
      BY DEF Controls!Created
    <2>2. Controls!Cached(Controls!Created) \in [listed : BOOLEAN, enabled : BOOLEAN, set : BOOLEAN, cache : Controls!Values]
      BY <1>0, <2>1 DEF Controls!Cached
    <2>3. Controls!Announced \in {"none", "pending", "added"}
      BY DEF Controls!Announced
    <2> QED BY <1>0, <1>1, <2>1, <2>2, <2>3 DEF Controls!BootWork, Controls!Values
  <1>2. CASE Controls!StreamOpen \/ Controls!StreamClose \/ Controls!PreloaderPut
    BY <1>2 DEF Controls!StreamOpen, Controls!StreamClose, Controls!PreloaderPut,
         Controls!PowerEvPmu, Controls!PowerEvPmd
  <1>3. CASE Controls!StreamStart
    BY <1>3, <1>s DEF Controls!StreamStart, Controls!DspLoadEv
  <1>4. CASE Controls!FwPut \/ Controls!HaloBootedPut
    BY <1>4 DEF Controls!FwPut, Controls!HaloBootedPut
  <1>5. CASE Controls!AmpResetPut \/ Controls!CtlWork
    BY <1>5 DEF Controls!AmpResetPut, Controls!CtlWork, Controls!Values
  <1>6. CASE Controls!Put
    BY <1>6, <1>v DEF Controls!Put
  <1>7. CASE Controls!TlvPutFails \/ Controls!PutAcked
    BY <1>7 DEF Controls!TlvPutFails, Controls!PutAcked, Controls!Values
  <1>8. CASE Controls!Get
    <2>1. flags = {} => Controls!ReadCtrl \in Controls!Values
      BY DEF Controls!ReadCtrl
    <2> QED BY <1>8, <2>1 DEF Controls!Get
  <1>9. CASE Controls!FastSwitchPut
    BY <1>9, <1>v DEF Controls!FastSwitchPut
  <1>10. CASE Controls!FastSwitchWritten
    BY <1>10, <1>v DEF Controls!FastSwitchWritten
  <1>11. CASE Controls!FastSwitchOff \/ Controls!DspRuns
    BY <1>11 DEF Controls!FastSwitchOff, Controls!DspRuns, Controls!Values
  <1>12. CASE UNCHANGED wm_vars
    BY <1>12 DEF wm_vars
  <1> QED
    BY <1>1, <1>2, <1>3, <1>4, <1>5, <1>6, <1>7, <1>8, <1>9, <1>10, <1>11,
         <1>12 DEF Controls!Next

(* No step changes what is known of the control from its file. *)
LEMMA ControlsFixed ==
    ASSUME [Controls!Next]_wm_vars
    PROVE  UNCHANGED Controls!Fixed
  BY DEF Controls!Next, wm_vars, Controls!Fixed, Controls!BootWork, Controls!StreamOpen,
       Controls!StreamStart, Controls!StreamClose, Controls!PreloaderPut, Controls!FwPut,
         Controls!HaloBootedPut, Controls!AmpResetPut, Controls!CtlWork, Controls!Put,
         Controls!TlvPutFails, Controls!PutAcked, Controls!Get, Controls!FastSwitchPut,
         Controls!FastSwitchWritten, Controls!FastSwitchOff, Controls!DspRuns

(* A control is enabled only while its own firmware is chosen and booted: no other can be
   chosen before a power-down has disabled it. *)
CtlOwner ==
    /\ ctl.enabled => fw_wm = Mine /\ booted_wm
    /\ code_wm = Other => mem_wm = "foreign" /\ ~ctl.enabled

LEMMA ControlsOwnerStep ==
    ASSUME DevicesAssumption, Controls!TypeOK, setup_wm = "sound", CtlOwner, [Controls!Next]_wm_vars
    PROVE  CtlOwner'
  <1>a. Controls!WmAdspAssumption
    BY DevicesAssumption DEF DevicesAssumption
  <1> USE <1>a DEF CtlOwner, Controls!TypeOK, Controls!Fixed, Controls!User, Controls!Dsp,
       Controls!Chip
  <1>1. CASE Controls!BootWork
    BY <1>1 DEF Controls!BootWork, Controls!Cached, Controls!Created, Controls!Tuned,
         Controls!Loaded, Controls!WmAdspAssumption
  <1>2. CASE Controls!StreamOpen \/ Controls!StreamClose \/ Controls!PreloaderPut
    BY <1>2 DEF Controls!StreamOpen, Controls!StreamClose, Controls!PreloaderPut,
         Controls!PowerEvPmu, Controls!PowerEvPmd
  <1>3. CASE Controls!StreamStart
    BY <1>3 DEF Controls!StreamStart, Controls!DspLoadEv, Controls!Synced, Controls!Raw
  <1>4. CASE Controls!FwPut \/ Controls!HaloBootedPut \/ Controls!CtlWork \/ Controls!FastSwitchOff
    BY <1>4 DEF Controls!FwPut, Controls!HaloBootedPut, Controls!CtlWork, Controls!FastSwitchOff
  <1>5. CASE Controls!AmpResetPut
    BY <1>5 DEF Controls!AmpResetPut, Controls!WmAdspAssumption
  <1>6. CASE Controls!Put \/ Controls!FastSwitchWritten
    BY <1>6 DEF Controls!Put, Controls!FastSwitchWritten, Controls!Written, Controls!Raw
  <1>7. CASE Controls!TlvPutFails \/ Controls!PutAcked \/ Controls!Get \/ Controls!FastSwitchPut
    BY <1>7 DEF Controls!TlvPutFails, Controls!PutAcked, Controls!Get, Controls!FastSwitchPut
  <1>8. CASE Controls!DspRuns
    BY <1>8 DEF Controls!DspRuns, Controls!WmAdspAssumption
  <1>9. CASE UNCHANGED wm_vars
    BY <1>9 DEF wm_vars
  <1> QED BY <1>1, <1>2, <1>3, <1>4, <1>5, <1>6, <1>7, <1>8, <1>9 DEF Controls!Next

(* A parameter, without failures and races *)
CtlParam == setup_wm = "sound" /\ type = "BYTES" /\ flags # {} /\ "VOLATILE" \notin flags

(* The cache holds what was stored; the memory agrees with it as far as the firmware was
   loaded for this control, and altogether once it was started. *)
CtlLoading == boot_work => ~halo_booted_wm /\ stream_wm # "playing"

CtlStored ==
    /\ wanted_wm # "none" => ctl.set /\ (copying = "none" => ctl.cache = wanted_wm)
    /\ copying # "none" => ctl.cache = copying

CtlLoaded ==
    ctl.enabled /\ ~boot_work /\ (halo_booted_wm \/ preloaded_wm \/ stream_wm # "closed") =>
        /\ code_wm = Mine
        /\ copying = "none" /\ ~ctl.set /\ "READABLE" \in flags => mem_wm = ctl.cache

CtlStarted ==
    ctl.enabled /\ running_wm /\ (halo_booted_wm \/ stream_wm = "playing") =>
        /\ code_wm = Mine
        /\ copying = "none" /\ (ctl.set \/ "READABLE" \in flags) => mem_wm = ctl.cache

CtlAgrees == CtlOwner /\ CtlLoading /\ CtlStored /\ CtlLoaded /\ CtlStarted

LEMMA ControlsAgreeStep ==
    ASSUME DevicesAssumption, Controls!TypeOK, CtlAgrees, CtlParam, [Controls!Next]_wm_vars
    PROVE  CtlAgrees'
  <1>a. Controls!WmAdspAssumption
    BY DEF DevicesAssumption
  <1>i. Inputs \cap {"none"} = {}
    BY <1>a DEF Controls!WmAdspAssumption
  <1> USE <1>a DEF CtlParam, CtlAgrees, CtlOwner, CtlLoading, CtlStored, CtlLoaded,
       CtlStarted, Controls!TypeOK,
              Controls!Fixed, Controls!User, Controls!Dsp, Controls!Chip
  <1>1. CASE Controls!BootWork
    <2>1. ~Controls!Ignored /\ ~Controls!Refused
      BY DEF Controls!Refused, Controls!Ignored, Controls!Required
    <2>2. CtlOwner'
      BY <1>1, <2>1 DEF Controls!BootWork, Controls!Cached, Controls!Created, Controls!Tuned,
           Controls!Loaded, Controls!WmAdspAssumption
    <2>3. CASE fw_wm = Other
      <3>1. Controls!Cached(Controls!Created) = ctl
        BY <2>3 DEF Controls!Cached, Controls!Created, Controls!WmAdspAssumption
      <3> QED BY <1>1, <2>1, <2>2, <2>3, <3>1 DEF Controls!BootWork, Controls!WmAdspAssumption
    <2>4. CASE fw_wm = Mine
      <3>1. /\ Controls!Cached(Controls!Created).set = ctl.set
            /\ ctl.set => Controls!Cached(Controls!Created).cache = ctl.cache
            /\ ~ctl.set /\ "READABLE" \in flags => Controls!Cached(Controls!Created).cache = Controls!Tuned
        BY <2>1, <2>4 DEF Controls!Cached, Controls!Created
      <3>2. ctl' = Controls!Cached(Controls!Created) /\ code_wm' = Mine /\ mem_wm' = Controls!Tuned /\ copying = "none"
            /\ ~boot_work' /\ UNCHANGED <<stream_wm, halo_booted_wm, wanted_wm, copying>>
        BY <1>1, <2>1, <2>4 DEF Controls!BootWork
      <3> QED BY <1>1, <2>2, <3>1, <3>2 DEF Controls!BootWork
    <2> QED BY <2>3, <2>4
  <1>2. CASE Controls!StreamOpen
    BY <1>2 DEF Controls!StreamOpen, Controls!PowerEvPmu
  <1>3. CASE Controls!StreamClose
    BY <1>3 DEF Controls!StreamClose, Controls!PowerEvPmd
  <1>4. CASE Controls!PreloaderPut
    BY <1>4 DEF Controls!PreloaderPut, Controls!PowerEvPmu, Controls!PowerEvPmd
  <1>5. CASE Controls!StreamStart
    BY <1>5 DEF Controls!StreamStart, Controls!DspLoadEv, Controls!Synced, Controls!Raw,
         Controls!WmAdspAssumption
  <1>6. CASE Controls!FwPut \/ Controls!HaloBootedPut \/ Controls!CtlWork \/ Controls!FastSwitchOff
    <2>1. CASE Controls!FwPut
      BY <2>1 DEF Controls!FwPut
    <2>2. CASE Controls!HaloBootedPut
      BY <2>2 DEF Controls!HaloBootedPut
    <2>3. CASE Controls!CtlWork \/ Controls!FastSwitchOff
      BY <2>3 DEF Controls!CtlWork, Controls!FastSwitchOff
    <2> QED BY <1>6, <2>1, <2>2, <2>3
  <1>7. CASE Controls!AmpResetPut
    BY <1>7 DEF Controls!AmpResetPut, Controls!Idle, Controls!WmAdspAssumption
  <1>8. CASE Controls!Put
    BY <1>8, <1>i DEF Controls!Put, Controls!Written, Controls!Store, Controls!Wanted,
         Controls!Raw, Controls!WmAdspAssumption
  <1>9. CASE Controls!FastSwitchPut
    BY <1>9, <1>i DEF Controls!FastSwitchPut, Controls!Store
  <1>10. CASE Controls!FastSwitchWritten
    BY <1>10, <1>i DEF Controls!FastSwitchWritten, Controls!Written, Controls!Wanted,
         Controls!Raw, Controls!WmAdspAssumption
  <1>11. CASE Controls!TlvPutFails \/ Controls!PutAcked \/ Controls!Get \/ Controls!DspRuns
    BY <1>11 DEF Controls!TlvPutFails, Controls!PutAcked, Controls!Get, Controls!DspRuns
  <1>12. CASE UNCHANGED wm_vars
    BY <1>12 DEF wm_vars
  <1> QED BY <1>1, <1>2, <1>3, <1>4, <1>5, <1>6, <1>7, <1>8, <1>9, <1>10, <1>11,
       <1>12 DEF Controls!Next

(* A control that is stored keeps its value, and no other firmware is written to. *)
ControlsInv ==
    /\ Controls!TypeOK
    /\ setup_wm = "sound" => CtlOwner
    /\ CtlParam => CtlAgrees

LEMMA ControlsInit ==
    ASSUME Controls!Init
    PROVE  ControlsInv
  <1>a. Controls!WmAdspAssumption
    BY DevicesAssumption DEF DevicesAssumption
  <1> QED BY <1>a, ControlsTypedInit DEF Controls!Init, ControlsInv, CtlAgrees, CtlOwner,
       CtlLoading, CtlStored,
             CtlLoaded, CtlStarted, Controls!WmAdspAssumption

LEMMA ControlsStep ==
    ASSUME DevicesAssumption, ControlsInv, [Controls!Next]_wm_vars
    PROVE  ControlsInv'
  BY ControlsTypedStep, ControlsFixed, ControlsOwnerStep, ControlsAgreeStep
     DEF ControlsInv, CtlParam, Controls!Fixed

LEMMA ControlsSafe ==
    ASSUME ControlsInv
    PROVE  Controls!ControlsTrue /\ Controls!ForeignUntouched
  BY DEF ControlsInv, CtlOwner, CtlParam, CtlAgrees, CtlStored, CtlStarted,
       Controls!ControlsTrue, Controls!ReadCtrl,
         Controls!ForeignUntouched

--------------------------------------------------------------------------------
(* The devices together *)

DevicesInv ==
    /\ part \in Parts
    /\ part = "drv2624" => HapticsInv
    /\ part = "metrics" => MetricsInv
    /\ part = "power45" => PowerInv
    /\ part = "volume45" => Volume!TypeOK /\ VolumeInv
    /\ part = "firmware" => FirmwareInv
    /\ part = "stream" => StreamInv
    /\ part = "power41" => AmpInv
    /\ part = "controls41" => ControlsInv

(* A behaviour starts with every part in an initial state, *)
LEMMA DevicesStart ==
    ASSUME Init
    PROVE  DevicesInv
  <1>1. part \in Parts
    BY Zenon DEF Init
  <1>2. HapticsInv /\ MetricsInv /\ PowerInv
    BY HapticsInit, MetricsInit, PowerInit, Zenon DEF Init
  <1>3. Volume!TypeOK /\ VolumeInv /\ FirmwareInv /\ StreamInv
    BY VolumeInit, FirmwareInit, StreamInit, Zenon DEF Init
  <1>4. AmpInv /\ ControlsInv
    BY AmpInit, ControlsInit, Zenon DEF Init
  <1> QED BY <1>1, <1>2, <1>3, <1>4, Zenon DEF DevicesInv

(* and stays with one of them, of which it makes the steps. *)
LEMMA DevicesGoOn ==
    ASSUME [Next]_vars
    PROVE  /\ part' = part
           /\ part = "drv2624" => [Haptics!Next]_haptics_vars
           /\ part = "metrics" => [Metrics!Next]_metrics_vars
           /\ part = "power45" => [Power!Next]_power_vars
           /\ part = "volume45" => [Volume!Next]_volume_vars
           /\ part = "firmware" => [Firmware!Next]_dsp_vars
           /\ part = "stream" => [Stream!Next]_stream_vars
           /\ part = "power41" => [Amp!Next]_amp_vars
           /\ part = "controls41" => [Controls!Next]_wm_vars
  <1>1. CASE Next
    <2>1. part' = part
      BY <1>1, Zenon DEF Next, Others
    <2>2. /\ part = "drv2624" => Haptics!Next
          /\ part = "metrics" => Metrics!Next
          /\ part = "power45" => Power!Next
          /\ part = "volume45" => Volume!Next
          /\ part = "firmware" => Firmware!Next
          /\ part = "stream" => Stream!Next
          /\ part = "power41" => Amp!Next
          /\ part = "controls41" => Controls!Next
      BY <1>1 DEF Next
    <2> QED BY <2>1, <2>2, Zenon
  <1>2. CASE UNCHANGED vars
    BY <1>2, Zenon DEF vars
  <1> QED BY <1>1, <1>2

LEMMA DevicesKeep ==
    ASSUME DevicesInv, [Next]_vars
    PROVE  DevicesInv'
  <1>1. part' = part /\ part \in Parts
    BY DevicesGoOn, Zenon DEF DevicesInv
  <1>2. CASE part = "drv2624"
    <2>1. HapticsInv'
      BY <1>2, DevicesGoOn, HapticsStep, Zenon DEF DevicesInv
    <2> QED BY <1>1, <1>2, <2>1 DEF DevicesInv
  <1>3. CASE part = "metrics"
    <2>1. MetricsInv'
      BY <1>3, DevicesGoOn, MetricsStep, Zenon DEF DevicesInv
    <2> QED BY <1>1, <1>3, <2>1 DEF DevicesInv
  <1>4. CASE part = "power45"
    <2>1. PowerInv'
      BY <1>4, DevicesGoOn, PowerStep, Zenon DEF DevicesInv
    <2> QED BY <1>1, <1>4, <2>1 DEF DevicesInv
  <1>5. CASE part = "volume45"
    <2>1. Volume!TypeOK' /\ VolumeInv'
      BY <1>5, DevicesAssumption, DevicesGoOn, VolumeTypedStep, VolumeInvStep, Zenon DEF DevicesInv
    <2> QED BY <1>1, <1>5, <2>1 DEF DevicesInv
  <1>6. CASE part = "firmware"
    <2>1. FirmwareInv'
      BY <1>6, DevicesGoOn, FirmwareStep, Zenon DEF DevicesInv
    <2> QED BY <1>1, <1>6, <2>1 DEF DevicesInv
  <1>7. CASE part = "stream"
    <2>1. StreamInv'
      BY <1>7, DevicesGoOn, StreamStep, Zenon DEF DevicesInv
    <2> QED BY <1>1, <1>7, <2>1 DEF DevicesInv
  <1>8. CASE part = "power41"
    <2>1. AmpInv'
      BY <1>8, DevicesGoOn, AmpStep, Zenon DEF DevicesInv
    <2> QED BY <1>1, <1>8, <2>1 DEF DevicesInv
  <1>9. CASE part = "controls41"
    <2>1. ControlsInv'
      BY <1>9, DevicesAssumption, DevicesGoOn, ControlsStep, Zenon DEF DevicesInv
    <2> QED BY <1>1, <1>9, <2>1 DEF DevicesInv
  <1>10. part \in {"drv2624", "metrics", "power45", "volume45", "firmware", "stream", "power41",
                   "controls41"}
    BY DevicesAssumption, Zenon DEF DevicesInv, DevicesAssumption
  <1> QED BY <1>2, <1>3, <1>4, <1>5, <1>6, <1>7, <1>8, <1>9, <1>10

LEMMA DevicesAlways == Spec => []DevicesInv
  <1>1. Init => DevicesInv
    BY DevicesStart
  <1>2. DevicesInv /\ [Next]_vars => DevicesInv'
    BY DevicesKeep
  <1> QED BY <1>1, <1>2, PTL DEF Spec

(* The state of each of the eight components keeps its types, however many threads, fragments,
   volumes and references there are. *)
THEOREM TypeCorrect == Spec => []TypeOK
  <1>1. DevicesInv => TypeOK
    <2> SUFFICES ASSUME DevicesInv PROVE TypeOK
      OBVIOUS
    <2>1. /\ part = "drv2624" => Haptics!TypeOK
          /\ part = "metrics" => Metrics!TypeOK
          /\ part = "power45" => Power!TypeOK
          /\ part = "volume45" => Volume!TypeOK
          /\ part = "firmware" => Firmware!TypeOK
          /\ part = "stream" => Stream!TypeOK
          /\ part = "power41" => Amp!TypeOK
          /\ part = "controls41" => Controls!TypeOK
      BY HapticsSafe, MetricsSafe, PowerSafe, StreamSafe, AmpSafe, Zenon DEF DevicesInv, FirmwareInv,
         ControlsInv
    <2>2. part \in Parts
      BY Zenon DEF DevicesInv
    <2>3. part \in {"drv2624", "metrics", "power45", "volume45", "firmware", "stream", "power41",
                    "controls41"}
      BY <2>2, DevicesAssumption, Zenon DEF DevicesAssumption
    <2> QED BY <2>1, <2>2, <2>3 DEF TypeOK
  <1> QED BY <1>1, DevicesAlways, PTL

(* drv2624.c: the motor runs under the wake lock alone, and what attributes set reaches the
   chip whatever resets come between. *)
THEOREM HapticsSound == Spec => []AwakeAndKept
  <1>1. DevicesInv => AwakeAndKept
    BY HapticsSafe, Zenon DEF DevicesInv, AwakeAndKept
  <1> QED BY <1>1, DevicesAlways, PTL

(* audiometrics: whatever threads add and however uploads race reads, no count is reported twice
   or lost, and an effect's id is told with its own seconds. *)
THEOREM MetricsReported == Spec => []Reported
  <1>1. DevicesInv => Reported
    BY MetricsSafe, Zenon DEF DevicesInv, Reported
  <1> QED BY <1>1, DevicesAlways, PTL

(* cs35l45.c: works, late answers, hibernation and failed wake-ups leave the DSP running when a
   stream goes through it, the chip awake when it is used, and saved settings in force. *)
THEOREM DspFollowed == Spec => []DspKept
  <1>1. DevicesInv => DspKept
    BY PowerSafe, Zenon DEF DevicesInv, DspKept
  <1> QED BY <1>1, DevicesAlways, PTL

(* cs35l45.c: for all volumes, attenuations and times, what is heard is never louder than what
   was asked for, and the amplifier's mode is changed while it is off. *)
THEOREM VolumeHeldDown == Spec => []VolumeSafe
  <1>1. DevicesInv => VolumeSafe
    BY VolumeHeld, Zenon DEF DevicesInv, VolumeSafe
  <1> QED BY <1>1, DevicesAlways, PTL

(* snd_soc_wm_adsp/wm_adsp.c: for rings of two regions of any size, any fragments and any
   number of words, a reader gets each word of the DSP once and in order, over polls,
   interrupts, stops and restarts of stream and DSP. *)
THEOREM StreamRead == Spec => []StreamInOrder
  <1>1. DevicesInv => StreamInOrder
    BY StreamSafe, Zenon DEF DevicesInv, StreamInOrder
  <1> QED BY <1>1, DevicesAlways, PTL

(* cs35l41.c: hibernation, resets, stores and the work between them leave the chip awake while
   it plays, its registers as stored, its firmware running and its interrupt balanced. *)
THEOREM AmpKeptSound == Spec => []AmpSound
  <1>1. DevicesInv => AmpSound
    BY AmpSafe, Zenon DEF DevicesInv, AmpSound
  <1> QED BY <1>1, DevicesAlways, PTL

(* cs_dsp.c and wm_adsp.c: for all values, without failures and races, controls keep what was
   stored over loads, starts and stops, and none is written to a firmware that lacks it. *)
THEOREM ControlsHeld == Spec => []ControlsKept
  <1>1. DevicesInv => ControlsKept
    BY FirmwareSafe, ControlsSafe, Zenon DEF DevicesInv, ControlsKept
  <1> QED BY <1>1, DevicesAlways, PTL
================================================================================
