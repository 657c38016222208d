------------------------------ MODULE Cs35l41Power ------------------------------
(***************************************************************************)
(* The CS35L41 between standby and playback: streams, the firmware that is *)
(* preloaded and resumed, hibernation by a delayed work, and resets of the *)
(* chip.  (cs35l41.c, the events of snd_soc_wm_adsp/wm_adsp.c)             *)
(*                                                                         *)
(* One stream; the register followed is chosen by "setting".  DAPM brings  *)
(* widgets up and down one event at a time, between which controls and the *)
(* work run.                                                               *)
(***************************************************************************)
EXTENDS Integers

CONSTANTS
    Setups,             \* "sound"; "faulty": loads, wake-ups and resets fail; "race": the work
                        \* is overtaken
    RaceSettings,       \* what is stored in "race"
    MaxDisabled         \* a bound: what disabled the interrupt for good happens no more

VARIABLES
    setup,
    setting,            \* what is stored: see Settings
    stream,             \* "closed", "opened", "awake", "booted", "loaded", "playing", "pausing",
                        \* "down", "unloaded"
    path,               \* PCM Source: "ASP" or "DSP"
    preloaded,          \* pin "DSP1 Preload"
    booted, running,    \* struct wm_adsp
    halo_booted, enabled, reload_tuning, gpi_global_en,
    amp_hibernate, hibernate_force_wake,
    hb_work,            \* "idle", "queued", or "started": about to take hb_lock
    irq_depth, force_int,
    cache_only, kept,   \* regmap: the value cached for the register
    stored,             \* reset_cache, extclk_cfg, pdata: the value remembered for it
    chip, fw, asleep,   \* chip: the register, the firmware's state, hibernation
    mbox_8,             \* chip: whether a pin may enable the amplifier
    wanted,             \* what was last stored in the register
    storing,            \* what has released hb_lock and has still to store amp_hibernate: events
                        \* of the "stream", the "pin" or a "reset", the "switch"
    forgotten           \* history: what was stored then replaced a hibernation

vars == <<setup, setting, stream, path, preloaded, booted, running, halo_booted, enabled,
          reload_tuning, gpi_global_en, amp_hibernate, hibernate_force_wake, hb_work, irq_depth,
          force_int, cache_only, kept, stored, chip, fw, asleep, mbox_8, wanted, storing,
          forgotten>>

(* Registers: of cs35l41_ctl_cache_regs; the format, rate and clock, which are remembered; of
   the platform data (the boost's current); and the rest.  The pin that enables; the tuning to
   reload; the forced interrupt. *)
Settings == {"ctl", "format", "rate", "clock", "pdata", "other", "pin", "tuning", "force_int"}
Values == {"reset", "a", "b"}

PowerAssumption ==
    /\ Setups \subseteq {"sound", "faulty", "race"}
    /\ RaceSettings \subseteq Settings /\ MaxDisabled \in Nat

States == {"AWAKE", "STANDBY", "NOT_LOADED", "INCOMPATIBLE"}

Fixed == <<setup, setting>>
Switches == <<reload_tuning, gpi_global_en, hibernate_force_wake, force_int>>
Dsp == <<booted, running, halo_booted, fw>>
Bus == <<amp_hibernate, irq_depth, cache_only, kept, chip, asleep>>
Lock == <<storing, forgotten>>

(* Records that a handler which does more leaves alone. *)
Rest == <<Fixed, stream, path, preloaded, enabled, Switches, stored, mbox_8, wanted>>

TypeOK ==
    /\ setup \in Setups /\ setting \in Settings /\ path \in {"ASP", "DSP"}
    /\ stream \in {"closed", "opened", "awake", "booted", "loaded", "playing", "pausing", "down",
                  "unloaded"}
    /\ {preloaded, booted, running, halo_booted, enabled, reload_tuning, gpi_global_en,
        hibernate_force_wake, force_int, cache_only, asleep, mbox_8} \subseteq BOOLEAN
    /\ amp_hibernate \in States /\ hb_work \in {"idle", "queued", "started"}
    /\ irq_depth \in Nat /\ {kept, stored, chip, wanted} \subseteq Values
    /\ fw \in {"off", "running", "paused", "rdy"}
    /\ storing \subseteq {"stream", "pin", "reset", "switch"} /\ forgotten \in BOOLEAN

(* cs35l41_probe of a chip that can hibernate: nothing is loaded, and the chip is not to
   sleep. *)
Probed ==
    /\ amp_hibernate = "NOT_LOADED" /\ hibernate_force_wake = TRUE /\ hb_work = "idle"
    /\ fw = "off" /\ asleep = FALSE /\ mbox_8 = FALSE /\ storing = {} /\ forgotten = FALSE

(* Of a chip that fails no register is followed. *)
Init ==
    /\ setup \in Setups /\ setting \in Settings
    /\ (setup = "faulty" => setting = "tuning") /\ (setup = "race" => setting \in RaceSettings)
    /\ stream = "closed" /\ path = "ASP" /\ preloaded = FALSE /\ booted = FALSE
    /\ running = FALSE /\ halo_booted = FALSE /\ enabled = FALSE
    /\ reload_tuning = FALSE /\ gpi_global_en = FALSE
    /\ irq_depth = 0 /\ force_int = FALSE /\ cache_only = FALSE
    /\ LET v == IF setting = "pdata" THEN "a" ELSE "reset"
       IN  kept = v /\ stored = v /\ chip = v /\ wanted = v
    /\ Probed

--------------------------------------------------------------------------------
(* cs35l41_set_pdata *)
SetPdata(v) == IF setting = "pdata" THEN stored ELSE v

(* cs35l41_restore: what the driver remembers is written, if there is something. *)
Restore(v) ==
    IF setting \in {"format", "rate", "clock"} /\ stored # "reset" THEN stored ELSE SetPdata(v)

(* MUTANT of CtlCache: the controls are written before the cache is dropped only. *)
CtlCacheNone == "reset"

(* cs35l41_exit_hibernate: controls are read before the cache is dropped, and written
   after. *)
CtlCache == IF setting = "ctl" THEN kept ELSE "reset"

(* A chip that does not wake up is taken for one that did. *)
Woken ==
    /\ cache_only' = FALSE /\ irq_depth' = irq_depth - 1
    /\ \/ asleep' = FALSE /\ chip' = Restore(CtlCache) /\ kept' = Restore(CtlCache)
       \/ setup = "faulty" /\ UNCHANGED <<asleep, chip, kept>>

ExitHibernate ==
    IF amp_hibernate = "STANDBY" THEN amp_hibernate' = "AWAKE" /\ Woken ELSE UNCHANGED Bus

(* MUTANT of CancelWork: the work stays queued. *)
CancelWorkNot == hb_work' = hb_work

(* cancel_delayed_work: a work that has begun goes on. *)
CancelWork == hb_work' = IF hb_work = "queued" THEN "idle" ELSE hb_work

(* cs35l41_hibernate_work, when its time has come *)
WorkStarts ==
    /\ setup = "race" /\ hb_work = "queued" /\ hb_work' = "started"
    /\ UNCHANGED <<Rest, Dsp, Bus, Lock>>

(* cs35l41_enter_hibernate, under hb_lock: a firmware that runs puts the chip to sleep,
   which loses its registers. *)
EnterHibernate ==
    /\ forgotten => irq_depth < MaxDisabled
    /\ hb_work = (IF setup = "race" THEN "started" ELSE "queued") /\ hb_work' = "idle"
    /\ IF amp_hibernate = "STANDBY"
       THEN UNCHANGED Bus
       ELSE /\ amp_hibernate' = "STANDBY" /\ cache_only' = TRUE /\ irq_depth' = irq_depth + 1
            /\ asleep' = (fw # "off") /\ chip' = IF fw # "off" THEN "reset" ELSE chip
            /\ UNCHANGED kept
    /\ UNCHANGED <<Rest, Dsp, Lock>>

--------------------------------------------------------------------------------
(* wm_adsp_boot_work, which is waited for.  Nothing is loaded into a chip that sleeps. *)
BootWork ==
    \/ ~cache_only /\ booted' = TRUE /\ fw' = "off" /\ UNCHANGED running
    \/ ~cache_only /\ setup = "faulty" /\ fw' = "off" /\ UNCHANGED <<booted, running>>
    \/ cache_only /\ UNCHANGED <<booted, running, fw>>

(* cs35l41_dsp_power_ev, PRE_PMU *)
PowerEvPmu ==
    IF halo_booted THEN booted' = TRUE /\ UNCHANGED <<running, fw>> ELSE BootWork

(* What unloading makes of amp_hibernate. *)
NotLoaded(state) == IF state = "INCOMPATIBLE" THEN "INCOMPATIBLE" ELSE "NOT_LOADED"

(* PRE_PMD of what is named: the chip is woken, then amp_hibernate is set and, with
   wm_adsp_early_event and wm_adsp_event, the firmware unloaded.  This is two steps where the
   work may come in between. *)
PowerEvPmd(of) ==
    IF halo_booted
    THEN UNCHANGED <<booted, running, fw, Bus, hb_work, Lock>>
    ELSE /\ CancelWork /\ UNCHANGED forgotten
         /\ IF setup = "race"
            THEN ExitHibernate /\ storing' = storing \cup {of} /\ UNCHANGED <<booted, running, fw>>
            ELSE /\ booted' = FALSE /\ running' = FALSE /\ fw' = "off" /\ UNCHANGED storing
                 /\ amp_hibernate' = NotLoaded(amp_hibernate)
                 /\ IF amp_hibernate = "STANDBY"
                    THEN Woken
                    ELSE UNCHANGED <<irq_depth, cache_only, kept, chip, asleep>>

(* hb_lock is released: a hibernation begun since is forgotten, and nothing will end it. *)
Stored(of, state) ==
    /\ of \in storing /\ storing' = storing \ {of}
    /\ amp_hibernate' = state /\ forgotten' = (forgotten \/ amp_hibernate = "STANDBY")
    /\ UNCHANGED <<Rest, hb_work, irq_depth, cache_only, kept, chip, asleep>>

(* A reset loads the firmware again. *)
PowerEvStores ==
    /\ \/ Stored("stream", NotLoaded(amp_hibernate)) /\ booted' = FALSE
       \/ Stored("pin", NotLoaded(amp_hibernate)) /\ booted' = FALSE
       \/ Stored("reset", NotLoaded(amp_hibernate)) /\ booted' = ~cache_only
    /\ running' = FALSE /\ fw' = (IF cache_only THEN fw ELSE "off")
    /\ UNCHANGED halo_booted

(* cs35l41_set_cspl_mbox_cmd: what the firmware does with a command, in the time it is given *)
SetCsplMboxCmd(state, cmd) ==
    CASE cache_only \/ state = "off" -> state
      [] cmd = "STOP_PRE_REINIT" /\ state = "running" -> "rdy"
      [] cmd = "PAUSE" /\ state = "running" -> "paused"
      [] cmd = "RESUME" /\ state \in {"paused", "running"} -> "running"
      [] cmd = "REINIT" /\ state = "rdy" -> "running"
      [] OTHER -> state

(* What a status is answered with *)
Resuming(state) == IF state = "rdy" THEN "REINIT" ELSE "RESUME"

(* cs35l41_dsp_load_ev: wm_adsp_event starts what was booted, and halo_booted is set though
   nothing was.  A firmware that answers is told to resume. *)
DspLoadEv ==
    /\ halo_booted' = TRUE /\ enabled' = TRUE
    /\ \/ ~halo_booted /\ booted /\ running' = TRUE /\ fw' = "running"
       \/ /\ halo_booted \/ ~booted \/ setup = "faulty"
          /\ UNCHANGED running
          /\ fw' = IF running THEN SetCsplMboxCmd(fw, Resuming(fw)) ELSE fw

--------------------------------------------------------------------------------
(* A stream opens: cs35l41_pcm_startup wakes the chip. *)
PcmStartup ==
    /\ stream = "closed" /\ stream' = "opened" /\ path' \in {"ASP", "DSP"}
    /\ CancelWork /\ ExitHibernate
    /\ UNCHANGED <<Fixed, preloaded, Dsp, enabled, Switches, stored, mbox_8, wanted, Lock>>

(* What the handlers below remember, and write unless the chip hibernates. *)
Remember(v) ==
    /\ stored' = v /\ wanted' = v
    /\ IF amp_hibernate = "STANDBY"
       THEN UNCHANGED <<kept, chip>>
       ELSE kept' = v /\ chip' = IF cache_only THEN chip ELSE v
    /\ UNCHANGED <<Fixed, stream, path, preloaded, Dsp, enabled, Switches, hb_work, mbox_8,
                   amp_hibernate, irq_depth, cache_only, asleep, Lock>>

SetDaiFmt == stream = "opened" /\ setting = "format" /\ \E v \in {"a", "b"} : Remember(v)

PcmHwParams == stream = "opened" /\ setting = "rate" /\ \E v \in {"a", "b"} : Remember(v)

(* cs35l41_component_set_sysclk *)
SetSysclk == stream = "opened" /\ setting = "clock" /\ \E v \in {"a", "b"} : Remember(v)

(* cs35l41_hibernate, PRE_PMU *)
HibernatePmu ==
    /\ stream = "opened" /\ stream' = "awake"
    /\ IF running /\ amp_hibernate # "INCOMPATIBLE"
       THEN CancelWork /\ ExitHibernate
       ELSE UNCHANGED <<hb_work, Bus>>
    /\ UNCHANGED <<Fixed, path, preloaded, Dsp, enabled, Switches, stored, mbox_8, wanted, Lock>>

(* "DSP1 Preloader", when the stream is what powers it *)
StreamPreloads ==
    /\ stream = "awake" /\ stream' = "booted"
    /\ IF path = "DSP" /\ ~preloaded THEN PowerEvPmu ELSE UNCHANGED <<booted, running, fw>>
    /\ UNCHANGED <<Fixed, path, preloaded, halo_booted, enabled, Switches, Bus, hb_work, stored,
                   mbox_8, wanted, Lock>>

(* "DSP1" *)
StreamLoads ==
    /\ stream = "booted" /\ stream' = "loaded"
    /\ IF path = "DSP" THEN DspLoadEv ELSE UNCHANGED <<running, halo_booted, fw, enabled>>
    /\ UNCHANGED <<Fixed, path, preloaded, booted, Switches, Bus, hb_work, stored, mbox_8,
                   wanted, Lock>>

(* cs35l41_main_amp_event, POST_PMU: GLOBAL_EN is set. *)
MainAmpPmu ==
    /\ stream = "loaded" /\ stream' = "playing"
    /\ mbox_8' = IF halo_booted /\ ~cache_only THEN gpi_global_en ELSE mbox_8
    /\ UNCHANGED <<Fixed, path, preloaded, Dsp, enabled, Switches, Bus, hb_work, stored,
                   wanted, Lock>>

(* POST_PMD: the firmware is paused, or readied to take new tuning; GLOBAL_EN is cleared. *)
MainAmpPmd ==
    /\ stream = "playing" /\ stream' = "pausing"
    /\ IF running
       THEN /\ reload_tuning' = FALSE
            /\ mbox_8' = IF cache_only THEN mbox_8 ELSE FALSE
            /\ fw' = SetCsplMboxCmd(fw, IF reload_tuning THEN "STOP_PRE_REINIT" ELSE "PAUSE")
       ELSE UNCHANGED <<reload_tuning, mbox_8, fw>>
    /\ UNCHANGED <<Fixed, path, preloaded, booted, running, halo_booted, enabled, gpi_global_en,
                   hibernate_force_wake, force_int, Bus, hb_work, stored, wanted, Lock>>

(* The wait for the power down ends. *)
MainAmpDown ==
    /\ stream = "pausing" /\ stream' = "down" /\ enabled' = FALSE
    /\ UNCHANGED <<Fixed, path, preloaded, Dsp, Switches, Bus, hb_work, stored, mbox_8,
                   wanted, Lock>>

(* "DSP1 Preloader" again, *)
StreamUnloads ==
    /\ stream = "down" /\ stream' = "unloaded"
    /\ IF path = "DSP" /\ ~preloaded THEN PowerEvPmd("stream")
       ELSE UNCHANGED <<booted, running, fw, Bus, hb_work, Lock>>
    /\ UNCHANGED <<Fixed, path, preloaded, halo_booted, enabled, Switches, stored, mbox_8, wanted>>

(* and cs35l41_hibernate, POST_PMD *)
HibernatePmd ==
    /\ stream = "unloaded" /\ stream' = "closed" /\ path' = "ASP"
    /\ hb_work' = IF /\ running /\ amp_hibernate # "INCOMPATIBLE" /\ ~hibernate_force_wake
                     /\ hb_work = "idle"
                  THEN "queued" ELSE hb_work
    /\ UNCHANGED <<Fixed, preloaded, Dsp, enabled, Switches, Bus, stored, mbox_8, wanted, Lock>>

--------------------------------------------------------------------------------
(* What DAPM holds back while it brings widgets up or down *)
Settled == stream \in {"closed", "opened", "playing"}

(* wm_adsp2_preloader_put: the pin powers "DSP1 Preloader" unless a stream does. *)
PreloaderPut ==
    /\ Settled /\ preloaded' = ~preloaded
    /\ IF stream = "playing" /\ path = "DSP"
       THEN UNCHANGED <<booted, running, fw, Bus, hb_work, Lock>>
       ELSE IF preloaded
            THEN PowerEvPmd("pin")
            ELSE PowerEvPmu /\ UNCHANGED <<Bus, hb_work, Lock>>
    /\ UNCHANGED <<Fixed, stream, path, halo_booted, enabled, Switches, stored, mbox_8, wanted>>

(* cs35l41_halo_booted_put: 0 has the firmware loaded again. *)
HaloBootedPut ==
    /\ halo_booted' = FALSE
    /\ UNCHANGED <<Rest, booted, running, fw, Bus, hb_work, Lock>>

(* cs35l41_hibernate_switch_put: 1 is stored as it is, and what it replaces is forgotten. *)
HibernateSwitchOn ==
    /\ amp_hibernate = "STANDBY" => setup = "race"
    /\ amp_hibernate' = "NOT_LOADED" /\ forgotten' = (forgotten \/ amp_hibernate = "STANDBY")
    /\ UNCHANGED <<Rest, Dsp, hb_work, irq_depth, cache_only, kept, chip, asleep, storing>>

(* 0 wakes the chip, *)
HibernateSwitchPut ==
    /\ CancelWork
    /\ IF setup = "race"
       THEN ExitHibernate /\ storing' = storing \cup {"switch"}
       ELSE /\ amp_hibernate' = "INCOMPATIBLE" /\ UNCHANGED storing
            /\ IF amp_hibernate = "STANDBY"
               THEN Woken
               ELSE UNCHANGED <<irq_depth, cache_only, kept, chip, asleep>>
    /\ UNCHANGED <<Rest, Dsp, forgotten>>

(* and is stored. *)
SwitchStores == Stored("switch", "INCOMPATIBLE") /\ UNCHANGED Dsp

(* cs35l41_hibernate_force_wake_put.  GLOBAL_EN is read to tell whether the amplifier is in
   use, which a stream about to play is not yet. *)
ForceWakePut ==
    /\ hibernate_force_wake /\ stream \in {"awake", "booted", "loaded"} => setup = "race"
    /\ CASE amp_hibernate = "AWAKE" \/ (amp_hibernate = "NOT_LOADED" /\ running) ->
              /\ hibernate_force_wake' = ~hibernate_force_wake
              /\ hb_work' = IF hibernate_force_wake /\ stream # "playing" /\ hb_work = "idle"
                            THEN "queued" ELSE hb_work
              /\ UNCHANGED Bus
         [] amp_hibernate = "STANDBY" ->
              /\ hibernate_force_wake' = ~hibernate_force_wake
              /\ IF hibernate_force_wake
                 THEN UNCHANGED <<hb_work, Bus>>
                 ELSE CancelWork /\ ExitHibernate
         [] OTHER -> UNCHANGED <<hibernate_force_wake, hb_work, Bus>>
    /\ UNCHANGED <<Fixed, stream, path, preloaded, Dsp, enabled, reload_tuning, gpi_global_en,
                   force_int, stored, mbox_8, wanted, Lock>>

(* A register is written, or its cache. *)
Write(v) ==
    /\ kept' = v /\ wanted' = v /\ chip' = IF cache_only THEN chip ELSE v
    /\ UNCHANGED <<Fixed, stream, path, preloaded, Dsp, enabled, Switches, hb_work, mbox_8,
                   amp_hibernate, irq_depth, cache_only, asleep, Lock>>

(* cs35l41_aud_controls *)
ControlPut ==
    setting \in {"ctl", "other"} /\ \E v \in {"a", "b"} : Write(v) /\ UNCHANGED stored

(* cs35l41_bp_current_limit_put *)
BpCurrentLimitPut == setting = "pdata" /\ \E v \in {"a", "b"} : Write(v) /\ stored' = v

(* cs35l41_default_96k_put *)
Default96kPut == setting = "rate" /\ \E v \in {"a", "b"} : Write(v) /\ stored' = v

(* cs35l41_force_int_put *)
ForceIntPut ==
    /\ setting = "force_int" /\ force_int' = ~force_int
    /\ irq_depth' = irq_depth + (IF force_int THEN -1 ELSE 1)
    /\ UNCHANGED <<Fixed, stream, path, preloaded, Dsp, enabled, reload_tuning, gpi_global_en,
                   hibernate_force_wake, hb_work, amp_hibernate, cache_only, kept, stored, chip,
                   asleep, mbox_8, wanted, Lock>>

(* cs35l41_reload_tuning_put *)
ReloadTuningPut ==
    /\ setting = "tuning" /\ reload_tuning' = ~reload_tuning
    /\ UNCHANGED <<Fixed, stream, path, preloaded, Dsp, enabled, gpi_global_en,
                   hibernate_force_wake, force_int, Bus, hb_work, stored, mbox_8, wanted, Lock>>

(* cs35l41_gpi_global_en_put: the register is written while a firmware's stream is up. *)
GpiGlobalEnPut ==
    /\ setting = "pin" /\ (stream = "pausing" => setup = "race")
    /\ gpi_global_en' = ~gpi_global_en
    /\ mbox_8' = IF halo_booted /\ enabled /\ ~cache_only THEN ~gpi_global_en ELSE mbox_8
    /\ UNCHANGED <<Fixed, stream, path, preloaded, Dsp, enabled, reload_tuning,
                   hibernate_force_wake, force_int, Bus, hb_work, stored, wanted, Lock>>

(* regcache_sync, cs35l41_restore *)
ResetBus ==
    /\ asleep' = FALSE /\ cache_only' = FALSE
    /\ chip' = Restore(kept) /\ kept' = Restore(kept)

(* "DSP1 Preload" off and on: cs35l41_dsp_power_ev, twice.  Leaving hibernation writes the
   controls and what is remembered. *)
Reloaded ==
    /\ CancelWork /\ fw' = "off" /\ UNCHANGED forgotten
    /\ irq_depth' = IF amp_hibernate = "STANDBY" THEN irq_depth - 1 ELSE irq_depth
    /\ IF setup = "race"
       THEN /\ amp_hibernate' = IF amp_hibernate = "STANDBY" THEN "AWAKE" ELSE amp_hibernate
            /\ storing' = storing \cup {"reset"} /\ UNCHANGED <<booted, running>>
       ELSE /\ amp_hibernate' = NotLoaded(amp_hibernate) /\ UNCHANGED storing
            /\ running' = FALSE
            /\ booted' = TRUE \/ (setup = "faulty" /\ booted' = FALSE)

(* cs35l41_amp_reset_put: the whole cache is written to a chip that was reset, which is one
   step.  One that does not boot is given up with its interrupt disabled. *)
AmpResetPut ==
    /\ stream = "closed"
    /\ halo_booted' = FALSE /\ mbox_8' = FALSE
    /\ \/ /\ setup = "faulty" /\ irq_depth <= MaxDisabled /\ irq_depth' = irq_depth + 1
          /\ fw' = "off" /\ chip' = "reset" /\ asleep' = FALSE /\ cache_only' = FALSE
          /\ UNCHANGED <<booted, running, amp_hibernate, kept, hb_work, Lock>>
       \/ /\ ~preloaded /\ ResetBus /\ fw' = "off"
          /\ UNCHANGED <<booted, running, hb_work, amp_hibernate, irq_depth, Lock>>
       \/ preloaded /\ ResetBus /\ Reloaded
    /\ UNCHANGED <<Fixed, stream, path, preloaded, enabled, Switches, stored, wanted>>

(* DAPM's events come one after another, as do controls. *)
DapmFree == storing \subseteq {"switch"}
ControlsFree == storing \subseteq {"stream"}

Next ==
    \/ WorkStarts \/ EnterHibernate \/ PowerEvStores \/ SwitchStores
    \/ PcmStartup \/ SetDaiFmt \/ PcmHwParams \/ SetSysclk
    \/ /\ DapmFree
       /\ \/ HibernatePmu \/ StreamPreloads \/ StreamLoads \/ MainAmpPmu
          \/ MainAmpPmd \/ MainAmpDown \/ StreamUnloads \/ HibernatePmd
    \/ /\ ControlsFree
       /\ \/ PreloaderPut \/ HaloBootedPut \/ HibernateSwitchOn \/ HibernateSwitchPut
          \/ ForceWakePut \/ ControlPut \/ BpCurrentLimitPut \/ Default96kPut
          \/ ForceIntPut \/ ReloadTuningPut \/ GpiGlobalEnPut \/ AmpResetPut

Spec == Init /\ [][Next]_vars

--------------------------------------------------------------------------------
(* A chip that plays is awake, as far as the driver knows even when it failed to wake up. *)
AwakeWhilePlaying ==
    stream = "playing" /\ setup # "race" =>
        /\ amp_hibernate # "STANDBY" /\ ~cache_only
        /\ setup = "sound" => ~asleep

(* Hibernation and resets lose no control of the table, format or platform data. *)
RegistersKept ==
    ~cache_only /\ setup \in {"sound", "race"} /\ setting # "other" => chip = wanted

(* The firmware runs when a stream goes through it, and when none plays it does not. *)
FirmwareFollows ==
    setup = "sound" =>
        /\ stream = "playing" /\ path = "DSP" => fw = "running"
        /\ stream = "closed" => fw # "running"

(* A pin may enable the amplifier as was asked for while the firmware's stream plays, and
   not after. *)
PinHeld ==
    setup = "sound" =>
        /\ stream = "playing" /\ enabled /\ halo_booted => mbox_8 = gpi_global_en
        /\ stream = "closed" /\ fw # "off" => ~mbox_8

(* The interrupt is disabled once by hibernation and once by a forced one: never less, and no
   more unless a hibernation was forgotten. *)
IrqBalanced ==
    setup \in {"sound", "race"} =>
        LET due == (IF force_int THEN 1 ELSE 0) + (IF amp_hibernate = "STANDBY" THEN 1 ELSE 0)
        IN  due <= irq_depth /\ (~forgotten => irq_depth = due)

AmpSound ==
    AwakeWhilePlaying /\ RegistersKept /\ FirmwareFollows /\ PinHeld /\ IrqBalanced
================================================================================
