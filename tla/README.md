# Amplifier drivers: a verification project

TLA+ models of the haptic and audio amplifier drivers of this repository: what
they keep, what they promise, and how they get along with firmware that runs
beside them and answers in its own time. TLC checks the models on small
instances; TLAPS proves the most important results for every instance. Paths
below are relative to `src/`.

Contents: 1 the system and its parts; 2 modules and how they correspond to the
code; 3 runs, bounds and fairness; 4 proofs; 5 what is not covered, and
departures that were seen; 6 plan.

## 1. The system and its parts

Six families of Linux kernel drivers share a shape. Each owns a chip behind
I2C or SPI; most chips hold a DSP that runs loadable firmware. The driver talks
to it through registers and a mailbox; the DSP answers by interrupts and a queue
of messages. Around the driver are the kernel's input core (effects are
uploaded, played, erased), sysfs, ALSA (streams and controls), runtime power
management, ordered work queues, and a threaded interrupt handler. What is hard
is the same everywhere: the driver infers what the DSP does from messages that
are already old, holds no lock across a wait, and must survive failed accesses,
resets and firmware reloads without losing count.

### CS40L26 haptic driver (`cs40l26/`)

| part | state | operations | correct when |
|---|---|---|---|
| effect store (`cs40l26.c`) | `effect_head`, `cs40l26_buzzgen_configs`, GPI event map, the DSP's wavetable | `upload_effect`, `erase_effect`, their works, `custom_owt`, `sine_upload`, `erase_owt`, `erase_buzzgen` | an effect is heard as it was last uploaded, others are untouched; no slot is shared or lost |
| playback (`cs40l26.c`) | `trigger_effect`, `cur_index`, `effects_in_flight`, `vibe_state`, `erase_cont`, `vibe_workqueue` | `playback_effect`, `vibe_start_worker`, `vibe_stop_worker`, `erase_worker`, `vibe_state_update` | the count follows the DSP; nothing that plays is erased; an erase returns |
| mailbox queue (`cs40l26.c`) | read and write pointer, status | `mbox_buffer_read`, `handle_mbox_buffer` | each message dispatched once, in order, all of them |
| streaming (`cs40l26-codec.c`) | `asp_enable`, PLL, `gain_pct`/`gain_tmp`, `i2s_cont` | `clk_en`, `asp_rx`, `asp_start`, `set_gain`, `remove_asp_scaling` | PLL and gain are restored, a stream returns after an effect |
| recovery (`cs40l26.c`) | `reset_event`, `reset_count`, `fw_loaded`, IRQ depth | `make_reset_decision`, `reset_worker`, `fw_swap`, `reset_store` | resets are limited, end, and restore the line and the count |
| power management (`cs40l26.c`) | `pm_state`, `allow_hibernate_sent` | `suspend`, `resume`, `pm_state_transition` | a chip in use does not hibernate |
| write sequence (`cs40l26.c`) | `wseq_params`, the chip's list | `wseq_init`, `wseq_write`, `wseq_clear` | the chip replays what was asked, and ends |
| calibration (`cs40l26-sysfs.c`) | four completions | `trigger_calibration_store`, the DONE messages | a request is told of its own measurement |
| configuration (`cs40l26.c`) | registers and DSP words, the driver's copies of write sequences | probe, remove, `fw_upload`, `fw_swap`, `dsp_config`, `reset_worker`, `wt_swap` | what the device tree and user space asked for is in force after every load, swap, reset and hibernation |
| attributes (`cs40l26-sysfs.c`, `-debugfs.c`) | words of the DSP, `f0_comp_enable` and other copies | store functions that write or select a word | what was stored is in force, and what is shown is what the DSP has |
| buses, tables | - | - | - |
| DSP library (`cl_dsp.c`) | chunk, coefficient and wavetable files | `memchunk_*`, file parsing | fields read back as written |

The input core serialises upload and erase by its mutex and waits
(`flush_work`) for a work item on the driver's ordered work queue; the work
takes the driver's lock; the interrupt thread takes the same lock to drain the
mailbox queue; the erase gives that lock up while it waits for a completion the
thread will set. The codec calls into the same state and takes the lock only in
places. A reset runs on the same work queue and cancels other work; sysfs can
swap firmware at the same time without being on it.

### CS40L25/L20 haptic driver (`cs40l25/`)

| part | state | operations | correct when |
|---|---|---|---|
| playback (`cs40l2x.c`, codec) | `vibe_state`, the suspend blocker, `cp_trigger_index` (to play), `cp_trailer_index` (playing), `pbq_state`, `diag_state`, two timers, `vibe_workqueue` | start, stop, mode and PBQ worker, `irq`, timers, `reset_recovery`, `cp_trigger_index_store` | the blocker follows the state; the amplifier is not clamped while it drives; ends are noticed; gains are put back |
| playback queue | `pbq_comp`, `pbq_index`, loop mark and counters | `cp_trigger_queue_store`, `comp_finalise_section`, `pbq_pair_launch` | what is played is what was written |
| attributes, swap, recovery | `dsp_cache`, `wseq_table`, `fw_desc`, `fw_id_remap`, compensation states, `hw_err_count`, the table of resonances | ~100 store functions, `fw_swap_store`, `hw_reset_store`, `firmware_swap`, `reset_recovery` | what user space set outlives them |
| waveforms of user space | the list of virtual waveforms, three slots of the open wavetable, `loaded_*_index` | `save_waveform`, `delete_waveform`, `overwrite`, `write_virtual_waveform`, `add_wt_slots` | an index plays what was saved under it |
| configuration | registers, `wseq_table`, the chip's table of it, words, coefficient files | probe, `firmware_load`, `coeff_file_load`, `dsp_pre_config`, `dsp_start`, `dsp_post_config`, `suspend`, `resume` | what the device tree asked for is in force, in whatever order files come |
| PWLE strings, input core's effects | text and registers | a parse, or as playback | - |

One mutex, `lock`, covers each of them entirely, also over register accesses and
sleeps, so that concurrency is between the order in which works, timers and
interrupts come to it and a DSP that goes on meanwhile: a worker reads by STATUS
what plays now, and was queued for what ended before.

### The other families

| part | state and operations | hard |
|---|---|---|
| CS35L41 (`cs35l41/`) | main amplifier's power sequence, hibernation by a delayed work, resets, the CSPL mailbox | hibernation racing a stream; registers that come back from four places |
| CS35L45 (`cs35l45/`) | DSP power by two works, hibernation, mailbox, volume ramps, amplifier mode | which of two works wins; a ramp of timed steps beside stores |
| `cs_dsp.c`, two `wm_adsp.c` | firmware, algorithms and controls with caches; compressed-stream host buffer | cached values across power cycles; ring-buffer indices from the DSP, interrupts that must be armed again |
| TAS25xx (`tas25xx/`) | logical layer (state per channel and stream), register-binary parser; the smart-amp algorithm interface: calibration and validation works, stored calibration, statistics | interrupt work, power-up of two channels, a reset in the middle of a stream; works of seconds beside stores, shows and streams without a lock |
| TAS256x (`tas256x/`) | logical, physical and OS layer, algorithm interface | the interrupt work beside streams and controls that do not take its lock |
| DRV2624 (`drv2624/`) | work modes, timer, interrupt | stop racing the interrupt and timer |
| audio metrics (`audiometrics/`) | counters, histograms, uptimes, and what a reader resets | updates racing resets, wrap-around |

`PROJECT.json` lists each part with its files and status, and under `hazards`
each place of the modelled code where something can go wrong that a test would
hardly reach.

## 2. Modules

Every definition that stands for code is in `PROJECT.json` under `map` with its lines.
Variables keep the names of the fields they stand for; variables marked "DSP", "chip",
"kernel" or "input core" are the environment, modelled from how the driver uses it. Parts
compose in two ways: `Cs40l26Playback`, `Cs40l26Asp` and `Cs40l26Reset` each contain the
threads that really share state; `MCCs40l26Services`, `MCCs40l2x`, `MCSettings` and
`MCDevices` put components side by side whose properties share none. The components of
such a module state their assumptions as an operator (`MboxAssumption`, ...), which the
module's ASSUME conjoins.

**EffectStore.** What user space may expect: a map from effect to sound.
Uploads set one entry, erases remove one, failed calls change nothing.

**Cs40l26Effects.** The effect list, the slots of the buzz generator, the open
wavetable (OWT) and the event map of the pads. A call holds the input core's
mutex and its work the driver's lock, so one call is one step; `UploadEffect`
and `EraseEffect` are disjunctions over the place where the call ends: done,
rejected, or a failed access with what had been changed by then. `Faults` says
which of these places may be reached. Waveform data is a name; sizes are one
unit. `Store` is the refinement mapping to `EffectStore`.

**Cs40l26Playback.** The single-slot works of the ordered queue, the interrupt
thread, the DSP's message ring, and what it plays. `StopWorker` and
`EraseWorker` are split where the code gives the lock up or sleeps (`usleep`,
`wait_for_completion_timeout`). Two kinds of firmware are covered: one that
posts TRIGGER_CP for each effect, one that does not, when the driver counts by
itself.

**Cs40l26Asp.** The codec's power-up and -down sequence with the points where
other threads get a turn, the restart of a stream after an effect, the PLL loop
saved and restored around it, and the gain scaled while audio streams, which
`set_gain` moves without a lock.

**Cs40l26Reset.** The reset decision, taken without a lock by several threads
(`Commit` is the stretch between reading and writing the event), the reset
worker and `cs40l26_fw_swap` split at the points where they enable or disable
the line or resume the device, and the kernel's sticky runtime error: a swap ends its
configuration with a resume (`SwapResume`), which that error refuses. `Setups` selects what else
happens: pads, manual resets, faults, swaps by sysfs, no reset line.

**Cs40l26Mbox.** The DSP's queue in its own address arithmetic, read a register
at a time; an access may fail between any two. Messages are numbered, so that
order and loss show.

**Cs40l26Pm.** One mailbox register, commands that are awaited and commands
that are not, and a DSP that falls asleep in stages.

**Cs40l26Wseq.** The words of the list, operations of two or three words, a
terminator. A failed bulk write leaves any prefix written.

**Cs40l26Config.** What a load configures. A call is the sequence of accesses that
its code makes, as a value (`FwUpload`, `DspConfig`, ...): each access writes,
sets bits of, or notes in a sequence a *setting*, and a call ends at its end or
before an access that fails. A behaviour watches one setting, so that a state
holds where that setting is now: in the register or word, in the sequences the
chip replays, in the driver's copy. Values are sets of marks ("dt" for the device
tree's value), {} the default. `trees` are kinds of device tree and `revisions`
of chips, each with the branches they take. `Wanted` says what should be there.

**Cs40l26Attributes** adds to it the attributes that set words of the DSP, with
what each keeps in the driver, and the braking time found in an open wavetable.

**Cs40l26Composite.** A composite on its way to the open wavetable. The user composes
section by section (`Compose`); `CompositeUpload` refuses or expands it and computes size
and length as the driver does. `PlaysAsComposed` compares that with what a composite means:
`Walk` is how the DSP plays sections, `Unrolled` and `Meant` write the user's loops and
nested composites out; the first two are recursive functions.

**Cs40l26Calib.** Requests with a completion each per kind of measurement, which
the DSP reports late or never.

**ClDspMemchunk.** The 24-in-32 packing with the code's own arithmetic on machine words, on
bytes of `Bits` bits; masks and shifts are remainders and quotients by powers of two (`Two`).
`WriteCall` and `ReadTurn` are one turn of the loops of `Write` and `Read`.

**Cs40l2xVibe.** One step per holder of the lock, but for a start, whose checks
(with a recovery) and launch are two, for the DSP may end something in between.
`setup`, chosen once, says what the board has (`events`: an interrupt line; `gnd`:
the clamp; `asp`: a timer before the mode worker; `auto`: recovery), what happens
to it (`pads`, `panics`, `a2h`, `resets`, `faults`), and which kinds of index user
space stores: continuous ones (VIBE, PEAK), a CLICK, the queue (PBQ), measurements
(DIAG, QEST). What a launch of the queue does - play, wait, end or fail - is left
open. `wakes` is the number of `wl_apply` less that of `wl_relax`. With `faults`
each access may fail, and the actions say what had been changed by then.

**Cs40l2xQueue.** A string is a sequence of tokens; `Token` is the body of the
parser's loop, `Finalise` the closing of a section, and u8 fields are cut by `U8`.
`LaunchWave`, `LaunchLoop`, `LaunchRest` and `LaunchEnd` are the ways through one
turn of the loop of `pbq_pair_launch`; a launch ends when something is waited for.
`Once` and `Times` say what a string means, independently of sections; `played` is
what was played and waited for. `Parses` says which states the parser goes through from token
to token, `Parsed` where it ends.

**Cs40l2xSettings.** Registers of a firmware by address, with one `Address` map per firmware;
the cache, the write sequence and compensation as the driver keeps them; `wanted` is what user
space last stored for the firmware that runs. Each attribute stands for those with the same
kind of store function. A replay writes in order, so that the `Last` operation on an address
counts; `WrittenOut` is what it leaves there.

**Cs40l2xWaveforms.** The open wavetable: slots added to a table that was loaded, the
driver's list of waveforms under virtual indices, and the indices that are triggered by
the control port and by a button's edges. `PlaysSaved` relates what a slot holds to what
was saved last under the index its user was given.

**Cs40l2xAttributes.** One `AttributeStore` for all attributes that set a word or a field
of one, by a table of what each accepts and caches; beside it the table of resonances and
the counts of hardware errors. A behaviour watches a pair of attributes, for two that share
a word.

**Cs40l2xConfig.** The CS40L25's counterpart of `Cs40l26Config`, in the same manner, from
the probe over the asynchronous answers of user space to swaps, recoveries and
hibernation. `seq` is the driver's `wseq_table` for the watched register, `table` the
chip's; the firmware for effects executes it when it starts and wakes. A waveform starts and
ends as a program whose accesses may fail, and may be triggered again while it plays; the
errata of a wake-up that comes late are written again. What a start or an end that failed
leaves switched over is not promised.

**Cs35l41Power, Cs35l45Power.** The events that DAPM sends the drivers, one at a time, the
works they queue, runtime PM and hibernation, controls between any two of them. Each
follows one setting (`setting`) over the ways registers are written again. `setup` chooses
the kind of adversity: a late DSP, a boot switch stored twice, failing accesses, a work
that comes due while a stream opens. In the last, `race`, an unload and the hibernate switch
are two steps each: `hb_lock` is released, then `amp_hibernate` stored (`storing` says by
whom); a hibernation begun in between is overwritten, which `forgotten` notes.

**Cs35l45Volume.** The ramp of the volume as a work of timed steps, the controls that set
its parameters and the volume, and the amplifier mode, in the driver's own units and
with its arithmetic (eighths of a dB, wrapped registers, milliseconds cut to 16 bits). A
store takes any volume: `dig_vol` keeps it before its range is checked, `set_vol` refuses it.
`strayed` notes such a store, and one that raced with a ramp.

**CsDsp.** One control of one of two firmwares: its cache, its flags (`enabled`, `set`) and
the DSP's memory over boots, starts, stops and stores.

**WmAdsp.** The same for the CS35L41, whose firmware stays loaded and running between streams:
the control as its file describes it (type and flags, refused, passed over or created), the
boot work, what `halo_booted` makes of the power events, the chip's reset, and the fast
switch, which stores into the control without the lock. `setup` is sound, has failures, or
lets the boot work run in the middle of a fast switch.

**AdspStream.** The host buffer: the DSP's ring over regions of different size, the read
index, `avail`, the interrupt that is armed again, a reader that sleeps.

**Tas25xx, Tas256x.** Two chips with their power states, the stream's DAPM and DAI events,
the interrupt and its work, resets and what is written again after them. In `Tas25xx` all
work and handlers run under `codec_lock`, so each is one step; in `Tas256x` the
interrupt work's accesses are steps, for most controls do not take its lock.

**Tas25xxRegbin.** How the TAS25xx's register binary is parsed, without state: which blocks a
channel gets when each parser takes the block at the cursor that the one before left or else
searches, which binaries are refused, which of several revisions is taken, and when a request
for a binary is made again. `OwnBlocks` compares it with the binary as it stands, over all
binaries of two channels with blocks in any order, missing, or not understood.

**Tas25xxCalib.** The two works of the algorithm interface, each step of them an access of
the host's DSP that may fail; what the user stores and a stream's start sends; a stream's
end that reads statistics and a show that clears them; resistances in the code's fixed
point. `again` notes that a work was asked for while it was under way.

**Drv2624.** Attributes, LED brightness and trigger, two work queues, the interrupt, the
regmap cache of registers that are not volatile, suspend and resume. The trigger's stop
takes no lock: it is three steps, and so is a start, each with the write of GO in the middle;
the poll of GO may give up. `unanswered` notes a motor that no stop will see any more.
**Audiometrics.** Counters that threads add to, set, and readers report and clear, in groups;
the ids and durations of offload effects. A feature's index is checked as the code does,
against 23: `CountCell` and `DurationCell` say what lies where indices 6 to 22 point,
`spilled` which counters they have been added to.

`MCSettings` composes the waveforms, attributes and configuration of the CS40L25 with the
two TAS drivers, the speakers' calibration and the register binary; `MCDevices` the other
amplifiers, the DRV2624 and the metrics. What these modules instantiate with a set, a scale or
a map of addresses is a constant of theirs (`FirstWords`, `SecondWords`; `FreshScale`,
`FreshValue`, `Waveforms`, `Lengths`, `Cached`, `Uncached`, `Remaps` of `Addresses`;
`Tables`), so that theorems hold for all.

## 3. Runs

| run | what it shows | bounds, and why they are enough |
|---|---|---|
| `effects_owned` | `ImplementsStore`: user space gets exactly the promised store, whatever fails among the failures the driver survives; `OwtPrivate`, `NoSlotLost` | two effects, two slots, two waveforms, room for two: contention for each resource, a shift of indices, and a full table all occur |
| `effects_faults` | `OneSlotEach`, also across reloads and lost acknowledgements | every bank, every fault, two effects; the last call is no part of the view, for no guard reads it |
| `effects_pad` (violated) | `PadFollowsIndex`: a pad keeps triggering its effect when another is erased | |
| `playback` | the count is exact (`InFlightExact`), an erase is always woken (`NoLostWakeUp`), waits (`CalmEraseWaits`) and ends (`EraseTerminates`) | three effects, one endless, one that cannot be stopped, one on a pad: a displaced effect and an erased third one; four messages outstanding |
| `playback_erase_early` (violated) | `EraseWaits` without those conditions | |
| `asp_interrupted` (violated) | `PllRestored` also with effects | |
| `reset` | the line restored and loads undisturbed (`LineSound`), the count restored and resets limited (`CountsSound`); each reset ends (`ResetEnds`) | a limit of one reset: below, at and beyond it; two messages are a displaced effect; no fault strikes and users ask for nothing more while the line is disabled oftener than once, for failing swaps would nest it without end |
| `reset_effects_lost` (violated) | `ListedIsLoaded` | |
| `services` | `DataIntact` (mailbox messages in order, chunks read back, braking times found, composites played as composed), `RequestsMet` (power, calibration), `ReplaysAsked` (write sequence, configuration and attributes), `StreamsSound` and `ServicesEnd` (streaming, mailbox) | a ring of three that wraps twice; a list that is full after two or three writes; two users, two kinds; three fields of up to four bytes in three words; for streaming two gains, scale 50, so that scaled and unscaled values all differ, and four messages, which hold a restart and an interruption; every setting of a configuration, nine kinds of device tree, two revisions, one access that fails; three waves; composites of three sections over a table with each kind of wave and composite, in a room of 16 words that holds some of them and not others |
| `haptics` | `WakeFollowsState`, `FreeWhilePlaying`, `SettingsKept` (gains, and the cache of attributes), `QueueExact` (what a queue plays, its length, that it is taken on), `PlaybackEnds` | thirteen boards, each with the features whose interplay matters; strings of four tokens, which hold an inner loop of two sections or an outer loop over three tokens, and a marker of 3, so that counts below, at and beyond it occur; a cache that overflows with the third address stored and a sequence that overflows with the fourth load |
| `settings` | `SavedInForce` (waveforms, attributes and configuration of the CS40L25, the TAS25xx's register binary), `ShownIsTrue` (its resonances and given-up errors; results, excursions and resistances of the TAS25xx's speakers), `SmartAmpSound` (TAS25xx with its calibration, TAS256x) | three composites, one too long, two wavetables with one waveform more or less than slots need; each pair of attributes that share a word; errors given up on at the third; every setting of a probe on four devices and seven kinds of device tree, one access or answer that fails, two further loads; two chips, two faults, for each kind of adversity one of `TasSetups` or `OldSetups`, which watches the settings it may disturb; two speakers, two rounds, three requests, a resistance out of the range and two within, one access that fails; binaries of two channels, three requests for one |
| `devices` | `AwakeAndKept`, `OffStops` (DRV2624); `Reported` (metrics); `DspKept`, `VolumeSafe` (CS35L45); `ControlsKept` (CS35L45, CS35L41); `StreamInOrder`, `ReaderWoken` (host buffer); `AmpSound` (CS35L41) | two threads and counts to three, a table of two offload effects and three ids; a volume low enough that a slope begins at its floor and one out of range (the initial one is between), a ramp without time; in `race` settings of a table, of those remembered and the forced interrupt, and one interrupt left disabled; two firmwares, controls of every type with flags they must have, may have and must not have; a ring of three words in two regions and four words, which wrap; each of the named setups |

`services`, `haptics`, `settings` and `devices` exercise one component per behaviour,
chosen in the initial state: the components share no variable their properties mention, so
nothing is lost and no product of their states is built.

Deadlock is checked in all runs but three whose bounded components come to an end:
`services` (fields written, messages sent), `settings` (a full table of resonances, a
probe whose files were refused, a chip that lost its state for good) and `devices`
(counters at their bound, a stream at its last word).

**Bounds in the modules.** `MaxRing` (messages outstanding): a DSP step that
would exceed it waits. `MaxSent`, `MaxJobs`, `MaxFields`, `MaxSize` (this one is
the code's own), `MaxDepth` (faults and users rest while the line is disabled oftener),
`Faults` of `Cs40l26Wseq` (failed accesses per behaviour), `MaxWakes` (the count of
wakes saturates, on both sides), `MaxTokens` and `MaxTokensLater` (the first string
and those stored over it), `MaxPlayed` (a queue without end goes on no further).
`ConfigFaults` and `MaxFaults` (accesses, answers or chips that fail in a behaviour),
`MaxLoads` (loads that each extend the write sequence), `MaxWaves`, `MaxAdded`, `MaxWords`,
`MaxUsage`, `MaxDepth` of `MCDevices` (nested disabling of the DRV2624's line),
`MaxDisabled` (how often the CS35L41's interrupt is left disabled for good).
`MaxSections` of `Cs40l26Composite` (sections composed; one that will be refused is the
last, durations are given to waves only, and a flag that announces one has one).
`IrqLimit`, `RESTART_MAX`, `CacheMax`, `WseqMax`, `Marker` and `MaxSections` of
`Cs40l2xQueue` are the code's own limits, made small.

**Fairness.** Weak fairness of a work queue's worker, of an interrupt thread with
work, and of a task inside a call: the kernel schedules them. Weak fairness of
the DSP ending a finite effect or a started I2S stream: it does so by itself. In
`Cs40l26Reset` the start of an effect has strong fairness because `MaxRing`
disables it now and then, which the code does not. User space, pads, failures
and hangs are never fair. `EraseTerminates` and `Drained` hold only when pads,
or messages that stop the drain, are out of the way; their text says so. In `haptics`
the works are fair as one, as they are on one ordered work queue; so are the interrupt
thread, each timer, an effect that ends by itself or was asked to, and the steps of a
launch, which are one run through a loop under the lock. User space and buttons are not. In
`devices` the DRV2624's ordered work queue is fair, and so are the interrupt that the DSP's
buffer raises and the thread that handles it; nothing else there needs fairness.

**Violated runs.** Each states what a comment or the ABI documentation says; the
`findings` quote the line.
- `effects_pad`: erasing an OWT effect lowers the indices of later ones in the
  list, not in the event map, so a mapped pad triggers another waveform.
- `playback_erase_early`: an erase right after a start finds `vibe_state`
  STOPPED, because TRIGGER_CP is unread, and deletes the effect that plays.
- `asp_interrupted`: a stream restarted after an effect saves the PLL's loop
  again, now closed, and power-down "restores" it closed.
- `reset_effects_lost`: a reset reloads the wavetable and keeps the effect list.

## 4. Proofs

All constants are arbitrary within the named ASSUMEs. A module below EXTENDS the component it
is about, or the module that puts components side by side; there each component has a section
with its own inductive invariant, and the last section joins them.

**Cs40l26Effects_proofs.** `TypeCorrect`, `OneSlot`: under every failure.
`Ownership` (`OwtPrivate /\ SlotPrivate`) and `StoreImplemented` (`Spec =>
Store!Spec`) assume `Faults \subseteq SafeFaults`, the failures after which the
promise is kept. The invariant of the refinement, `Owned`, adds to ownership
that RAM and ROM indices lie in their tables and that what the DSP plays for an
entry is what user space asked for. It is needed because a delete shifts the
OWT under the other effects: `UnlinkEffect` and `DeleteType` show that lowering
the later indices cancels that shift exactly when no two effects share an
index. `SettleStore`, `FailStore`, `UploadStore` and `EraseStore` then match
each outcome of a call to a step of the store or a stutter.

**Cs40l26Playback_proofs.** `TypeCorrect`; `Counted`: with reporting firmware the
count agrees with the DSP and no reset is provoked, for any number of effects and
any ring. The inductive invariant is `Alternates`: starting from the count,
messages in the ring alternate and end in what plays. `AlternatesAppend` covers
the DSP's side, `AlternatesTail` the interrupt thread's; everything else leaves
both alone. It rests on the DSP posting one message per change, which is how
the firmware is modelled. `WakeUpKept` (`NoLostWakeUp`) adds `Mailbox`: without pads only
the mailbox starts effects, and without reports the count is the unread completions plus
what plays; so an erase that finds the driver in HAPTIC has a completion to come
(`StillToCome`). `CalmErases` (`CalmEraseWaits`) rests on `Quiet`: a calm user's start is
pending only first in the queue and while nothing plays or is unread, so that an erase finds
nothing of an earlier effect that could wake it too soon.

**Cs40l26Reset_proofs.** `TypeCorrect`; `LineKept` (`LineSound`), for any limit of resets, any
ring and number of requests. `LineInv` strengthens it: somebody who will enable the line again
(`Owed`) is between its places `load` and `swapped`, the resume included, or is the worker
before its load; without faults the line is disabled exactly as often as it is owed. It says
nothing of the setup `overlap`, where the code itself loses the line (section 5). A swap whose
resume is refused leaves the line disabled and the reset FAILED: what is owed then is never
paid, and `LineSound` promises nothing once a resume has failed (`pm_error`). `CountsKept`
(`CountsSound`): `EffectsInv` has the count of effects, the messages in the ring and what the
DSP plays alternate as in `Cs40l26Playback_proofs`, but up to a reset, after which all three
start anew; `LimitInv` counts resets that were decided on and not yet taken up (`Outstanding`)
against the limit, which holds because only one of worker, queue and caller carries a
decision, unless runtime PM has failed.

**MCCs40l26Services_proofs.** Five components of the services run. `RequestsKept`
(`RequestsMet`), for any attempts, writers and kinds of measurement: `PmInv` with `Handshake`
says what a resume knows of the DSP at each of its places - once PREVENT_HIBERNATE is
acknowledged the chip is awake and locked, and nothing is left in the mailbox that could
unlock it; `CalibInv` counts the completions that are owed. `StreamsKept` (`StreamsSound`):
`AspInv` follows the messages of streams and effects (`Counted` relates a trace of them to
the states in between), for a ring of any length and any gains. `DispatchedInOrder` and
`NothingLost`, both of `DataIntact`: `RingHolds` relates the unread stretch of the ring to
the messages sent and not yet handled (`HandHolds`: the one read but not acknowledged
included), positions modulo the length. `WriteSequenceKept` (`Replays`, `ClearedToRom`, of
`ReplaysAsked`), for any data and any memory of the chip: `WseqInv` says at which positions
the operations of the list lie (`Laid`), so that a write to one of them cannot change how the
others are found.

**MCDevices_proofs.** Every invariant of the devices run: `TypeCorrect`; `HapticsSound`
(`AwakeAndKept`); `MetricsReported` (`Reported`), for any number of threads; `DspFollowed`
(`DspKept`); `VolumeHeldDown` (`VolumeSafe`); `StreamRead` (`StreamInOrder`), for regions of
any size; `AmpKeptSound` (`AmpSound`); `ControlsHeld` (`ControlsKept`). `DevicesInv` has a
part for each component. Four of these carry a history of what the code loses, and say what
holds until then: of the DRV2624 a motor runs with the wake lock unless it is `unanswered`,
which needs that a start under way has `vibrator_playing` set or crossed the trigger's stop;
of the metrics the counters but for those `spilled` into; of the volume `VolumeInvStep`
follows a slope from any stored volume, in range or not, and claims loudness unless it
`strayed`; of the CS35L41 `AmpIrq` counts what is due to the interrupt, exactly unless a
hibernation is `forgotten`, and `AmpLock` that nothing is forgotten outside `race`. The
longest is of controls: a control is enabled only while its own firmware is chosen and booted,
since no other can be chosen before a power-down has disabled it (`Owner`); `LoadedTrue` and
`StartedTrue` say when cache and memory agree: a control that was never set from the load on,
one that was set only from the start of the firmware. In between nothing is promised:
`running` may be left over from a firmware that a reset took away.

**MCCs40l2x_proofs.** `TypeCorrect`; `FreeKept` (`FreeWhilePlaying`); `SettingsHeld`
(`SettingsKept`); `WakeKept` (`WakeFollowsState`); `QueueGoesOn` (`QueueDriven`, of
`QueueExact`): for every set of boards, scales, maps of addresses, sizes of the cache and
strings. `FreeWhilePlaying` is inductive by itself, the others are not: a queue must be in its
states only while it is `cp_trailer_index`, the chip answers and there is a scale to return
to (`QueueHeld`, `QueueOwes`, `QueueKept`), which holds because a start that has passed its
checks keeps the lock until it launches (`Checked`). `vibe_state` RUNNING is what keeps other
firmware from being loaded under a queue; where streams speak for it, no measurement may ask
for other firmware (`Asked`). The blocker may lag `vibe_state` (`Lagging`), never exceed it.
That the parsed string is well formed is an induction over its tokens.

**MCSettings_proofs, MCSettingsParts_proofs.** The second has the waveforms, the TAS256x and
the configuration, the first the other parts, the invariant of all (`SettingsInv`) and the theorems:
`SavedPlayed`, `SlotsBeside` (`PlaysSaved`, `SlotsApart`, of `SavedInForce`); `ShownTruly`
(`ShownIsTrue`); `AttributesInForce` (`InForce` of the attributes, in `SavedInForce`);
`SpeakersLeftClean` (`LeftClean`, `CalibrationSent`, of `SmartAmpSound`); `ResetsMadeGood`
(`SmartAmpSound` of the TAS25xx); `SmartAmpsSound` (`SmartAmpSound`, with the TAS256x);
`AnswersAwaited` (`AllAnswered` of the configuration, in `SavedInForce`); `TypeCorrect`.

Of the waveforms, for any wavetables and composites: what is asked of a slot is not what
`PlaysSaved` can be carried by, for the driver only knows which index it took to be loaded
last, and skips the write when that index is asked for again. `WaveformsInv` therefore says
that what `loaded` has for a slot is what is asked of it (`Asked`), and that a slot that no
load erased holds it (`Holds`). It needs that an index stands for one waveform, as the indices
of what was saved go on from the table's own (`Numbered`, until a table of another length is
loaded: `moved`), that none of them is an index that stands for something else (`CLICK_MAX`),
and that the driver's count of waveforms includes the slots just while there are any
(`SlotsKnown`). The layout is an induction over a table's waveforms (`WordsSteps`,
`WordsGrow`).

Of the attributes, `WordsInv`: the words of the chip hold what is wanted while it has its
state, the cache what is to come back, and a word that two attributes share keeps the field of
each when the other is stored; `TableInv`: the entries of the table of resonances that are
measured come first (`Tight`), and the driver's copy is the DSP's when it was read since;
`ErrorsInv`: the count exceeds its limit just when an error is left latched.

Of the speakers, `CalibInv` needs that results are forgotten when the work begins: only then
does its first round put each speaker into calibration and take it out again, so that a later
round may skip those that succeeded; `ValidInv` follows the validation speaker by speaker,
`AnswersInv` what the DSP answered last, `SentInv` the stored calibration up to the start of a
stream, `StatsInv` the greatest excursion; `ConvertedBack` is the arithmetic that a resistance
survives the fixed point.

Of the configuration, `ConfigInv`. A call is a program of accesses, and the chip between two
of them is what `States` computes: an induction over any program shows that it stays a chip
(`CfgStates`), and which firmware the driver has in mind wherever the program ends - the same
as before, if it names none (`CfgPlainRuns`), or one of two, if it names one (`Turns`,
`CfgTurnRuns`); every call is then shown to be a program of one kind or the other. A swap that
is noted names `remap` or `cal`, so that what an index restores is always one of them. Of the
load, `CfgLoadInv` relates the count to the answers that are outstanding: together they make
what was asked for, and with a refusal fall short of it, so that the count can reach the
length of the list only with the last answer and without one.

Of the TAS25xx, `TasInv`, for any setups, limit of interrupts and number of faults: what is
promised of a chip that is on holds because the driver's own copies are what was asked for
(`Remembered`), so that a reset in the middle of anything writes them again (`KeptAt` for the
chips); that a chip can report a fault (`ArmedAt`) and that a report is looked at (`HeardAt`)
are each kept chip by chip while the interrupt work goes from one to the next, the one it is at
excepted (`Core`, without those two). A chip is out of a promise while it is marked `lost`,
`stray`, `disarmed` or `missed`, where the code loses it: the departures in section 5 name the
places.

Of the TAS256x, `OldInv`: its interrupt work lets streams and controls in between its steps, so
what it promises of a chip that is on must be said of every chip, on or not and in the middle
of the work: what is in a chip is what was last set, unless it was lost (`OldKept`), because
what is held or being put is what was last set (`OldRemembers`). That no chip is on without a
stream needs that none is on without the device being powered (`OldSilent`, `OldPowered`); that
a fault is looked at, that the interrupt is enabled or about to be (`OldListens`). The switches
and the mutes are exercised without faults (`OldApart`): there no work of an interrupt is
queued.

**Induction.** A list replayed by the chip, a scan of it, a string that is parsed: what these
compute recurses, and is written as a recursive function. The theorems of the library on
induction take an operator as a parameter, which the provers here cannot instantiate; but that
every non-empty set of natural numbers has a least member (`LeastNatural`) follows from the
well-founded order of the naturals, and from it, for sets instead of predicates, induction
upwards and downwards (`Induction`, `Downward`) and the existence of functions that recurse
from a number to the one before it or after it (`Iteration`, `Descent`).

Only model-checked: all liveness; of the services `TypeOK`, the chunks and composites of
`DataIntact` and the configuration in `ReplaysAsked`, which computes over sequences of
accesses of any length; what a queue plays (`QueueExact` but for `QueueDriven`), a meaning that
recurses over nested loops; of the settings what the configuration puts in force (`InForce`)
and the register binary, that is the rest of `SavedInForce`.

## 5. What is not covered

Not modelled: contents of files and of registers that only pass through, the decoding
of firmware and coefficient files, logging, attributes that only show a measurement,
buses, tables, allocation failures but as early returns, and timeouts of the kernel's
lock classes. No DSP sends messages it has no reason to send. By component:

- CS40L26: A2H tuning files, debugfs' event logger, `cl_dsp`'s file parsers. The auxiliary
  noise gate and errata are in force only after the next wake-up, as they are only noted.
  Attributes are watched on the kinds of device tree "rom" and "calib" (f0 on all),
  braking on "bare".
- CS40L25: PWLE strings, durations, the input core's effects, the PLL as the codec changes
  it at run time, the DSP's errata registers (no sequence restores them), system suspend.
- CS35L41: volume ramp, fault interrupts, probe, the reset by CCM and resets during a stream;
  a reset's own writes are one step against the work. CS35L45: fault interrupts, probe, and
  DAPM's own graph. The layout of the files `wm_adsp` and `cs_dsp` parse, and the older cores
  (ADSP1, ADSP2) of `wm_adsp`.
- TAS25xx: what the blocks of the register binary hold, the controls created from it,
  interrupt statistics, the controls of the two
  binary interfaces of the algorithm and its debugfs. TAS256x: the same, its older copy of
  the algorithm interface, and the TAS2558, whose parameters the code leaves uninitialised.
- DRV2624: the waveform RAM, results of diagnostics, failing register writes but GO.
- Audio metrics: values that are only set and shown, counters that wrap.

Departures noticed while modelling that no run states, because no line of the
repository says otherwise, or because they need a step that is not modelled:

- A worker that cannot resume the device returns before it sets `upload_ret` or
  `erase_ret`; the caller returns the previous call's result.
- An effect started by a pad sets no `erase_cont`; the erase ends by its timer.
- `effects_in_flight` counted by the driver (firmware without TRIGGER_CP) may
  reach a reset that nothing called for when an effect displaces another.
- A gain set while audio streams is lost when the scaling is removed; an I2S
  stream stopped by the codec may be restarted by a completion read later.
- A failed load leaves `fw_loaded` FALSE and the interrupt line disabled once
  more; a later successful reset does not enable it.
- `cs40l26_dsp_config` ends with a resume. With the kernel's sticky error it is refused: every
  later swap fails after its load, with the line disabled once more and the reset FAILED.
- `swap_firmware_store` runs unlocked beside the reset worker: both may disable
  and enable the line (setup `overlap` of `Cs40l26Reset`).
- A reset cancels `upload_work` while its caller waits in `flush_work`: the
  upload reports an older result.
- Right after new firmware, a pad's start finds the old count and asks for
  another reset; a rejected upload does too. Both, and failed resets, bypass
  the cooldown.
- Without a reset line the event stays ONGOING; `reset_store` rejects 0, which
  the ABI text lists.
- A resume that fails once makes the kernel refuse all later ones.
- A second `wseq_clear` writes to register 0, its parameters being zero; a
  terminator that cannot be written leaves the list without an end.
- `LS_CALIBRATION_ERROR` is reported as success; a second request of one kind
  wipes the completion of the first; `calib_fw` is checked outside the lock.
- A non-zero STATUS blocks the mailbox queue for good.
- `cs40l26_buzzgen_configs` and the write-sequence parameters are file-static,
  shared by all chips of a system.
- `cs40l26_remove` destroys its mutexes before it cancels works, and does not
  cancel `reset_work`.
- A reset that fails before its load, followed by hibernation, leaves the amplifier's
  high-impedance setting lost until a wake-up after a later swap; a load that fails in the
  boost's short test takes the test's mode for the boost's own, for all later loads.
- A store to a compensation attribute that is refused or whose write fails still changes the
  driver's copy, which the next load writes; `fw_ctrl_val` bypasses that copy.
- Stored f0, ReDC and Q, timeouts by sysfs and logging do not outlive a load, and only the
  first load writes the device tree's f0, ReDC and Q. `calib_fw` is the device tree's again
  after a reset. With firmware in ROM a swap resets no words, and the logger's count grows.
- `gain_adjust` is applied again with each load; the maintenance branch logs its sources
  twice; `dbc_tuning_loaded` is never cleared, so that dynamic boost is enabled
  with later firmware too; a logger that could not be set up leaves a dangling `log_srcs`.
- `swap_wavetable_store` keeps its number also when the swap fails, later loads do not use
  it, and a failed swap leaves hibernation prevented until the next use.
- A braking period below 8 is shown as invalid, and without waves in RAM a length that is
  -1 is compared as unsigned. Two stores free a pointer that `strsep` has moved; more than
  six tokens overflow the array of `dvl_peq_coefficients_store`.
- A composite of which nothing is left (no sections) is reported as uploaded, since its size
  of 0 is returned as the error, and takes the index of the wave before it. One of 2^22
  samples or more sets the flag of waves without end.
- The size of a composite goes by a section's duration, its data by the flag that
  announces one: they differ for a flag with a duration of 0. A delay with a duration is
  sized and copied differently, and the duration of a nested composite is ignored. A loop
  inside a nested composite ends the user's loop around it.

Of the smaller devices:

- DRV2624: `drv2624_lp_trigger_enable` calls `drv2624_stop` without the lock and sleeps in it.
  A start in between lets the motor go, and the stop then clears `vibrator_playing` and gives
  the wake lock back: no later stop will see that motor. A stop whose poll of GO gives up does
  the same. STATUS is read from the cache, for it is not volatile.
- Audio metrics: AMCS_OP_ADAPTED_INFO_FEATURE compares the index with its own number, 23,
  instead of the 6 features: indices 6 to 22 are added to the durations, the Bluetooth
  durations and the sums of PCM latency. The AMS rate is computed in 32 bits and wraps above
  42949 counts; an average of no count is told as none; `bt_usage` is refused while no driver
  is registered for PDM. Only one of two threads that count a call at once may be counted.
- CS35L45: `dig_vol` is stored before its range is checked, so that a later ramp ends
  at a volume that was refused. The mode NONE is taken before the pin goes down: the device
  used before is recorded as NONE, the time of the receiver's end not at all, and the next
  switch to the speaker does without its ramp.
- CS35L41: an unload and the hibernate switch release `hb_lock` before they store
  `amp_hibernate`. A hibernation work that had begun enters hibernation in between, and what
  is stored then replaces STANDBY: the interrupt stays disabled for good, the registers cache-only
  until a later hibernation ends or a reset. The switch set to 1 while the chip hibernates does the
  same without any race (modelled in `race` only).

And of the CS40L25:

- The counters of inner and outer loops are not reset by a cancel, a recovery, or
  a queue stored while another plays.
- An inner loop of one section loses its start, because start and count share
  `repeat`: the first such loop of a queue goes back to section 0. `queue_show`
  then prints what `queue_store` refuses.
- A delay at the end of an inner loop arms the timer and is not waited for.
- Counts are cut to a u8, of which 255 means a start or "without end"; `wlength`
  is computed from the whole count. The results of `clamp_t` on it are discarded.
- `"!!,0!!,~"` makes an empty section that is repeated indefinitely; its launch
  keeps the lock (`LaunchEnds` excludes it).
- A queue takes no notice of the durations it parses.
- A queue started over a continuous effect clamps the amplifier during its delays,
  while that effect plays, and its stop does not end it. Without an interrupt line a
  delay that begins over a click is not taken on.
- A button's effect between two sections makes the PBQ worker leave the queue, and its
  end does not bring it back.
- An end event read late cuts a delay of the queue short; a late mode work beside a
  measurement's tone stops the driver's state and clamps the amplifier.
- After a queue the amplifier is not clamped again until something else has played.
- A queue that could not be launched stays `cp_trailer_index`: its stop gives the
  suspend blocker back a second time. `clk_en` sets `vibe_state` without the blocker.
- A stream that ends while a queue plays says STOPPED: other firmware is then loaded, or the
  chip reset, under the queue, whose timer or stop goes on with it and puts back a scale
  stored before (`GainsKept` and `QueueDriven` leave streams beside measurements or resets
  out).
- A scale stored while a queue plays is lost at its end; a chip lost during a
  measurement comes back with the volume 0.
- A recovery whose load fails keeps the blocker; none is made while a queue or a
  measurement is being played.
- The cache is emptied when calibration firmware is loaded, also by the recovery that is
  about to replay it, and is kept on the way back, so that a recovery writes the
  addresses of the calibration firmware.
- Attributes without a cache entry are lost with every recovery, which then also leaves
  the offset of the current monitor off while `clab_enable` is on.
- `pbq_outer_loop` outlives a cancel: a queue "1!" that is stopped in its repetition plays
  once when it is started again.
- With the legacy clamp each load of a firmware for effects appends its registers to
  `wseq_table`, until it is full and every load, reset and recovery fails.
- Shared words changed while the chip's state is lost cache the other field as it was read;
  `dyn_f0_val_show` finds index 0 in unused entries; a resonance stored before the table
  was read is duplicated or overwritten.
- OVWR_SAVE with a composite that is too long writes the one before and succeeds, and errors
  of `write_virtual_waveform` are ignored. A refused store to a button's index changes what
  is shown. Tables of fewer waveforms than slots wrap the limit of indices; without slots the
  last three are refused to buttons. `fw_swap_store` never enables the open wavetable again.
  Virtual indices are not renumbered when the table changes its size.
- `par_bin_found` is set by any file but one (`strncmp` is not compared with 0), so a
  device with `dyn-f0-disable` and a list that has the resonances never starts its DSP.
- A coefficient file that is refused leaves the device without an interface, and nothing
  tries again. `cs40l2x_i2c_remove` does not wait for answers that are outstanding.
- `fw_swap_store` to the calibration firmware makes it the one a recovery restores, and
  that recovery skips the write sequence: the registers are lost.
- A recovery that fails while it leaves the ROM's firmware leaves `fw_desc` there; later
  ones ask for a file without a name and never succeed.
- The boost's limit stays at `boost_clab` after a waveform with active braking. On the
  revisions before B1 nothing executes the sequence that takes the boost out of the
  errata's mode.
- A suspend or resume that fails makes the kernel refuse all later ones.
- `boost_ipk_store` puts its value in the place of AMP_DIG_VOL_CTRL in the write
  sequence: it is what the volume becomes after a reset.
- In the input build `upload_effect` refuses an index that is out of bounds without
  giving the lock up. The stop worker and `playback_effect` have such returns too, for
  conditions that do not arise.

Of the CS35L41:

- `cancel_delayed_work` does not wait: a hibernation that has begun hibernates a chip that
  starts to play. So does `force_wake` set to 0 between power-up and GLOBAL_EN.
- A firmware load that fails marks `halo_booted`; it is not loaded again. `retries < 0` is
  never true, so a restore that failed is ignored. A wake-up that failed is taken as one.
- Registers in none of the tables, and a forced clock pin, are lost over hibernation; a reset
  that is refused with -EBUSY leaves the interrupt disabled.
- `halo_booted` cleared while the preload is on makes it load into a sleeping chip; set by
  hand, it starts nothing.
- The fast switch takes no `pwr_lock`: a boot work that runs between its copy and its mark
  reads the DSP's value over the copy, which is then kept as what was stored.
- A boot that fails after a reload leaves `booted` set, so that the next stream starts what is
  not there. One that fails leaves its controls enabled, and they are written to the next
  firmware. The end of a firmware is never signalled to its HOSTEVENT controls.

Of the CS35L45 with `cs_dsp` and `wm_adsp`:

- A ramp whose time its steps do not divide ends 1/8 dB below the stored volume. Playback
  begins at full volume until the ramp's work runs. A volume stored during a ramp is shown,
  and the ramp ends at the old one. A cancelled ramp leaves `manual_ramp` set.
- Class H switched off during hibernation is lost; settings outside the mixer's table are
  too. Hibernation masks IRQ1_MASK_2 and only the mailbox is unmasked, so the DSP's watchdog
  goes unnoticed.
- The boot switch stored twice drops the usage count twice. A refused hibernation is a
  runtime error, after which opens fail. Speaker and log events complete a command's wait.
- Booting off powers the DSP down before it is told to stop; a failed power-up leaves
  controls enabled. A failed `post_run` leaves `running` set. A refused volatile write marks
  the control as set. `get_ctl` matches prefixes of names. Two callers lack `pwr_lock`.
- A stream stopped and started before its interrupt was acknowledged leaves the DSP
  unarmed. A block that cannot be copied to user space is lost. `set_params` twice leaks
  its buffer.

Of the TAS25xx:

- A reset loses the stream's sample rate. In TDM mode writing again always fails at the
  transmit slots, in I2S mode when either direction's width was never set; what comes after is
  not restored. The edge mode is lost.
- A shutdown by one channel's interrupt makes later events pass over the other, which stays
  on unless a mute came first. Work that runs after a shutdown powers a channel on without a
  stream. A reset powers on the interrupted channel only.
- Each enabling clears `irq_count`, so its limit is hardly reached; interrupts of the clock
  leave the chip's interrupts disabled; one during suspend is dropped.
- Profile changes during playback leave a spared channel on. S20_3LE is accepted and
  configured as 16 bits. A parse that failed is not tried again, and its result used.
- A calibration or validation that is asked for while it runs is run once more, and the first
  run shows both as ended. Each early return of the works leaves their status enabled and the
  speaker in calibration; a failed store of a validation leaves a speaker in it.
- An excursion that arrives between the two steps of its show is cleared unseen. The counts
  of over-limit events have a saturation that is never reached. A negative ambient
  temperature wraps in eight bits.

Of the TAS256x:

- Rates of the 44.1 kHz family make the hysteresis update fail and abort each reset with the
  chips off. TDM resets need four slots and a capture width. Two misspelt rates refuse 192000
  and 176400; a level the control offers is refused by the write.
- `load_config` overrides the receiver mode and a TAS2564's level. `mn_restart` is never
  reset; the restart powers the chip without its registers.
- What the interrupt work captured before a stop or start is applied after it. A control
  put between its reset and its remembering is lost. A channel that is off misses writes.
- Init work clears latched faults, unmasks after a shutdown, and is never cancelled. Unmuting
  without a stream powers the chip; muting without one mutes the next.

Of the DRV2624 and the metrics:

- STATUS is read from the cache, so the branch that ends a finished waveform is dead and the
  wake lock stays. Off between two ons leaves a start pending; a late work cuts a new
  playback short; a restart that meets a completion is lost. The RTP interrupt disables the
  line twice. `remove` does not cancel the stop.
- `dsp_usage_count` is cleared when durations are shown; call counts are not locked;
  `pcm_latency` divides by a count that may be 0; a rate is computed in 32 bits.

## 6. Plan

Models of all families are there. What is left, in this order:

- the contents of the TAS25xx's register binary and the TAS256x's algorithm interface; PWLE
  strings of the CS40L25; the parsers of `wm_adsp` and `cl_dsp`; the CS40L26's interrupt
  handlers;
- theorems: the rest of `SavedInForce` (what the configuration puts in force, register by
  register; the register binary); then the CS40L26's configuration, with the induction over the
  accesses of a call that the CS40L25's has, chunks, composites, and what a queue plays;
- that a launch of the queue in `Cs40l2xQueue` is one that `Cs40l2xVibe` allows.
