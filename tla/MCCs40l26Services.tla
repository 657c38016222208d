-------------------------- MODULE MCCs40l26Services --------------------------
(***************************************************************************)
(* The services of the CS40L26 driver on which effects and streams rest,    *)
(* checked in one run: the mailbox queue, the hibernation handshake, the    *)
(* write sequence, calibration, the memory chunks, the stream of audio that *)
(* effects interrupt, what a load configures with the attributes in sysfs,  *)
(* and composites for the open wavetable.  They share no state that their   *)
(* properties are about, so a behaviour exercises one of them, chosen at    *)
(* its start, and the state of the others stays initial.                    *)
(***************************************************************************)
EXTENDS Integers

CONSTANTS
    QueueLen, MaxSent,                      \* Cs40l26Mbox
    Attempts,                               \* Cs40l26Pm
    Data, MaxSize, Faults,                  \* Cs40l26Wseq
    Users, Kinds, MaxJobs,                  \* Cs40l26Calib
    Bits, Size, MaxFields,                  \* ClDspMemchunk
    Gains, AspScale, MaxRing,               \* Cs40l26Asp
    Settings, Revisions, Trees, ConfigFaults, MaxWaves,     \* Cs40l26Attributes
    Amplitude, Delays, Durations, Repeats, OwtSize, MaxSections    \* Cs40l26Composite

VARIABLES
    part,               \* the service a behaviour exercises
    calm, mem, wt, rd, full, stops, sent, handled, attn, mbox_pc, read_ptr, write_ptr, val,
    pm_state, allow_hibernate_sent, pm_pc, attempts, mbox, dsp_state, dsp_lock, pm_plays, broken,
    memory, rom, params, failed, intact, wanted,
    calib_fw, at, kind, cont, jobs, done_queue, alone, reported,
    phase, chunk, fields, results,
    haptics, effects_in_flight, asp_enable, vibe_state, refclk_input, i2s_cont, gain_pct, gain_tmp,
    scaling_applied, gain_work, irq, audio, pll, refclk, asp_attn, ring, playing, i2s, user_gain,
    set_calmly,
    setting, revision, tree, unit, comp, stored, bound, configured, cut, sel, waves,
    owt_tables, user, upload

Mbox == INSTANCE Cs40l26Mbox WITH Len <- QueueLen, pc <- mbox_pc
Pm == INSTANCE Cs40l26Pm WITH pc <- pm_pc, plays <- pm_plays
Wseq == INSTANCE Cs40l26Wseq
Calib == INSTANCE Cs40l26Calib WITH queue <- done_queue
Chunk == INSTANCE ClDspMemchunk
Asp == INSTANCE Cs40l26Asp WITH attn <- asp_attn
Config == INSTANCE Cs40l26Attributes

(* A wave, one without end, one so long that it fits once, and composites: with a loop, of
   a composite, of waves in ROM with a delay that is repeated, and one that repeats. *)
WaveTable ==
    LET wave(n, endless) == [composite |-> FALSE, length |-> n, endless |-> endless,
                             sections |-> <<>>, repeat |-> 0]
        nest(ss, n) == [composite |-> TRUE, length |-> 0, endless |-> FALSE,
                        sections |-> ss, repeat |-> n]
        section(bank, index, repeat, delay, duration) ==
            [amplitude |-> 75, index |-> index, bank |-> bank, repeat |-> repeat,
             delay |-> delay, duration |-> duration]
    IN  [RAM |-> <<wave(3, FALSE), wave(0, TRUE), wave(2^21, FALSE),
                   nest(<<section("RAM", 1, 255, 0, 0), section("ROM", 1, 1, 2, 1)>>, 0),
                   nest(<<section("RAM", 4, 0, 0, 0)>>, 0)>>,
         ROM |-> <<wave(5, FALSE),
                   nest(<<section("RAM", 1, 0, 1, 0), section("RAM", 0, 1, 1, 0)>>, 0),
                   nest(<<section("RAM", 1, 0, 0, 0)>>, 1)>>]

Composite == INSTANCE Cs40l26Composite WITH Tables <- {WaveTable}

ASSUME ServicesAssumption ==
    /\ Mbox!MboxAssumption /\ Pm!PmAssumption
    /\ Wseq!WseqAssumption /\ Calib!CalibAssumption /\ Chunk!MemchunkAssumption
    /\ Composite!CompositeAssumption /\ Asp!AspAssumption /\ Config!ConfigAssumption /\ Config!AttributesAssumption

Parts == {"mbox", "pm", "wseq", "calib", "chunk", "asp", "config", "composite"}

mbox_vars == <<calm, mem, wt, rd, full, stops, sent, handled, attn, mbox_pc, read_ptr,
               write_ptr, val>>
pm_vars == <<pm_state, allow_hibernate_sent, pm_pc, attempts, mbox, dsp_state, dsp_lock,
             pm_plays, broken>>
wseq_vars == <<memory, rom, params, failed, intact, wanted>>
calib_vars == <<calib_fw, at, kind, cont, jobs, done_queue, alone, reported>>
chunk_vars == <<phase, chunk, fields, results>>
asp_vars == <<haptics, effects_in_flight, asp_enable, vibe_state, refclk_input, i2s_cont, gain_pct,
              gain_tmp, scaling_applied, gain_work, irq, audio, pll, refclk, asp_attn, ring,
              playing, i2s, user_gain, set_calmly>>
config_vars == <<setting, revision, tree, unit, comp, stored, bound, configured, cut, sel, waves>>
composite_vars == <<owt_tables, user, upload>>
vars == <<part, mbox_vars, pm_vars, wseq_vars, calib_vars, chunk_vars, asp_vars, config_vars,
          composite_vars>>

(* The initial states of the services that are not exercised are all the same
   to the one that is. *)
Init ==
    /\ part \in Parts
    /\ Mbox!Init /\ (part # "mbox" => wt = 0 /\ calm)
    /\ Pm!Init
    /\ Wseq!Init /\ (part # "wseq" => rom)
    /\ Calib!Init /\ (part # "calib" => calib_fw /\ kind = [u \in Users |-> "F0_AND_Q"])
    /\ Chunk!Init
    /\ Asp!Init /\ (part # "asp" => haptics)
    /\ Config!AttributesInit
    /\ Composite!Init
    /\ part # "config" => setting = "gpio" /\ revision = "b2" /\ tree = "rom"

Others(p) ==
    /\ part = p /\ UNCHANGED part
    /\ IF p = "mbox" THEN TRUE ELSE UNCHANGED mbox_vars
    /\ IF p = "pm" THEN TRUE ELSE UNCHANGED pm_vars
    /\ IF p = "wseq" THEN TRUE ELSE UNCHANGED wseq_vars
    /\ IF p = "calib" THEN TRUE ELSE UNCHANGED calib_vars
    /\ IF p = "chunk" THEN TRUE ELSE UNCHANGED chunk_vars
    /\ IF p = "asp" THEN TRUE ELSE UNCHANGED asp_vars
    /\ IF p = "config" THEN TRUE ELSE UNCHANGED config_vars
    /\ IF p = "composite" THEN TRUE ELSE UNCHANGED composite_vars

Next ==
    \/ part = "mbox" /\ Mbox!Next /\ Others("mbox")
    \/ part = "pm" /\ Pm!Next /\ Others("pm")
    \/ part = "wseq" /\ Wseq!Next /\ Others("wseq")
    \/ part = "calib" /\ Calib!Next /\ Others("calib")
    \/ part = "chunk" /\ Chunk!Next /\ Others("chunk")
    \/ part = "asp" /\ Asp!Next /\ Others("asp")
    \/ part = "config" /\ Config!AttributesNext /\ Others("config")
    \/ part = "composite" /\ Composite!Next /\ Others("composite")

(* The interrupt thread of Cs40l26Mbox is scheduled; so are the threads of Cs40l26Asp,
   whose DSP ends what it began. *)
Spec ==
    /\ Init /\ [][Next]_vars
    /\ WF_vars(part = "mbox" /\ Mbox!Handler /\ Others("mbox"))
    /\ WF_vars(part = "asp" /\ Asp!Codec /\ Others("asp"))
    /\ WF_vars(part = "asp" /\ Asp!SetGainWork /\ Others("asp"))
    /\ WF_vars(part = "asp" /\ Asp!Irq /\ Others("asp"))
    /\ WF_vars(part = "asp" /\ Asp!DspComplete /\ Others("asp"))
    /\ WF_vars(part = "asp" /\ Asp!DspStartsI2s /\ Others("asp"))

--------------------------------------------------------------------------------
(* The state of every service is well formed. *)
TypeOK ==
    /\ part \in Parts
    /\ Mbox!TypeOK /\ Pm!TypeOK /\ Wseq!TypeOK /\ Calib!TypeOK /\ Chunk!TypeOK
    /\ Asp!TypeOK /\ Config!AttributesTypeOK /\ Composite!TypeOK

(* Messages of Cs40l26Mbox are dispatched once and in order, and fields of ClDspMemchunk
   are read back as written; in Cs40l26Attributes, a wave's braking time is found among
   the others' words, and memory was had for all sources that are shown; a composite of
   Cs40l26Composite is played as it was composed, and as long as it says. *)
DataIntact ==
    /\ Mbox!InOrder /\ Chunk!RoundTrip /\ Config!BrakingShown /\ Config!SourcesAllocated
    /\ Composite!PlaysAsComposed

(* Cs40l26Wseq: the chip replays what the driver asked for, and a cleared list is
   the ROM's.  Cs40l26Attributes: what is replayed, and what the DSP's words hold,
   is what the device tree and the stores asked for. *)
ReplaysAsked == Wseq!Replays /\ Wseq!ClearedToRom /\ Config!InForce

(* A chip in use does not hibernate (Cs40l26Pm); a request of Cs40l26Calib that succeeds
   was carried out, and one whose end was reported does not time out. *)
RequestsMet == Pm!InUseAwake /\ Calib!Truthful /\ Calib!Heard

(* Cs40l26Asp: without effects, the PLL is left as it was found; a gain set between
   streams is honoured; and the wait for a stream will be woken. *)
StreamsSound == Asp!PllRestoredAlone /\ Asp!GainHonoured /\ Asp!StartWillWake

(* All messages of Cs40l26Mbox are dispatched, if nothing stands in the way; a stream
   of Cs40l26Asp comes back after effects. *)
ServicesEnd == Mbox!Drained /\ (part = "asp" => Asp!StreamResumes)

================================================================================
