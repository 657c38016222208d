--------------------------------- MODULE CsDsp ---------------------------------
(***************************************************************************)
(* The firmware of the CS35L45's DSP and a control it defines: chosen,     *)
(* preloaded, run, stopped; the control's cache is kept over all of it and *)
(* written to the DSP whenever the DSP starts.  (cs_dsp.c, the controls of *)
(* cs35l45/wm_adsp.c and the DAPM events of cs35l45.c)                     *)
(*                                                                         *)
(* Control stores are serialised by the card, and the preload switch waits *)
(* for the boot work.                                                      *)
(***************************************************************************)
CONSTANTS
    Setups,             \* "sound", or "faulty": files are missing or broken, the bus fails
    Mine, Other,        \* two firmwares; the control is one of Mine's
    Inputs              \* what is stored in it

CsDspAssumption ==
    Setups \subseteq {"sound", "faulty"}
    /\ Mine # Other /\ "none" \notin {Mine, Other}
    /\ Inputs \cap {"none", "zero", "firmware", "tuning", "foreign", "live", "lost"} = {}

VARIABLES
    setup,
    kind,               \* the control's flags: see Kinds
    tuned,              \* the tuning file has a value of it
    fw,                 \* chosen: one of Mine, Other
    preload,            \* pin "DSP1 Preload"
    dsp1,               \* pin "DSP1"
    booted, running,
    listed, enabled, set, cache,    \* the control: in ctl_list, and its struct cs_dsp_coeff_ctl
    code,               \* chip: the firmware in memory, or "none"
    mem,                \* chip: the word at the control's address
    wanted              \* what was last stored, or "none"

vars == <<setup, kind, tuned, fw, preload, dsp1, booted, running, listed, enabled, set, cache,
          code, mem, wanted>>

(* Flags: readable and writeable; writeable; none (the first file format's); volatile. *)
Kinds == {"param", "writeable", "legacy", "volatile"}
Values == Inputs \cup {"zero", "firmware", "tuning", "foreign", "live", "lost"}
Firmware == {Mine, Other}
Fixed == <<setup, kind, tuned>>
Chip == <<code, mem>>

TypeOK ==
    /\ setup \in Setups /\ kind \in Kinds /\ tuned \in BOOLEAN /\ fw \in Firmware
    /\ preload \in BOOLEAN /\ dsp1 \in BOOLEAN /\ booted \in BOOLEAN /\ running \in BOOLEAN
    /\ listed \in BOOLEAN /\ enabled \in BOOLEAN /\ set \in BOOLEAN
    /\ cache \in Values /\ code \in Firmware \cup {"none"} /\ mem \in Values
    /\ wanted \in Inputs \cup {"none"}

Init ==
    /\ setup \in Setups /\ kind \in Kinds /\ tuned \in BOOLEAN
    /\ fw = Mine /\ preload = FALSE /\ dsp1 = FALSE /\ booted = FALSE /\ running = FALSE
    /\ listed = FALSE /\ enabled = FALSE /\ set = FALSE /\ cache = "zero"
    /\ code = "none" /\ mem = "lost" /\ wanted = "none"

--------------------------------------------------------------------------------
(* wm_adsp_fw_put_v1: refused while a firmware is loaded. *)
FwPut ==
    /\ ~booted /\ \E f \in Firmware \ {fw} : fw' = f
    /\ UNCHANGED <<Fixed, preload, dsp1, booted, running, listed, enabled, set, cache, Chip, wanted>>

(* cs_dsp_load: the file's regions are written. *)
Loaded(f) == IF f = Mine THEN "firmware" ELSE "foreign"

(* cs_dsp_parse_coeff: the file describes the control, with its flags. *)
Defined(f) == f = Mine

(* cs_dsp_create_control: a control the firmware defines is added, or enabled with what it
   had. *)
Enabled(f) == enabled \/ Defined(f)

(* cs_dsp_setup_algs and cs_dsp_load_coeff: a tuning file has blocks for algorithms, which
   the firmware's list places. *)
Tuned(f) == IF f = Mine /\ tuned THEN "tuning" ELSE Loaded(f)

(* MUTANT of InitControlCaches: what the user has set is read as well. *)
InitControlCachesAll(f) ==
    IF Enabled(f) /\ kind \in {"param", "legacy"} THEN Tuned(f) ELSE cache

(* cs_dsp_coeff_init_control_caches: what the user has not set is read from the DSP. *)
InitControlCaches(f) ==
    IF Enabled(f) /\ ~set /\ kind \in {"param", "legacy"} THEN Tuned(f) ELSE cache

(* cs_dsp_power_up *)
PowerUp(f) ==
    \/ /\ enabled' = Enabled(f) /\ listed' = (listed \/ Defined(f)) /\ code' = f /\ mem' = Tuned(f)
       /\ cache' = InitControlCaches(f)
       /\ booted' = TRUE
    \/ /\ setup = "faulty"          \* it fails in the files, or the list of algorithms
       /\ enabled' \in {enabled, Enabled(f)} /\ listed' = (listed \/ enabled')
       /\ code' = "none" /\ mem' = "lost"
       /\ UNCHANGED <<cache, booted>>

(* wm_adsp2_preloader_put_v1 with 1, cs35l45_dsp_preload_ev and wm_adsp_boot_work: a
   firmware that is loaded is not loaded again.  A missing file is an error nobody sees. *)
PreloadOn ==
    /\ ~preload /\ preload' = TRUE
    /\ \/ ~booted /\ PowerUp(fw)
       \/ booted /\ UNCHANGED <<listed, enabled, Chip, cache, booted>>
       \/ setup = "faulty" /\ UNCHANGED <<listed, enabled, Chip, cache, booted>>
    /\ UNCHANGED <<Fixed, fw, dsp1, running, set, wanted>>

(* wm_adsp2_preloader_put_v1 with 0: nothing is unloaded. *)
PreloadOff ==
    /\ preload /\ preload' = FALSE
    /\ UNCHANGED <<Fixed, fw, dsp1, booted, running, listed, enabled, set, cache, Chip, wanted>>

(* cs_dsp_coeff_write_ctrl_raw: whatever is at the address is overwritten. *)
Raw(v) == IF code = "none" THEN mem ELSE v

(* MUTANT of SyncControls: controls are written when they change only. *)
SyncControlsNot == mem

(* cs_dsp_coeff_sync_controls *)
SyncControls ==
    IF enabled /\ set /\ kind # "volatile" THEN Raw(cache) ELSE mem

(* cs_dsp_run; the buffer of a stream may not be found after the core has started. *)
Run ==
    \/ mem' = SyncControls /\ running' = TRUE
    \/ setup = "faulty" /\ mem' \in {mem, SyncControls} /\ running' \in BOOLEAN

(* cs35l45_dsp_boot_put with 1, cs35l45_dsp_boot_ev and wm_adsp_event_v1 *)
BootOn ==
    /\ booted /\ ~dsp1 /\ dsp1' = TRUE
    /\ Run
    /\ UNCHANGED <<Fixed, fw, preload, booted, listed, enabled, set, cache, code, wanted>>

(* MUTANT of PowerDown: the controls stay enabled. *)
PowerDownEnabled == booted' = FALSE /\ code' = "none" /\ mem' = "lost" /\ UNCHANGED enabled

(* cs_dsp_power_down: the memory is off, and every control is disabled. *)
PowerDown == booted' = FALSE /\ enabled' = FALSE /\ code' = "none" /\ mem' = "lost"

(* With 0: wm_adsp_early_event_v1 powers the DSP down before cs_dsp_stop, which therefore
   finds no control to signal the end to. *)
BootOff ==
    /\ booted /\ dsp1 /\ dsp1' = FALSE
    /\ PowerDown /\ running' = FALSE
    /\ UNCHANGED <<Fixed, fw, preload, listed, set, cache, wanted>>

--------------------------------------------------------------------------------
(* cs_dsp_coeff_write_ctrl: also of a control that is disabled. *)
WriteCtrl(v) ==
    /\ cache' = IF kind = "volatile" THEN cache ELSE v
    /\ set' = TRUE
    /\ mem' = IF enabled /\ running THEN Raw(v) ELSE mem
    /\ wanted' = IF kind = "volatile" THEN "none" ELSE v

(* wm_coeff_put, wm_adsp_write_ctl_v1: a volatile control is not stored while it is off. *)
Put ==
    /\ listed /\ \E v \in Inputs : WriteCtrl(v)
    /\ UNCHANGED <<Fixed, fw, preload, dsp1, booted, running, listed, enabled, code>>

(* wm_coeff_tlv_put: what cannot be copied has spoilt the cache, and is not written. *)
TlvPutFails ==
    /\ listed /\ setup = "faulty" /\ \E v \in Inputs : cache' = v
    /\ UNCHANGED <<Fixed, fw, preload, dsp1, booted, running, listed, enabled, set, Chip, wanted>>

(* wm_coeff_put_acked, cs_dsp_coeff_write_acked_control: the DSP clears the word, in time
   or not. *)
PutAcked ==
    /\ enabled /\ running /\ kind = "volatile" /\ code # "none"
    /\ mem' \in {"zero"} \cup Inputs
    /\ UNCHANGED <<Fixed, fw, preload, dsp1, booted, running, listed, enabled, set, cache, code, wanted>>

(* What a read shows: cs_dsp_coeff_read_ctrl. *)
ReadCtrl ==
    IF kind = "volatile"
    THEN IF enabled /\ running THEN mem ELSE "error"
    ELSE IF kind = "legacy" /\ enabled /\ running THEN mem ELSE cache

(* wm_coeff_get *)
Get ==
    /\ listed /\ kind = "legacy" /\ cache' = ReadCtrl
    /\ wanted' = IF cache' = cache THEN wanted ELSE "none"
    /\ UNCHANGED <<Fixed, fw, preload, dsp1, booted, running, listed, enabled, set, Chip>>

(* The firmware changes what is its own to change. *)
DspRuns ==
    /\ running /\ code = Mine /\ kind \in {"legacy", "volatile"} /\ mem' = "live"
    /\ UNCHANGED <<Fixed, fw, preload, dsp1, booted, running, listed, enabled, set, cache, code, wanted>>

Next ==
    \/ FwPut \/ PreloadOn \/ PreloadOff \/ BootOn \/ BootOff
    \/ Put \/ TlvPutFails \/ PutAcked \/ Get \/ DspRuns

Spec == Init /\ [][Next]_vars

--------------------------------------------------------------------------------
(* Whatever is loaded, run, stopped and stored in which order (no load or start failing):
   what was stored last is what a read shows and what the running firmware works with;
   what was never stored reads as the firmware and its tuning have it. *)
ControlsTrue ==
    setup = "sound" /\ kind = "param" =>
        /\ wanted # "none" => ReadCtrl = wanted /\ (enabled /\ running => mem = wanted)
        /\ wanted = "none" /\ enabled => ReadCtrl = mem

(* A control is not written to a firmware that does not have it. *)
ForeignUntouched == setup = "sound" /\ code = Other => mem = "foreign" /\ ~enabled
==============================================================================
