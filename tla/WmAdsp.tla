-------------------------------- MODULE WmAdsp --------------------------------
(***************************************************************************)
(* The firmware of the CS35L41's DSP and a control its file defines: what  *)
(* of the file is taken, when the firmware is loaded, kept and started,    *)
(* and what becomes of the values user space and the fast switch store.    *)
(* (snd_soc_wm_adsp/wm_adsp.c, the DAPM events and the fast switch of      *)
(* cs35l41.c)                                                              *)
(*                                                                         *)
(* Unlike the CS35L45's, a firmware stays when its stream ends, until      *)
(* halo_booted is cleared, and its memory is never switched off.  Controls *)
(* are stored one at a time, as the card serialises them.                  *)
(***************************************************************************)
CONSTANTS
    Setups,             \* "sound"; "faulty": files and the bus fail; "race"
    Mine, Other,        \* two firmwares; the control is one of Mine's
    Inputs              \* what is stored in it

WmAdspAssumption ==
    Setups \subseteq {"sound", "faulty", "race"}
    /\ Mine # Other /\ "none" \notin {Mine, Other}
    /\ Inputs \cap {"none", "zero", "firmware", "tuning", "foreign", "live", "lost"} = {}

VARIABLES
    setup,
    type, flags,        \* of the control, in the file
    tuned,              \* the tuning file has a value of it
    fw,                 \* chosen: one of Mine, Other
    preloaded, stream,  \* the preload switch; "closed", "opening", "playing"
    boot_work,          \* queued
    halo_booted, booted, running,
    ctl,                \* the control: in ctl_list, and its struct wm_coeff_ctl
    added,              \* its ALSA control: "none", "pending" in a work, "added"
    fast_switch_en,
    copying,            \* what a fast switch is in the middle of storing, or "none"
    code,               \* chip: the firmware in memory, or "none"
    mem,                \* chip: the word at the control's address
    wanted              \* what was last stored, or "none"

Fixed == <<setup, type, flags, tuned>>
User == <<preloaded, stream, added, fast_switch_en, copying, wanted>>
Dsp == <<halo_booted, booted, running, boot_work>>
Chip == <<code, mem>>
vars == <<Fixed, fw, User, Dsp, ctl, Chip>>

Types == {"BYTES", "ACKED", "HOSTEVENT", "HOST_BUFFER", "unknown"}
Flags == {"SYS", "VOLATILE", "WRITEABLE", "READABLE"}
Values == Inputs \cup {"zero", "firmware", "tuning", "foreign", "live", "lost"}

TypeOK ==
    /\ setup \in Setups /\ type \in Types /\ flags \subseteq Flags /\ tuned \in BOOLEAN
    /\ fw \in {Mine, Other} /\ stream \in {"closed", "opening", "playing"}
    /\ {preloaded, boot_work, halo_booted, booted, running, fast_switch_en} \subseteq BOOLEAN
    /\ ctl \in [listed : BOOLEAN, enabled : BOOLEAN, set : BOOLEAN, cache : Values]
    /\ added \in {"none", "pending", "added"} /\ copying \in Inputs \cup {"none"}
    /\ code \in {Mine, Other, "none"} /\ mem \in Values /\ wanted \in Inputs \cup {"none"}

(* cs35l41_dsp_init, wm_halo_init, wm_adsp_common_init, wm_adsp2_component_probe *)
Init ==
    /\ setup \in Setups /\ type \in Types /\ flags \in SUBSET Flags /\ tuned \in BOOLEAN
    /\ fw = Mine /\ preloaded = FALSE /\ stream = "closed" /\ boot_work = FALSE
    /\ halo_booted = FALSE /\ booted = FALSE /\ running = FALSE
    /\ ctl = [listed |-> FALSE, enabled |-> FALSE, set |-> FALSE, cache |-> "zero"]
    /\ added = "none" /\ fast_switch_en = FALSE /\ copying = "none"
    /\ code = "none" /\ mem = "lost" /\ wanted = "none"

--------------------------------------------------------------------------------
(* wm_adsp_parse_coeff: what a control of each type must have *)
Required(t) ==
    CASE t = "ACKED" -> {"VOLATILE", "WRITEABLE", "READABLE"}
      [] t = "HOSTEVENT" -> Flags
      [] t = "HOST_BUFFER" -> {"SYS", "VOLATILE", "READABLE"}
      [] OTHER -> {}

(* ... an acked one of the system is passed over, *)
Ignored == type = "ACKED" /\ "SYS" \in flags

(* ... and anything else spoils the file (wm_adsp_check_coeff_flags). *)
Refused == ~Ignored /\ (type = "unknown" \/ ~(Required(type) \subseteq flags))

(* wm_adsp_create_control: a control that is known keeps what it had. *)
Created ==
    IF fw = Mine /\ ~Ignored THEN [ctl EXCEPT !.listed = TRUE, !.enabled = TRUE] ELSE ctl

(* ... and the card is told of a new one by a work. *)
Announced ==
    IF Created.listed /\ ~ctl.listed /\ "SYS" \notin flags THEN "pending" ELSE added

(* wm_adsp_load: the file's regions, *)
Loaded == IF fw = Other THEN "foreign" ELSE "firmware"

(* wm_adsp_load_coeff: then the tuning of the algorithms that wm_halo_setup_algs finds *)
Tuned == IF fw = Mine /\ tuned THEN "tuning" ELSE Loaded

(* MUTANT of Cached: what the user has set is read as well. *)
CachedAll(c) == IF c.enabled /\ "READABLE" \in flags THEN [c EXCEPT !.cache = Tuned] ELSE c

(* wm_coeff_init_control_caches *)
Cached(c) ==
    IF c.enabled /\ ~c.set /\ (flags = {} \/ ("READABLE" \in flags /\ "VOLATILE" \notin flags))
    THEN [c EXCEPT !.cache = Tuned] ELSE c

(* wm_adsp_boot_work, in the middle of a fast switch in a race only *)
BootWork ==
    /\ boot_work /\ boot_work' = FALSE /\ (copying # "none" => setup = "race")
    /\ \/ /\ fw = Mine => ~Refused
          /\ ctl' = Cached(Created) /\ added' = Announced
          /\ code' = fw /\ mem' = Tuned /\ booted' = TRUE
       \/ /\ setup = "faulty" \/ (fw = Mine /\ Refused)   \* booted stays what it was
          /\ \/ UNCHANGED <<ctl, added>>
             \/ ~Refused /\ ctl' = Created /\ added' = Announced
          /\ code' = "none" /\ mem' = "lost" /\ UNCHANGED booted
    /\ UNCHANGED <<Fixed, fw, preloaded, stream, halo_booted, running, fast_switch_en, copying,
                   wanted>>

(* cs35l41_dsp_power_ev, PRE_PMU: wm_adsp_early_event queues the work, unless the firmware
   is taken to be there. *)
PowerEvPmu ==
    /\ booted' = (halo_booted \/ booted) /\ boot_work' = ~halo_booted
    /\ UNCHANGED <<halo_booted, running, ctl>>

(* MUTANT of PowerEvPmd: the controls stay enabled. *)
PowerEvPmdEnabled ==
    /\ IF halo_booted THEN UNCHANGED <<booted, running, ctl>>
       ELSE booted' = FALSE /\ running' = FALSE /\ UNCHANGED ctl
    /\ UNCHANGED <<halo_booted, boot_work>>

(* PRE_PMD: wm_adsp_early_event disables the controls before wm_adsp_event would tell those
   of type HOSTEVENT that the firmware is shut down. *)
PowerEvPmd ==
    /\ IF halo_booted THEN UNCHANGED <<booted, running, ctl>>
       ELSE booted' = FALSE /\ running' = FALSE /\ ctl' = [ctl EXCEPT !.enabled = FALSE]
    /\ UNCHANGED <<halo_booted, boot_work>>

(* wm_coeff_write_ctrl_raw: whatever is at the address is overwritten. *)
Raw(v) == IF code = "none" THEN mem ELSE v

(* wm_coeff_sync_controls *)
Synced ==
    IF ctl.enabled /\ ctl.set /\ "VOLATILE" \notin flags THEN Raw(ctl.cache) ELSE mem

(* cs35l41_dsp_load_ev and wm_adsp_event, POST_PMU: controls are written to what was booted
   before it starts; halo_booted is set though nothing was. *)
DspLoadEv ==
    /\ halo_booted' = TRUE
    /\ \/ ~halo_booted /\ booted /\ mem' = Synced /\ running' = TRUE
       \/ (halo_booted \/ ~booted) /\ UNCHANGED <<mem, running>>
       \/ setup = "faulty" /\ ~halo_booted /\ mem' \in {mem, Synced} /\ UNCHANGED running
    /\ UNCHANGED <<booted, boot_work, ctl, code>>

--------------------------------------------------------------------------------
(* What waits for the boot work (flush_work) and for other stores *)
Idle == ~boot_work /\ copying = "none"

(* A stream through the DSP powers "DSP1 Preloader", *)
StreamOpen ==
    /\ stream = "closed" /\ ~boot_work /\ stream' = "opening"
    /\ IF preloaded THEN UNCHANGED <<Dsp, ctl>> ELSE PowerEvPmu
    /\ UNCHANGED <<Fixed, fw, preloaded, added, fast_switch_en, copying, wanted, Chip>>

(* then "DSP1", *)
StreamStart ==
    /\ stream = "opening" /\ ~boot_work /\ stream' = "playing"
    /\ DspLoadEv
    /\ UNCHANGED <<Fixed, fw, preloaded, added, fast_switch_en, copying, wanted>>

(* and lets go of both. *)
StreamClose ==
    /\ stream = "playing" /\ stream' = "closed"
    /\ IF preloaded THEN UNCHANGED <<Dsp, ctl>> ELSE PowerEvPmd
    /\ UNCHANGED <<Fixed, fw, preloaded, added, fast_switch_en, copying, wanted, Chip>>

(* wm_adsp2_preloader_put *)
PreloaderPut ==
    /\ Idle /\ preloaded' = ~preloaded
    /\ CASE stream # "closed" -> UNCHANGED <<Dsp, ctl>>
         [] preloaded -> PowerEvPmd
         [] OTHER -> PowerEvPmu
    /\ UNCHANGED <<Fixed, fw, stream, added, fast_switch_en, copying, wanted, Chip>>

(* wm_adsp_fw_put: refused while a firmware is booted; a work that is queued boots another. *)
FwPut ==
    /\ copying = "none" /\ ~booted /\ \E f \in {Mine, Other} \ {fw} : fw' = f
    /\ UNCHANGED <<Fixed, User, Dsp, ctl, Chip>>

(* cs35l41_halo_booted_put: 0 has the firmware loaded again; 1, that it is there, may be
   wrong. *)
HaloBootedPut ==
    /\ copying = "none" /\ halo_booted' \in {FALSE} \cup {b \in BOOLEAN : setup = "race"}
    /\ UNCHANGED <<Fixed, fw, User, booted, running, boot_work, ctl, Chip>>

(* cs35l41_amp_reset_put between streams: the chip forgets its firmware, and the driver
   loads it again if it is preloaded. *)
AmpResetPut ==
    /\ Idle /\ stream = "closed" /\ halo_booted' = FALSE /\ code' = "none" /\ mem' = "lost"
    /\ \/ /\ preloaded /\ booted' = FALSE /\ running' = FALSE /\ boot_work' = TRUE
          /\ ctl' = [ctl EXCEPT !.enabled = FALSE]
       \/ /\ ~preloaded \/ setup = "faulty"      \* a chip that does not boot is given up
          /\ UNCHANGED <<booted, running, boot_work, ctl>>
    /\ UNCHANGED <<Fixed, fw, User>>

--------------------------------------------------------------------------------
(* wm_adsp_ctl_work, wmfw_add_ctl; an error is nobody's. *)
CtlWork ==
    /\ added = "pending"
    /\ added' = "added" \/ (setup = "faulty" /\ added' = "none")
    /\ UNCHANGED <<Fixed, fw, preloaded, stream, fast_switch_en, copying, wanted, Dsp, ctl, Chip>>

(* wm_coeff_write_ctrl: a volatile control is refused, marked and written. *)
Store(v) == IF "VOLATILE" \in flags THEN ctl.cache ELSE v
Written(v) == IF ctl.enabled /\ running THEN Raw(v) ELSE mem
Wanted(v) == IF "VOLATILE" \in flags THEN "none" ELSE v

(* wm_coeff_put, wm_coeff_tlv_put, by what wmfw_convert_flags allows *)
Put ==
    /\ added = "added" /\ copying = "none" /\ type = "BYTES"
    /\ flags = {} \/ "WRITEABLE" \in flags
    /\ \E v \in Inputs :
          /\ ctl' = [ctl EXCEPT !.cache = Store(v), !.set = TRUE]
          /\ mem' = Written(v) /\ wanted' = Wanted(v)
    /\ UNCHANGED <<Fixed, fw, preloaded, stream, added, fast_switch_en, copying, Dsp, code>>

(* wm_coeff_tlv_put: what cannot be copied has spoilt the cache, and is not written. *)
TlvPutFails ==
    /\ added = "added" /\ copying = "none" /\ type = "BYTES" /\ setup = "faulty"
    /\ \E v \in Inputs : ctl' = [ctl EXCEPT !.cache = v]
    /\ UNCHANGED <<Fixed, fw, User, Dsp, Chip>>

(* wm_coeff_put_acked, wm_coeff_write_acked_control: the DSP clears the word in time, or not. *)
PutAcked ==
    /\ added = "added" /\ copying = "none" /\ type = "ACKED" /\ ctl.enabled /\ running
    /\ code # "none" /\ mem' \in {"zero"} \cup Inputs
    /\ UNCHANGED <<Fixed, fw, User, Dsp, ctl, code>>

(* wm_coeff_read_ctrl *)
ReadCtrl ==
    CASE "VOLATILE" \in flags -> IF ctl.enabled /\ running THEN mem ELSE "error"
      [] flags = {} /\ ctl.enabled /\ running -> mem
      [] OTHER -> ctl.cache

(* wm_coeff_get, wm_coeff_tlv_get: what is read stays in the cache, if there are no flags. *)
Get ==
    /\ added = "added" /\ copying = "none" /\ flags = {}
    /\ ctl' = [ctl EXCEPT !.cache = ReadCtrl]
    /\ wanted' = IF ReadCtrl = ctl.cache THEN wanted ELSE "none"
    /\ UNCHANGED <<Fixed, fw, preloaded, stream, added, fast_switch_en, copying, Dsp, Chip>>

(* cs35l41_fast_switch_en_put, cs35l41_do_fast_switch and wm_adsp_write_ctl, which take no
   lock: the file's values are copied into the cache of CSPL_UPDATE_PARAMS_CONFIG, *)
FastSwitchPut ==
    /\ ~fast_switch_en /\ copying = "none"
    /\ \/ /\ type = "BYTES" /\ ctl.listed /\ fw = Mine     \* wm_adsp_get_ctl
          /\ \E v \in Inputs : copying' = v /\ ctl' = [ctl EXCEPT !.cache = Store(v)]
          /\ UNCHANGED fast_switch_en
       \/ /\ type # "BYTES" \/ ~ctl.listed \/ fw # Mine \/ setup = "faulty"
          /\ fast_switch_en' = TRUE /\ UNCHANGED <<copying, ctl>>
    /\ UNCHANGED <<Fixed, fw, preloaded, stream, added, wanted, Dsp, Chip>>

(* marked as set, and written while the firmware runs; then the firmware is told. *)
FastSwitchWritten ==
    /\ copying # "none" /\ copying' = "none" /\ fast_switch_en' = TRUE
    /\ ctl' = [ctl EXCEPT !.set = TRUE] /\ mem' = Written(copying) /\ wanted' = Wanted(copying)
    /\ UNCHANGED <<Fixed, fw, preloaded, stream, added, Dsp, code>>

FastSwitchOff ==
    /\ fast_switch_en /\ fast_switch_en' = FALSE
    /\ UNCHANGED <<Fixed, fw, preloaded, stream, added, copying, wanted, Dsp, ctl, Chip>>

(* The firmware changes what is its own to change. *)
DspRuns ==
    /\ running /\ code = Mine /\ (flags = {} \/ "VOLATILE" \in flags) /\ mem' = "live"
    /\ UNCHANGED <<Fixed, fw, User, Dsp, ctl, code>>

Next ==
    \/ BootWork \/ StreamOpen \/ StreamStart \/ StreamClose \/ PreloaderPut
    \/ FwPut \/ HaloBootedPut \/ AmpResetPut \/ CtlWork \/ Put \/ TlvPutFails
    \/ PutAcked \/ Get \/ FastSwitchPut \/ FastSwitchWritten \/ FastSwitchOff \/ DspRuns

Spec == Init /\ [][Next]_vars

--------------------------------------------------------------------------------
(* However a firmware is loaded, kept, started, reset and chosen (nothing failing or
   racing): what was stored last in a parameter is what a read shows and what a stream is
   processed with; one that was never stored reads as the firmware and its tuning have it. *)
ControlsTrue ==
    setup = "sound" /\ copying = "none" /\ type = "BYTES" /\ flags # {} /\ "VOLATILE" \notin flags =>
        /\ wanted # "none" => ReadCtrl = wanted
        /\ stream = "playing" /\ running /\ ctl.enabled =>
             IF wanted # "none" THEN mem = wanted
             ELSE "READABLE" \in flags => ReadCtrl = mem

(* A control is not written to a firmware that does not have it. *)
ForeignUntouched == setup = "sound" /\ code = Other => mem = "foreign" /\ ~ctl.enabled
==============================================================================
