------------------------------ MODULE Cs40l26Pm ------------------------------
(***************************************************************************)
(* Keeping the CS40L26 awake: the driver's power-management commands, the  *)
(* mailbox register that holds one of them, and the DSP that takes them in *)
(* its own time and hibernates when nothing forbids it.  Some commands wait *)
(* until the DSP has cleared the register, others do not.                  *)
(***************************************************************************)
EXTENDS Integers

CONSTANTS
    Attempts            \* CS40L26_DSP_STATE_ATTEMPTS

PmAssumption == Attempts \in Nat

VARIABLES
    pm_state,           \* the last transition made
    allow_hibernate_sent,
    pc,                 \* where cs40l26_pm_state_transition or a user is
    attempts,           \* local: i
    mbox,               \* chip: DSP_VIRTUAL1_MBOX_1
    dsp_state,          \* chip: PM_CUR_STATE
    dsp_lock,           \* chip: LOCK3 of PM_STATE_LOCKS
    plays,              \* DSP: an effect plays
    broken              \* kernel: a callback failed

chip == <<mbox, dsp_state, dsp_lock, plays>>
vars == <<pm_state, allow_hibernate_sent, pc, attempts, chip, broken>>

Commands == {"PREVENT_HIBERNATE", "ALLOW_HIBERNATE", "HE_TIME", "PLAY"}

TypeOK ==
    /\ pm_state \in {"PREVENT_HIBERNATE", "ALLOW_HIBERNATE"}
    /\ allow_hibernate_sent \in BOOLEAN /\ broken \in BOOLEAN
    /\ pc \in {"suspended", "write", "ack", "state", "lock", "in_use", "command"}
    /\ attempts \in 0 .. Attempts
    /\ mbox \in Commands \cup {"none"}
    /\ dsp_state \in {"HIBERNATE", "SHUTDOWN", "STANDBY", "ACTIVE"}
    /\ dsp_lock \in BOOLEAN /\ plays \in BOOLEAN

(* The firmware was loaded with hibernation prevented. *)
Init ==
    /\ pm_state = "PREVENT_HIBERNATE" /\ allow_hibernate_sent = FALSE
    /\ pc = "in_use" /\ attempts = 0
    /\ mbox = "none" /\ dsp_state = "STANDBY" /\ dsp_lock = TRUE
    /\ plays = FALSE /\ broken = FALSE

(* Any access wakes a chip that hibernates, if only at a later attempt
   (cs40l26_dsp_write tries again). *)
Wakes == dsp_state' = IF dsp_state = "HIBERNATE" THEN "STANDBY" ELSE dsp_state

--------------------------------------------------------------------------------
(* cs40l26_suspend: ALLOW_HIBERNATE is written and not waited for. *)
Suspend ==
    /\ pc = "in_use" /\ ~broken
    /\ mbox' = "ALLOW_HIBERNATE" /\ Wakes
    /\ allow_hibernate_sent' = TRUE
    /\ pm_state' = "ALLOW_HIBERNATE"
    /\ pc' = "suspended"
    /\ UNCHANGED <<attempts, dsp_lock, plays, broken>>

(* cs40l26_resume: PREVENT_HIBERNATE *)
Resume ==
    /\ pc = "suspended" /\ ~broken
    /\ attempts' = 0
    /\ pc' = "write"
    /\ UNCHANGED <<pm_state, allow_hibernate_sent, chip, broken>>

Write ==
    /\ pc = "write" /\ attempts < Attempts
    /\ mbox' = "PREVENT_HIBERNATE" /\ Wakes
    /\ pc' = "ack"
    /\ UNCHANGED <<pm_state, allow_hibernate_sent, attempts, dsp_lock, plays, broken>>

(* MUTANT of Acked: the command is not waited for. *)
AckedAtOnce ==
    /\ pc = "ack"
    /\ pc' = "state"
    /\ UNCHANGED <<pm_state, allow_hibernate_sent, attempts, chip, broken>>

(* cs40l26_mailbox_write polls the register until the DSP clears it. *)
Acked ==
    /\ pc = "ack" /\ mbox = "none"
    /\ pc' = "state"
    /\ UNCHANGED <<pm_state, allow_hibernate_sent, attempts, chip, broken>>

(* The command that tells how long the chip slept is not waited for. *)
Awake ==
    /\ mbox' = IF allow_hibernate_sent THEN "HE_TIME" ELSE mbox
    /\ pm_state' = "PREVENT_HIBERNATE"
    /\ pc' = "in_use"
    /\ UNCHANGED <<allow_hibernate_sent, attempts, dsp_state, dsp_lock, plays, broken>>

Retry ==
    /\ attempts' = attempts + 1
    /\ pc' = "write"
    /\ UNCHANGED <<pm_state, allow_hibernate_sent, chip, broken>>

State ==
    /\ pc = "state"
    /\ \/ dsp_state = "ACTIVE" /\ Awake
       \/ /\ dsp_state = "STANDBY"
          /\ pc' = "lock"
          /\ UNCHANGED <<pm_state, allow_hibernate_sent, attempts, chip, broken>>
       \/ dsp_state \in {"HIBERNATE", "SHUTDOWN"} /\ Retry

Lock ==
    /\ pc = "lock"
    /\ IF dsp_lock THEN Awake ELSE Retry

(* The register is never cleared in time, an access fails too often, or the
   attempts are used up ("DSP not starting"): the resume fails. *)
Fail ==
    /\ pc \in {"write", "ack", "state", "lock"}
    /\ broken' = TRUE
    /\ pc' = "suspended"
    /\ UNCHANGED <<pm_state, allow_hibernate_sent, attempts, chip>>

(* A user of the chip starts an effect and waits for the acknowledgement. *)
Play ==
    /\ pc = "in_use"
    /\ mbox' = "PLAY" /\ Wakes
    /\ pc' = "command"
    /\ UNCHANGED <<pm_state, allow_hibernate_sent, attempts, dsp_lock, plays, broken>>

Played ==
    /\ pc = "command" /\ mbox = "none"
    /\ pc' = "in_use"
    /\ UNCHANGED <<pm_state, allow_hibernate_sent, attempts, chip, broken>>

--------------------------------------------------------------------------------
(* The DSP takes what is in the register. *)
Take ==
    /\ mbox # "none" /\ dsp_state \in {"STANDBY", "ACTIVE"}
    /\ mbox' = "none"
    /\ dsp_lock' = IF mbox = "PREVENT_HIBERNATE" THEN TRUE
                   ELSE IF mbox = "ALLOW_HIBERNATE" THEN FALSE ELSE dsp_lock
    /\ plays' = (plays \/ mbox = "PLAY")
    /\ dsp_state' = IF mbox = "PLAY" THEN "ACTIVE" ELSE dsp_state
    /\ UNCHANGED <<pm_state, allow_hibernate_sent, pc, attempts, broken>>

(* An effect ends; an idle DSP goes to sleep in stages, unless it is locked. *)
Sleep ==
    /\ \/ plays /\ plays' = FALSE /\ UNCHANGED dsp_state
       \/ /\ dsp_state = "ACTIVE" /\ ~plays
          /\ dsp_state' = "STANDBY" /\ UNCHANGED plays
       \/ /\ dsp_state \in {"STANDBY", "SHUTDOWN"} /\ ~dsp_lock /\ mbox = "none"
          /\ dsp_state' \in {"SHUTDOWN", "HIBERNATE"} \ {dsp_state}
          /\ UNCHANGED plays
    /\ UNCHANGED <<pm_state, allow_hibernate_sent, pc, attempts, mbox, dsp_lock, broken>>

Driver == Resume \/ Write \/ Acked \/ State \/ Lock \/ Fail \/ Suspend \/ Play \/ Played

Next == Driver \/ Take \/ Sleep

Spec == Init /\ [][Next]_vars

--------------------------------------------------------------------------------
(* A chip that is in use does not hibernate: the DSP has taken
   PREVENT_HIBERNATE before cs40l26_resume returns, so that the HE_TIME that
   follows unawaited cannot overwrite it, nor an ALLOW_HIBERNATE be left over. *)
InUseAwake ==
    pc \in {"in_use", "command"} =>
        dsp_lock /\ dsp_state # "HIBERNATE" /\ mbox # "ALLOW_HIBERNATE"
================================================================================
