---------------------------- MODULE Cs40l26Calib ----------------------------
(***************************************************************************)
(* Calibration of the CS40L26: writers of trigger_calibration ask the DSP   *)
(* for a measurement, one completion per kind of measurement tells them of  *)
(* its end, and they give up after a time.  A measurement that was given up *)
(* goes on and is reported all the same.                                   *)
(***************************************************************************)
EXTENDS Integers, Sequences, FiniteSets

CONSTANTS
    Users,              \* writers of trigger_calibration
    Kinds,              \* what they ask for
    MaxJobs             \* bound: measurements asked for and not yet reported

CalibAssumption == MaxJobs \in Nat /\ "nobody" \notin Users

VARIABLES
    calib_fw,           \* the calibration firmware is loaded
    at,                 \* where a user is
    kind,               \* calibration_request_payload
    cont,               \* cal_f0_cont, cal_redc_cont, ...: completions not yet consumed
    jobs,               \* DSP: measurements it has to make, and for whom
    queue,              \* DSP: DONE messages not yet read
    alone,              \* no other request of that kind was outstanding meanwhile
    reported            \* the end of the user's own measurement was reported

vars == <<calib_fw, at, kind, cont, jobs, queue, alone, reported>>

Job == [kind : Kinds, user : Users \cup {"nobody"}]

TypeOK ==
    /\ calib_fw \in BOOLEAN
    /\ at \in [Users -> {"idle", "checked", "waiting", "done", "copy", "ok", "etime", "error"}]
    /\ kind \in [Users -> Kinds]
    /\ cont \in [Kinds -> Nat]
    /\ jobs \in Seq(Job) /\ queue \in Seq(Job)
    /\ Len(jobs) + Len(queue) <= MaxJobs
    /\ alone \in [Users -> BOOLEAN] /\ reported \in [Users -> BOOLEAN]

Init ==
    /\ calib_fw \in BOOLEAN
    /\ at = [u \in Users |-> "idle"]
    /\ kind \in [Users -> Kinds]
    /\ cont = [k \in Kinds |-> 0]
    /\ jobs = <<>> /\ queue = <<>>
    /\ alone = [u \in Users |-> FALSE] /\ reported = [u \in Users |-> FALSE]

Outstanding(k) == {i \in 1 .. Len(jobs) : jobs[i].kind = k}
Unread(k) == {i \in 1 .. Len(queue) : queue[i].kind = k}

Waiting(u) == at[u] = "waiting"
Goes(u, place) == at' = [at EXCEPT ![u] = place]

(* A request nobody waits for any more. *)
Abandoned(list, u) ==
    [i \in DOMAIN list |-> IF list[i].user = u THEN [list[i] EXCEPT !.user = "nobody"] ELSE list[i]]

--------------------------------------------------------------------------------
(* trigger_calibration_store: calib_fw is looked at without the lock. *)
Store(u) ==
    /\ at[u] \notin {"checked", "waiting", "copy"} /\ calib_fw
    /\ \E k \in Kinds : kind' = [kind EXCEPT ![u] = k]
    /\ Goes(u, "checked")
    /\ UNCHANGED <<calib_fw, cont, jobs, queue, alone, reported>>

(* MUTANT of Reinit: an end that came too late for an earlier request is kept. *)
ReinitNot(k) == UNCHANGED cont

Reinit(k) == cont' = [cont EXCEPT ![k] = 0]

(* Under the lock, which the interrupt handler takes as well: the completion is
   prepared and the command written.  Other firmware ignores it; a command that
   the DSP does not acknowledge in time it may have taken nevertheless. *)
Send(u) ==
    /\ at[u] = "checked"
    /\ Len(jobs) + Len(queue) < MaxJobs
    /\ Reinit(kind[u])
    /\ LET first == /\ Outstanding(kind[u]) \cup Unread(kind[u]) = {}
                    /\ \A v \in Users : Waiting(v) => kind[v] # kind[u] IN
       \/ /\ Goes(u, "waiting")
          /\ jobs' = IF calib_fw THEN Append(jobs, [kind |-> kind[u], user |-> u]) ELSE jobs
          /\ alone' = [v \in Users |-> IF v = u THEN first
                                      ELSE alone[v] /\ kind[v] # kind[u]]
       \/ /\ Goes(u, "error")
          /\ jobs' \in {jobs, Append(jobs, [kind |-> kind[u], user |-> "nobody"])}
          /\ alone' = [v \in Users |-> v # u /\ alone[v] /\ kind[v] # kind[u]]
    /\ reported' = [reported EXCEPT ![u] = FALSE]
    /\ UNCHANGED <<calib_fw, kind, queue>>

(* wait_for_completion_timeout *)
Wake(u) ==
    /\ Waiting(u) /\ cont[kind[u]] > 0
    /\ cont' = [cont EXCEPT ![kind[u]] = @ - 1]
    /\ Goes(u, IF kind[u] = "F0_AND_Q" THEN "copy" ELSE "ok")
    /\ jobs' = Abandoned(jobs, u) /\ queue' = Abandoned(queue, u)
    /\ UNCHANGED <<calib_fw, kind, alone, reported>>

TimesOut(u) ==
    /\ Waiting(u) /\ cont[kind[u]] = 0
    /\ Goes(u, "etime")
    /\ jobs' = Abandoned(jobs, u) /\ queue' = Abandoned(queue, u)
    /\ UNCHANGED <<calib_fw, kind, cont, alone, reported>>

(* cs40l26_copy_f0_est_to_dvl *)
Copy(u) ==
    /\ at[u] = "copy"
    /\ \E result \in {"ok", "error"} : Goes(u, result)
    /\ UNCHANGED <<calib_fw, kind, cont, jobs, queue, alone, reported>>

(* The DSP finishes a measurement; which one first is its own affair. *)
Finish ==
    /\ \E i \in 1 .. Len(jobs) :
         /\ queue' = Append(queue, jobs[i])
         /\ jobs' = SubSeq(jobs, 1, i - 1) \o SubSeq(jobs, i + 1, Len(jobs))
    /\ UNCHANGED <<calib_fw, at, kind, cont, alone, reported>>

(* MUTANT of Completes: every message is taken for one of the same kind. *)
CompletesFirst(k) == CHOOSE j \in Kinds : TRUE

(* cs40l26_handle_mbox_buffer: which completion a message is for; also that of
   a measurement that failed (LS_CALIBRATION_ERROR). *)
Completes(k) == k

Irq ==
    /\ queue # <<>>
    /\ LET job == Head(queue) IN
       /\ cont' = [cont EXCEPT ![Completes(job.kind)] = @ + 1]
       /\ reported' = [u \in Users |-> reported[u] \/ job.user = u]
    /\ queue' = Tail(queue)
    /\ UNCHANGED <<calib_fw, at, kind, jobs, alone>>

(* swap_firmware_store: what the DSP was doing is lost. *)
SwapFirmware ==
    /\ calib_fw' \in BOOLEAN
    /\ jobs' = <<>> /\ queue' = <<>>
    /\ UNCHANGED <<at, kind, cont, alone, reported>>

Next ==
    \/ \E u \in Users : Store(u) \/ Send(u) \/ Wake(u) \/ TimesOut(u) \/ Copy(u)
    \/ Finish \/ Irq \/ SwapFirmware

Spec == Init /\ [][Next]_vars

--------------------------------------------------------------------------------
(* A request that succeeds was carried out, not an earlier one of its kind
   whose end came after it was given up: reinit_completion precedes the
   command.  (No other request of its kind was under way when it was sent, or
   sent before it returned; then the ends cannot be told apart.) *)
Truthful ==
    \A u \in Users : (at[u] \in {"copy", "ok"} /\ alone[u]) => reported[u]

(* A request whose end was reported before it was given up does not time out,
   if no other one of its kind came between (a second one prepares the
   completion again and wipes what the first was to be told). *)
Heard ==
    \A u \in Users : (at[u] = "etime" /\ alone[u]) => ~reported[u]
================================================================================
