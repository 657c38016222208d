---------------------------- MODULE Tas25xxCalib ----------------------------
(***************************************************************************)
(* What the sysfs attributes of the TAS25xx's smart-amp algorithm do with  *)
(* two speakers: the work that measures their resistance for calibration,  *)
(* the work that validates them, the calibration the user stores and a     *)
(* stream's start sends to the DSP, and the statistics a stream's end      *)
(* reads back.  The works, the streams and the user are threads that share *)
(* this state without a lock.  The DSP's answers are external.             *)
(***************************************************************************)
EXTENDS Integers, FiniteSetsExt

CONSTANTS
    CalibSetups,  \* what a behaviour exercises, of those in SetupsKnown
    Rounds,       \* CALIB_RETRY_COUNT
    Measured,     \* resistances the DSP may answer
    RdcRange,     \* those within the range it gives
    Ohms,         \* whole ohms the user stores
    Requests,     \* a bound: what the user asks for in a behaviour
    AccessFaults  \* a bound: accesses of the DSP that fail

MAX_CHANNELS == 2
Speakers == 1 .. MAX_CHANNELS
SetupsKnown == {"calibration", "validation", "streams", "statistics", "rounding"}

CalibAssumption ==
    /\ CalibSetups \subseteq SetupsKnown
    /\ Rounds \in Nat \ {0} /\ Requests \in Nat /\ AccessFaults \in Nat
    /\ Measured \subseteq Nat \ {0} /\ RdcRange \subseteq Measured /\ Ohms \subseteq 0..80

VARIABLES
    use,        \* what this behaviour exercises
    calib,      \* calibration_status, calibration_result, calib_re_hold and calib_work
    prepared,   \* the blocks that prepare the chips for calibration were written last
    valid,      \* validation_running_status, validation_result and valid_work
    user,       \* calib_re, amb_temp and calib_update, and what was stored since a start
    stream,     \* s_algo_running and what a start still has to send
    stats,      \* exc_max and exc_max_persist of a speaker, a show between its steps
    dsp,        \* per speaker: modes and parameters
    asked, failed,
    again,      \* a work was asked for while it was under way
    seen        \* what the DSP answered, and what the shows have not covered

vars == <<use, calib, prepared, valid, user, stream, stats, dsp, asked, failed, again, seen>>

All(v) == [s \in Speakers |-> v]
Results == {"none", "success", "fail"}

Init ==
    /\ use \in CalibSetups
    /\ calib = [status |-> FALSE, result |-> All("none"), hold |-> All(0),
                pending |-> FALSE, at |-> "idle", round |-> 1, ch |-> 1, re |-> All(0)]
    /\ valid = [running |-> FALSE, result |-> All("none"), pending |-> FALSE, at |-> "idle",
                ch |-> 1, store |-> 0]
    /\ prepared = FALSE
    /\ user = [re |-> All(0), temp |-> All(0), update |-> All(FALSE), since |-> {}]
    /\ stream = [running |-> FALSE, at |-> "stopped", ch |-> 1]
    /\ stats = [max |-> 0, persist |-> 0, reading |-> {}]
    /\ dsp = [calib |-> All(FALSE), valid |-> All(FALSE), re |-> All(0), temp |-> All(0)]
    /\ asked = 0 /\ failed = 0
    /\ again = FALSE
    /\ seen = [re |-> All(0), valid |-> All("none"), top |-> 0, unread |-> {}, raced |-> FALSE,
               rdc |-> {}]

(* tas25xx_smartamp_algo_ctrl succeeds or fails. *)
Access(ok) ==
    /\ ok \/ failed < AccessFaults
    /\ failed' = IF ok THEN failed ELSE failed + 1

Ask ==
    /\ asked < Requests
    /\ asked' = asked + 1

------------------------------------------------------------------------------
(* Calibration.  A request while the work runs makes it run once more. *)

CalibrationStore ==
    /\ use = "calibration" /\ Ask
    /\ calib' = [calib EXCEPT !.status = TRUE, !.pending = TRUE]
    /\ prepared' = TRUE
    /\ again' = (again \/ calib.at # "idle")
    /\ UNCHANGED <<use, valid, user, stream, stats, dsp, failed, seen>>

(* A plausible mistake: results stay from the last calibration. *)
LimitsKeepResults ==
    /\ calib.pending /\ calib.at = "idle"
    /\ \E ok \in BOOLEAN :
        /\ Access(ok)
        /\ calib' = [calib EXCEPT !.pending = FALSE, !.re = All(0), !.round = 1, !.ch = 1,
                                  !.at = IF ok THEN "init" ELSE "idle"]
    /\ UNCHANGED <<use, prepared, valid, user, stream, stats, dsp, asked, again, seen>>

(* The work begins: results are forgotten, and the ranges read. *)
UpdateCalibrationLimits ==
    /\ calib.pending /\ calib.at = "idle"
    /\ \E ok \in BOOLEAN :
        /\ Access(ok)
        /\ calib' = [calib EXCEPT !.pending = FALSE, !.result = All("none"), !.re = All(0),
                                  !.round = 1, !.ch = 1,
                                  !.at = IF ok THEN "init" ELSE "idle"]
    /\ UNCHANGED <<use, prepared, valid, user, stream, stats, dsp, asked, again, seen>>

(* After a speaker comes the next one, and after the last another round. *)
NextSpeaker(w) ==
    IF w.ch < MAX_CHANNELS THEN [w EXCEPT !.ch = @ + 1, !.at = "init"]
    ELSE IF w.round < Rounds THEN [w EXCEPT !.round = @ + 1, !.ch = 1, !.at = "init"]
    ELSE [w EXCEPT !.at = "save"]

CalibInit ==
    /\ calib.at = "init"
    /\ IF calib.result[calib.ch] = "success"
       THEN calib' = NextSpeaker(calib) /\ UNCHANGED <<dsp, failed>>
       ELSE \E ok \in BOOLEAN :
            /\ Access(ok)
            /\ calib' = [calib EXCEPT !.at = IF ok THEN "measure" ELSE "idle"]
            /\ dsp' = [dsp EXCEPT !.calib[calib.ch] = @ \/ ok]
    /\ UNCHANGED <<use, prepared, valid, user, stream, stats, asked, again, seen>>

CheckLimits(rdc) == IF rdc \in RdcRange THEN "success" ELSE "fail"

(* CALIB_TIME later; a failure leaves the speaker in calibration. *)
GetRe ==
    /\ calib.at = "measure"
    /\ \/ /\ Access(FALSE)
          /\ calib' = [calib EXCEPT !.result[calib.ch] = "fail", !.at = "idle"]
          /\ UNCHANGED seen
       \/ \E rdc \in Measured :
          /\ Access(TRUE)
          /\ calib' = [calib EXCEPT !.re[calib.ch] = rdc, !.at = "deinit",
                                    !.result[calib.ch] = CheckLimits(rdc)]
          /\ seen' = [seen EXCEPT !.re[calib.ch] = rdc]
    /\ UNCHANGED <<use, prepared, valid, user, stream, stats, dsp, asked, again>>

CalibDeinit ==
    /\ calib.at = "deinit"
    /\ \E ok \in BOOLEAN :
        /\ Access(ok)
        /\ calib' = IF ok THEN NextSpeaker(calib) ELSE [calib EXCEPT !.at = "idle"]
        /\ dsp' = [dsp EXCEPT !.calib[calib.ch] = @ /\ ~ok]
    /\ UNCHANGED <<use, prepared, valid, user, stream, stats, asked, again, seen>>

SaveCalibData ==
    /\ calib.at = "save"
    /\ calib' = [calib EXCEPT !.hold = calib.re, !.at = "finish"]
    /\ UNCHANGED <<use, prepared, valid, user, stream, stats, dsp, asked, failed, again, seen>>

FinishCalib ==
    /\ \/ /\ calib.at = "finish"
          /\ calib' = [calib EXCEPT !.status = FALSE, !.at = "restore"]
          /\ UNCHANGED prepared
       \/ /\ calib.at = "restore"
          /\ calib' = [calib EXCEPT !.at = "idle"]
          /\ prepared' = FALSE
    /\ UNCHANGED <<use, valid, user, stream, stats, dsp, asked, failed, again, seen>>

(* calibration_rdc_show, before the conversion *)
RdcShown(s) ==
    IF calib.result[s] # "none" THEN calib.hold[s]
    ELSE IF user.update[s] THEN user.re[s] ELSE 0

------------------------------------------------------------------------------
(* Validation.  A store puts one speaker after the other into validation, and has the work
   take them out VALIDATION_TIME later. *)

ValidationStore ==
    /\ use = "validation"
    /\ valid.store # 0 \/ asked < Requests
    /\ asked' = IF valid.store = 0 THEN asked + 1 ELSE asked
    /\ again' = (again \/ valid.at # "idle" \/ valid.pending)
    /\ LET s == valid.store + 1
       IN  \E ok \in BOOLEAN :
            /\ Access(ok)
            /\ dsp' = [dsp EXCEPT !.valid[s] = @ \/ ok]
            /\ valid' = CASE ~ok -> [valid EXCEPT !.store = 0]
                          [] ok /\ s = MAX_CHANNELS ->
                                [valid EXCEPT !.store = 0, !.running = TRUE, !.pending = TRUE]
                          [] OTHER -> [valid EXCEPT !.store = s]
    /\ UNCHANGED <<use, calib, prepared, user, stream, stats, seen>>

ValidWorkStart ==
    /\ valid.pending /\ valid.at = "idle"
    /\ valid' = [valid EXCEPT !.pending = FALSE, !.at = "status", !.ch = 1]
    /\ seen' = [seen EXCEPT !.valid = All("none")]
    /\ UNCHANGED <<use, calib, prepared, user, stream, stats, dsp, asked, failed, again>>

(* A status that cannot be read counts as a failure. *)
GetValidStatus ==
    /\ valid.at = "status"
    /\ \E ok, good \in BOOLEAN :
        /\ Access(ok) /\ (good => ok)
        /\ valid' = [valid EXCEPT !.result[valid.ch] = IF good THEN "success" ELSE "fail",
                                  !.at = "deinit"]
        /\ seen' = [seen EXCEPT !.valid[valid.ch] = IF good THEN "success" ELSE "fail"]
    /\ UNCHANGED <<use, calib, prepared, user, stream, stats, dsp, asked, again>>

ValidDeinit ==
    /\ valid.at = "deinit"
    /\ \E ok \in BOOLEAN :
        /\ Access(ok)
        /\ dsp' = [dsp EXCEPT !.valid[valid.ch] = @ /\ ~ok]
    /\ valid' = IF valid.ch < MAX_CHANNELS
                THEN [valid EXCEPT !.ch = @ + 1, !.at = "status"]
                ELSE [valid EXCEPT !.at = "idle", !.running = FALSE]
    /\ UNCHANGED <<use, calib, prepared, user, stream, stats, asked, again, seen>>

------------------------------------------------------------------------------
(* The calibration the user stores, and the streams that carry it to the DSP. *)

(* A stored value is told apart by the number of its request.  Only a temperature makes
   the pair one that is sent. *)
RdcStore ==
    /\ use = "streams" /\ Ask
    /\ \E s \in Speakers :
        user' = [user EXCEPT !.re[s] = asked', !.since = @ \cup {s}]
    /\ UNCHANGED <<use, calib, prepared, valid, stream, stats, dsp, failed, again, seen>>

AmbTempStore ==
    /\ use = "streams" /\ Ask
    /\ \E s \in Speakers :
        user' = [user EXCEPT !.temp[s] = asked', !.update[s] = TRUE, !.since = @ \cup {s}]
    /\ UNCHANGED <<use, calib, prepared, valid, stream, stats, dsp, failed, again, seen>>

(* tas25xx_start_algo_processing, as far as it sends what is stored: from now on it counts
   what is stored meanwhile. *)
StartAlgoProcessing ==
    /\ use \in {"streams", "statistics", "calibration"} /\ stream.at = "stopped"
    /\ stream' = [stream EXCEPT !.running = TRUE, !.ch = 1,
                                !.at = IF use = "streams" THEN "temp" ELSE "started"]
    /\ user' = [user EXCEPT !.since = {}]
    /\ UNCHANGED <<use, calib, prepared, valid, stats, dsp, asked, failed, again, seen>>

(* tas_get_coil_temp_nocheck and tas_set_surface_temp_nocheck ask the DSP. *)
TemperatureAllowed == stream.running /\ ~calib.status

NextSent ==
    IF stream.ch < MAX_CHANNELS THEN [stream EXCEPT !.ch = @ + 1, !.at = "temp"]
    ELSE [stream EXCEPT !.at = "started"]

(* TAS_SA_SET_TCAL and TAS_SA_SET_RE; that they fail is ignored. *)
SendAlgoCalibration ==
    /\ stream.at \in {"temp", "re"}
    /\ LET s == stream.ch
       IN  IF ~user.update[s] /\ stream.at = "temp"
           THEN stream' = NextSent /\ UNCHANGED <<dsp, failed>>
           ELSE \E ok \in BOOLEAN :
                /\ Access(ok)
                /\ IF stream.at = "temp"
                   THEN /\ stream' = [stream EXCEPT !.at = "re"]
                        /\ dsp' = IF ok THEN [dsp EXCEPT !.temp[s] = user.temp[s]] ELSE dsp
                   ELSE /\ stream' = NextSent
                        /\ dsp' = IF ok THEN [dsp EXCEPT !.re[s] = user.re[s]] ELSE dsp
    /\ UNCHANGED <<use, calib, prepared, valid, user, stats, asked, again, seen>>

(* tas25xx_stop_algo_processing: the statistics are read before the algorithm counts as
   stopped; what cannot be read is skipped. *)
StopAlgoProcessing ==
    /\ stream.at = "started"
    /\ stream' = [stream EXCEPT !.running = FALSE, !.at = "stopped"]
    /\ IF use # "statistics"
       THEN UNCHANGED <<stats, seen, asked, failed>>
       ELSE /\ Ask
            /\ \/ Access(FALSE) /\ UNCHANGED <<stats, seen>>
               \/ \E exc \in Measured :
                  /\ Access(TRUE)
                  /\ stats' = [stats EXCEPT !.max = Max({exc, @}), !.persist = Max({exc, @})]
                  /\ seen' = [seen EXCEPT !.top = Max({exc, @}), !.unread = @ \cup {exc},
                                          !.raced = @ \/ stats.reading # {}]
    /\ UNCHANGED <<use, calib, prepared, valid, user, dsp, again>>

(* tas25xx_bd_exc_max_show reads the maximum and then clears it. *)
ExcMaxShow ==
    /\ use = "statistics"
    /\ \/ /\ stats.reading = {}
          /\ stats' = [stats EXCEPT !.reading = {stats.max}]
          /\ seen' = [seen EXCEPT !.unread = {e \in @ : e > stats.max}]
       \/ /\ stats.reading # {}
          /\ stats' = [stats EXCEPT !.reading = {}, !.max = 0]
          /\ UNCHANGED seen
    /\ UNCHANGED <<use, calib, prepared, valid, user, stream, dsp, asked, failed, again>>

------------------------------------------------------------------------------
(* The conversions.  A resistance is a number of Q19; here its ohms and the rest, in units
   of 2^-19 ohm. *)
Q19 == 524288

TransfUserToImped(x, y) == [ohm |-> x, rest |-> (y * Q19) \div 100]

(* (val * 100) >> 19 in 32 bits leaves 13 bits; the result is one of 8 bits. *)
TransValToUserI(v) == ((((100 * v.ohm + (100 * v.rest) \div Q19) % 8192) \div 100)) % 256

TransValToUserM(v) == (((1000 * v.rest) \div Q19) % 1000) \div 10

(* The user stores an rdc "x.y" and reads it back, in hundredths of an ohm. *)
Rounding ==
    /\ use = "rounding" /\ asked = 0 /\ asked' = 1
    /\ \E x \in Ohms, y \in 0..99 :
        LET v == TransfUserToImped(x, y)
        IN  seen' = [seen EXCEPT !.rdc =
                        {<<100 * x + y, 100 * TransValToUserI(v) + TransValToUserM(v)>>}]
    /\ UNCHANGED <<use, calib, prepared, valid, user, stream, stats, dsp, failed, again>>

Next ==
    \/ CalibrationStore \/ UpdateCalibrationLimits \/ CalibInit \/ GetRe \/ CalibDeinit
    \/ SaveCalibData \/ FinishCalib
    \/ ValidationStore \/ ValidWorkStart \/ GetValidStatus \/ ValidDeinit
    \/ RdcStore \/ AmbTempStore \/ StartAlgoProcessing \/ SendAlgoCalibration
    \/ StopAlgoProcessing \/ ExcMaxShow
    \/ Rounding

Spec == Init /\ [][Next]_vars

------------------------------------------------------------------------------
(* What the threads share is well formed, and so are the statistics and the answers. *)
Outcomes == [Speakers -> Results]
Levels == [Speakers -> Nat]
Flags == [Speakers -> BOOLEAN]
CalibSteps == {"idle", "init", "measure", "deinit", "save", "finish", "restore"}

CalibStates == [status : BOOLEAN, result : Outcomes, hold : Levels, pending : BOOLEAN,
                at : CalibSteps, round : Nat, ch : Speakers, re : Levels]
ValidStates == [running : BOOLEAN, result : Outcomes, pending : BOOLEAN,
                at : {"idle", "status", "deinit"}, ch : Speakers, store : {0, 1}]
StreamStates == [running : BOOLEAN, at : {"stopped", "temp", "re", "started"}, ch : Speakers]
Stored == [re : Levels, temp : Levels, update : Flags, since : SUBSET Speakers]
DspStates == [calib : Flags, valid : Flags, re : Levels, temp : Levels]

SharedTyped ==
    /\ calib \in CalibStates /\ valid \in ValidStates /\ stream \in StreamStates
    /\ user \in Stored /\ dsp \in DspStates
    /\ prepared \in BOOLEAN /\ again \in BOOLEAN
    /\ asked \in Nat /\ failed \in Nat

TypeOK ==
    /\ SharedTyped
    /\ calib.round <= Rounds /\ asked <= Max({1, Requests}) /\ failed <= AccessFaults
    /\ calib.re \in [Speakers -> Measured \cup {0}]
    /\ stats.max \in Measured \cup {0} /\ stats.persist \in Measured \cup {0}
    /\ seen.unread \subseteq Measured

(* When calibration shows as disabled and was not asked for while it ran, a speaker that
   shows as calibrated shows the resistance that was measured last, in its range; a
   validation that shows as disabled shows what the DSP said in it. *)
ResultsShown ==
    /\ ~calib.status /\ ~again =>
        \A s \in Speakers : calib.result[s] = "success" =>
            RdcShown(s) = seen.re[s] /\ RdcShown(s) \in RdcRange
    /\ ~valid.running /\ ~again =>
        \A s \in Speakers : seen.valid[s] = "none" \/ valid.result[s] = seen.valid[s]

(* Whatever fails, no temperature is read or set in a speaker that is in calibration, unless
   calibration was asked for while it ran.  When nothing failed either, what does not show
   as enabled has left no speaker and no chip in calibration or validation, and what does
   will end. *)
LeftClean ==
    /\ TemperatureAllowed /\ ~again => ~(\E s \in Speakers : dsp.calib[s])
    /\ failed = 0 /\ ~again =>
        /\ ~calib.status =>
            (prepared => calib.at = "restore") /\ ~(\E s \in Speakers : dsp.calib[s])
        /\ calib.status => calib.pending \/ calib.at # "idle"
        /\ ~valid.running /\ valid.store = 0 => ~(\E s \in Speakers : dsp.valid[s])

(* Once a stream has started without a failure, a speaker whose calibration was not stored
   meanwhile has the pair that was stored. *)
CalibrationSent ==
    stream.at = "started" /\ failed = 0 =>
        \A s \in Speakers \ user.since : user.update[s] =>
            dsp.re[s] = user.re[s] /\ dsp.temp[s] = user.temp[s]

(* No excursion the DSP reported is above the maximum that persists, and one that no show
   has covered is below the next one to be shown, unless a stream ended within a show. *)
ExcursionsKept ==
    /\ stats.persist = seen.top
    /\ use = "statistics" /\ ~seen.raced => \A e \in seen.unread : e <= stats.max

(* What is read back is what was stored or a hundredth less. *)
Rounded ==
    \A rdc \in seen.rdc : rdc[2] \in {rdc[1], rdc[1] - 1}
=============================================================================
