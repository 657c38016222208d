---------------------------- MODULE Cs40l26Effects ----------------------------
(***************************************************************************)
(* Loading and erasing haptic effects in the CS40L26 driver: the list of   *)
(* uploaded effects, the table of buzz generator slots, and the two pieces *)
(* of DSP memory the driver's indices point into, the Open Wavetable (OWT) *)
(* and the GPI event map.  Calls are serialised by the input core's mutex, *)
(* and the workers by the ordered work queue and the driver's lock, so one *)
(* call is one step.  `Faults' names the places where a call may fail.     *)
(***************************************************************************)
EXTENDS Integers

CONSTANTS
    Ids,            \* effect identifiers
    Waves,          \* waveform contents user space supplies
    Garbage,        \* buzz generator registers only partly written
    Nothing,        \* an index behind which the DSP has no waveform
    Absent,         \* no effect
    NumBuzz,        \* CS40L26_BUZZGEN_NUM_CONFIGS
    NumRam,         \* waveforms of the firmware's RAM wavetable
    NumRom,         \* waveforms of the ROM wavetable
    MaxIndex,       \* largest index a request for RAM or ROM names
    OwtSpace,       \* waveforms the DSP has room for in the OWT
    OwtIndexEnd,    \* CS40L26_OWT_INDEX_END - CS40L26_OWT_INDEX_START
    Kinds,          \* kinds of request user space makes
    Buttons,        \* trigger buttons user space asks for
    GpoMon,         \* gpo_playback_mon: GPIO1 reports playback
    Faults          \* failures that may occur

AllKinds == {"SINE", "OWT", "RAM", "ROM", "BAD"}
AllButtons == {"INVALID", "PRESS", "RELEASE", "OTHER"}
AllFaults == {"pm", "io", "push_late", "buzz_io", "map_io", "waves_io",
              "gpi_io", "delete_io", "delete_late", "reload"}

ASSUME SizeAssumption ==
    /\ NumBuzz \in Nat /\ NumRam \in Nat /\ NumRom \in Nat
    /\ MaxIndex \in Nat /\ OwtSpace \in Nat /\ OwtIndexEnd \in Nat

ASSUME ChoiceAssumption ==
    /\ Kinds \subseteq AllKinds
    /\ Buttons \subseteq AllButtons
    /\ Faults \subseteq AllFaults
    /\ GpoMon \in BOOLEAN

ASSUME ValueAssumption == Absent \notin Ids

Slots == 1 .. NumBuzz
Pads == {"PRESS", "RELEASE"}

(* A trigger index: the bank it lies in and its offset in that bank. *)
Triggers == [bank : {"OWT", "BUZ", "RAM", "ROM"}, ix : Nat]

(* What user space asks an effect to be. *)
Requests ==
    [kind : Kinds \cap {"SINE", "OWT"}, what : Waves, pad : Buttons]
        \cup [kind : Kinds \ {"SINE", "OWT"}, what : 0 .. MaxIndex, pad : Buttons]

Bank(kind) == IF kind = "SINE" THEN "BUZ" ELSE kind

(* What an effect is heard as. *)
Sounds ==
    [bank : {"OWT", "BUZ", "RAM", "ROM", "BAD"},
     what : Waves \cup 0 .. MaxIndex \cup {Garbage, Nothing}]

VARIABLES
    list,           \* effect_head: uploaded effects by identifier
    slots,          \* effect_id of each cs40l26_buzzgen_configs entry
    buzz,           \* DSP: what each buzz generator is programmed to
    nowt,           \* DSP: number of waveforms in the OWT
    owt,            \* DSP: the waveforms of the OWT
    evmap,          \* DSP: event map, what each GPI edge triggers
    upload_ret,     \* the last upload worker's result was success
    erase_ret,      \* the last erase worker's result was success
    ff,             \* input core: waveform class of each effect it knows
    call            \* input core: the last call and what it returned

fw == <<buzz, nowt, owt, evmap>>
vars == <<list, slots, fw, upload_ret, erase_ret, ff, call>>

(* What the next step can depend on: no guard reads the last call. *)
EffectsView == <<list, slots, fw, upload_ret, erase_ret, ff>>

Loaded == DOMAIN list

TypeOK ==
    /\ Loaded \subseteq Ids
    /\ list \in [Loaded -> [bank : {"OWT", "BUZ", "RAM", "ROM"}, ix : Nat,
                            map : Pads \cup {"INVALID"}]]
    /\ slots \in [Slots -> Ids \cup {Absent}]
    /\ buzz \in [Slots -> Waves \cup {Garbage}]
    /\ nowt \in Nat
    /\ owt \in [0 .. nowt - 1 -> Waves]
    /\ evmap \in [Pads -> Triggers \cup {Nothing}]
    /\ upload_ret \in BOOLEAN /\ erase_ret \in BOOLEAN
    /\ ff \in [Ids -> {"none", "SINE", "CUSTOM"}]

Init ==
    /\ list = [i \in {} |-> 0]
    /\ slots = [s \in Slots |-> Absent]
    /\ buzz = [s \in Slots |-> Garbage]
    /\ nowt = 0
    /\ owt = [k \in {} |-> 0]
    /\ evmap = [p \in Pads |-> Nothing]
    /\ upload_ret = TRUE /\ erase_ret = TRUE
    /\ ff = [i \in Ids |-> "none"]
    /\ call = Absent

(* What the DSP plays for an entry of the effect list. *)
SoundOf(e) ==
    [bank |-> e.bank,
     what |-> CASE e.bank = "OWT" -> IF e.ix < nowt THEN owt[e.ix] ELSE Nothing
                [] e.bank = "BUZ" -> buzz[e.ix]
                [] OTHER -> e.ix]

SoundAsked(q) == [bank |-> Bank(q.kind), what |-> q.what]

--------------------------------------------------------------------------------
(* Returning to the input core, which keeps an effect only on success. *)

Class(kind) == IF kind = "SINE" THEN "SINE" ELSE "CUSTOM"

UploadReturns(id, q, ok) ==
    /\ ff' = IF ok THEN [ff EXCEPT ![id] = Class(q.kind)] ELSE ff
    /\ call' = [op |-> "upload", id |-> id, req |-> SoundAsked(q), ok |-> ok]

EraseReturns(id, ok) ==
    /\ ff' = IF ok THEN [ff EXCEPT ![id] = "none"] ELSE ff
    /\ call' = [op |-> "erase", id |-> id, req |-> Absent, ok |-> ok]

UploadEnds(id, q, ok) ==
    /\ upload_ret' = ok
    /\ UploadReturns(id, q, ok)
    /\ UNCHANGED erase_ret

EraseEnds(id, ok) ==
    /\ erase_ret' = ok
    /\ EraseReturns(id, ok)
    /\ UNCHANGED upload_ret

(* The list with the entry of effect id set to e. *)
Enter(id, e) == [i \in Loaded \cup {id} |-> IF i = id THEN e ELSE list[i]]

(* MUTANT of FindSlot: takes the first free slot without looking for its own. *)
FirstFreeSlot(s, id) ==
    /\ slots[s] = Absent
    /\ \A t \in Slots : t < s => slots[t] # Absent

(* The slot the search for effect id returns: its own, else the lowest free. *)
FindSlot(s, id) ==
    \/ slots[s] = id
    \/ /\ slots[s] = Absent
       /\ \A t \in Slots : slots[t] # id
       /\ \A t \in Slots : t < s => slots[t] # Absent

NoSlot(id) == \A s \in Slots : ~FindSlot(s, id)

(* cs40l26_map_gpi_to_haptic reached with a button that asks for a pad. *)
WantsPad(q) == q.pad # "INVALID" /\ ~GpoMon

(* The mapping succeeds, or is not asked for, or is refused with -EPERM. *)
Publish(id, u, q) ==
    /\ WantsPad(q) => q.pad \in Pads
    /\ list' = Enter(id, [bank |-> u.bank, ix |-> u.ix,
                          map |-> IF WantsPad(q) THEN q.pad ELSE "INVALID"])
    /\ evmap' = IF WantsPad(q) THEN [evmap EXCEPT ![q.pad] = u] ELSE evmap

(* The mapping fails: a new effect is dropped, an old one keeps its mapping
   but has already been given its new bank and index. *)
MapFails(id, u, q) ==
    /\ WantsPad(q)
    /\ q.pad \notin Pads \/ "map_io" \in Faults
    /\ list' = IF id \in Loaded
               THEN Enter(id, [bank |-> u.bank, ix |-> u.ix, map |-> list[id].map])
               ELSE list
    /\ \/ evmap' = evmap
       \/ q.pad \in Pads /\ evmap' = [evmap EXCEPT ![q.pad] = u]

(* The end of cs40l26_upload_worker once the waveform is in place at u. *)
Settle(id, u, q) ==
    \/ Publish(id, u, q) /\ UploadEnds(id, q, TRUE)
    \/ "waves_io" \in Faults /\ Publish(id, u, q) /\ UploadEnds(id, q, FALSE)
    \/ MapFails(id, u, q) /\ UploadEnds(id, q, FALSE)

(* The input core passes on an upload of a new effect, or one that keeps the
   waveform class of the effect it replaces. *)
MayUpload(id, q) == ff[id] \in {"none", Class(q.kind)}

--------------------------------------------------------------------------------

UploadSine(id, q) ==
    /\ q.kind = "SINE"
    /\ \E s \in Slots :
        /\ FindSlot(s, id)
        /\ slots' = [slots EXCEPT ![s] = id]
        /\ buzz' = [buzz EXCEPT ![s] = q.what]
        /\ Settle(id, [bank |-> "BUZ", ix |-> s], q)
    /\ UNCHANGED <<nowt, owt>>

(* No slot is free, or a register write fails after the slot was taken. *)
UploadSineFails(id, q) ==
    /\ q.kind = "SINE"
    /\ \/ NoSlot(id) /\ UNCHANGED <<slots, buzz>>
       \/ /\ "buzz_io" \in Faults
          /\ \E s \in Slots :
              /\ FindSlot(s, id)
              /\ slots' = [slots EXCEPT ![s] = id]
              /\ \E w \in {buzz[s], Garbage, q.what} :
                    buzz' = [buzz EXCEPT ![s] = w]
    /\ UploadEnds(id, q, FALSE)
    /\ UNCHANGED <<list, nowt, owt, evmap>>

(* The DSP appends the waveform written behind its table. *)
Push(w) ==
    /\ nowt < OwtSpace
    /\ nowt' = nowt + 1
    /\ owt' = [k \in 0 .. nowt |-> IF k = nowt THEN w ELSE owt[k]]

UploadOwt(id, q) ==
    /\ q.kind = "OWT"
    /\ Push(q.what)
    /\ nowt <= OwtIndexEnd
    /\ Settle(id, [bank |-> "OWT", ix |-> nowt], q)
    /\ UNCHANGED <<slots, buzz>>

(* No room; or the waveform went in, but its index is out of bounds, the DSP's
   acknowledgement was lost or the number of waveforms could not be read. *)
UploadOwtFails(id, q) ==
    /\ q.kind = "OWT"
    /\ \/ nowt >= OwtSpace /\ UNCHANGED <<nowt, owt>>
       \/ Push(q.what) /\ (nowt > OwtIndexEnd \/ "push_late" \in Faults)
    /\ UploadEnds(id, q, FALSE)
    /\ UNCHANGED <<list, slots, buzz, evmap>>

InTable(q) ==
    \/ q.kind = "RAM" /\ q.what < NumRam
    \/ q.kind = "ROM" /\ q.what < NumRom

UploadTable(id, q) ==
    /\ InTable(q)
    /\ Settle(id, [bank |-> q.kind, ix |-> q.what], q)
    /\ UNCHANGED <<slots, buzz, nowt, owt>>

(* A bank or an index the driver refuses, or an access that failed early. *)
UploadRejected(id, q) ==
    /\ \/ q.kind \notin {"SINE", "OWT"} /\ ~InTable(q)
       \/ "io" \in Faults
    /\ UploadEnds(id, q, FALSE)
    /\ UNCHANGED <<list, slots, fw>>

(* The device cannot be resumed: the worker leaves upload_ret as it was, and
   the caller returns what it finds there. *)
UploadNotRun(id, q) ==
    /\ "pm" \in Faults
    /\ UploadReturns(id, q, upload_ret)
    /\ UNCHANGED <<list, slots, fw, upload_ret, erase_ret>>

UploadEffect(id, q) ==
    /\ MayUpload(id, q)
    /\ \/ UploadSine(id, q) \/ UploadSineFails(id, q)
       \/ UploadOwt(id, q) \/ UploadOwtFails(id, q)
       \/ UploadTable(id, q)
       \/ UploadRejected(id, q)
       \/ UploadNotRun(id, q)

--------------------------------------------------------------------------------

(* MUTANT of FreeSlot: the slot is never given back. *)
KeepSlot(id) == id \in Loaded /\ UNCHANGED slots

(* The buzz generator slot is given back before anything can fail. *)
FreeSlot(id) ==
    IF list[id].bank = "BUZ"
    THEN \E s \in Slots : FindSlot(s, id) /\ slots' = [slots EXCEPT ![s] = Absent]
    ELSE UNCHANGED slots

DisablePad(p) ==
    evmap' = IF p = "INVALID" THEN evmap ELSE [evmap EXCEPT ![p] = Nothing]

(* MUTANT of Delete: the last waveform is left behind the end of the table. *)
DeleteKeepingTail(ix) ==
    IF ix < nowt THEN nowt' = nowt - 1 /\ UNCHANGED owt ELSE UNCHANGED <<nowt, owt>>

(* The DSP closes the gap a deleted waveform leaves. *)
Delete(ix) ==
    IF ix < nowt
    THEN /\ nowt' = nowt - 1
         /\ owt' = [k \in 0 .. nowt - 2 |-> IF k < ix THEN owt[k] ELSE owt[k + 1]]
    ELSE UNCHANGED <<nowt, owt>>

(* MUTANT of Shifted: misses the waveform right behind the gap. *)
ShiftedPastNext(e, ix) ==
    IF e.bank = "OWT" /\ e.ix > ix + 1 THEN [e EXCEPT !.ix = @ - 1] ELSE e

(* The driver closes the same gap in the indices it keeps. *)
Shifted(e, ix) ==
    IF e.bank = "OWT" /\ e.ix > ix THEN [e EXCEPT !.ix = @ - 1] ELSE e

Unlink(id) ==
    LET gone == list[id] IN
    list' = [i \in Loaded \ {id} |->
                IF gone.bank = "OWT" THEN Shifted(list[i], gone.ix) ELSE list[i]]

EraseLoaded(id) ==
    /\ id \in Loaded
    /\ FreeSlot(id)
    /\ DisablePad(list[id].map)
    /\ IF list[id].bank = "OWT" THEN Delete(list[id].ix) ELSE UNCHANGED <<nowt, owt>>
    /\ Unlink(id)
    /\ EraseEnds(id, TRUE)
    /\ UNCHANGED buzz

(* The slot is free again but the event map could not be written. *)
EraseMapFails(id) ==
    /\ "gpi_io" \in Faults
    /\ id \in Loaded
    /\ list[id].map # "INVALID"
    /\ FreeSlot(id)
    /\ EraseEnds(id, FALSE)
    /\ UNCHANGED <<list, fw>>

(* The DSP did not get the delete command, or its acknowledgement was lost. *)
EraseOwtFails(id) ==
    /\ id \in Loaded
    /\ list[id].bank = "OWT"
    /\ \/ "delete_io" \in Faults /\ UNCHANGED <<nowt, owt>>
       \/ "delete_late" \in Faults /\ Delete(list[id].ix)
    /\ DisablePad(list[id].map)
    /\ list' = [list EXCEPT ![id].map = "INVALID"]
    /\ EraseEnds(id, FALSE)
    /\ UNCHANGED <<slots, buzz>>

(* No such effect, or one whose slot the search cannot find. *)
EraseUnknown(id) ==
    /\ id \in Loaded => list[id].bank = "BUZ" /\ NoSlot(id)
    /\ EraseEnds(id, FALSE)
    /\ UNCHANGED <<list, slots, fw>>

EraseNotRun(id) ==
    /\ "pm" \in Faults
    /\ EraseReturns(id, erase_ret)
    /\ UNCHANGED <<list, slots, fw, upload_ret, erase_ret>>

EraseEffect(id) ==
    /\ ff[id] # "none"
    /\ \/ EraseLoaded(id) \/ EraseMapFails(id) \/ EraseOwtFails(id)
       \/ EraseUnknown(id) \/ EraseNotRun(id)

(* A reset or a firmware swap starts the DSP afresh; the driver keeps its list
   and its slots. *)
FwReload ==
    /\ "reload" \in Faults
    /\ nowt' = 0
    /\ owt' = [k \in {} |-> 0]
    /\ buzz' = [s \in Slots |-> Garbage]
    /\ evmap' = [p \in Pads |-> Nothing]
    /\ UNCHANGED <<list, slots, upload_ret, erase_ret, ff, call>>

Next ==
    \/ \E id \in Ids, q \in Requests : UploadEffect(id, q)
    \/ \E id \in Ids : EraseEffect(id)
    \/ FwReload

Spec == Init /\ [][Next]_vars

--------------------------------------------------------------------------------
(* The failures after which the promise of EffectStore still holds. *)
SafeFaults == {"io", "push_late", "buzz_io", "map_io", "waves_io", "delete_io"}

(* Every effect in the Open Wavetable has a waveform of its own there: the
   indices the driver shifts when it deletes one stay in step with the DSP
   (cs40l26_erase_owt, cs40l26_custom_owt). *)
OwtPrivate ==
    \A i \in Loaded : list[i].bank = "OWT" =>
        /\ list[i].ix < nowt
        /\ \A j \in Loaded \ {i} : list[j].bank = "OWT" => list[j].ix # list[i].ix

(* Every sine effect holds the buzz generator slot it triggers, so no other
   effect can be given that slot (cs40l26_sine_upload, cs40l26_erase_buzzgen). *)
SlotPrivate ==
    \A i \in Loaded : list[i].bank = "BUZ" =>
        list[i].ix \in Slots /\ slots[list[i].ix] = i

(* Whatever fails, and across reloads, no effect ever holds two slots
   (cs40l26_buzzgen_find_slot looks for the effect's own slot first). *)
OneSlotEach ==
    \A s, t \in Slots : slots[s] = slots[t] /\ slots[s] # Absent => s = t

Lost ==
    {s \in Slots : slots[s] # Absent /\
        ~(slots[s] \in Loaded /\ list[slots[s]].bank = "BUZ" /\ list[slots[s]].ix = s)}

(* A slot nobody triggers is lost until its effect is uploaded again.  Calls
   that fail may lose one; a call that succeeds does not, unless an earlier
   failure left an effect in the driver that the input core has forgotten
   (cs40l26_buzzgen_find_slot). *)
NoSlotLost ==
    [][(call'.ok /\ (call'.id \in Loaded => ff[call'.id] # "none"))
            => Lost' \subseteq Lost]_<<call, slots>>

(* An Open Wavetable effect that alone is mapped to a pad is what that pad
   triggers ("Update indices for OWT waveforms uploaded after erased effect",
   cs40l26_erase_owt). *)
PadFollowsIndex ==
    \A i \in Loaded, p \in Pads :
        /\ list[i].bank = "OWT" /\ list[i].map = p
        /\ \A j \in Loaded \ {i} : list[j].map # p
        => evmap[p] = [bank |-> "OWT", ix |-> list[i].ix]

(* The driver implements the store of effects that user space sees. *)
Store == INSTANCE EffectStore WITH
    store <- [i \in Ids |-> IF i \in Loaded THEN SoundOf(list[i]) ELSE Absent]

ImplementsStore == Store!Spec
================================================================================
