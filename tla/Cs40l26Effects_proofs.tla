------------------------- MODULE Cs40l26Effects_proofs -------------------------
(***************************************************************************)
(* Proofs about Cs40l26Effects: its types, the ownership of waveforms and  *)
(* of buzz generator slots, and that it implements EffectStore, for every  *)
(* number of effects, slots and waveforms.                                 *)
(***************************************************************************)
EXTENDS Cs40l26Effects, TLAPS

Entries == [bank : {"OWT", "BUZ", "RAM", "ROM"}, ix : Nat, map : Pads \cup {"INVALID"}]

(* The entry an upload leaves for an effect whose waveform lies at u. *)
EntryAt(u, m) == [bank |-> u.bank, ix |-> u.ix, map |-> m]

USE SizeAssumption, ChoiceAssumption, ValueAssumption

--------------------------------------------------------------------------------
(* What the parts the actions share do to the state. *)

(* Settling an upload either leaves the list alone or enters the effect at u;
   nothing else of the driver's tables is touched. *)
LEMMA SettleEffect ==
    ASSUME TypeOK, NEW id \in Ids, NEW q \in Requests, NEW u \in Triggers,
           Settle(id, u, q)
    PROVE  /\ \/ list' = list /\ id \notin Loaded
              \/ \E m \in Pads \cup {"INVALID"} : list' = Enter(id, EntryAt(u, m))
           /\ evmap' \in [Pads -> Triggers \cup {Nothing}]
           /\ upload_ret' \in BOOLEAN
           /\ erase_ret' = erase_ret
           /\ ff' \in [Ids -> {"none", "SINE", "CUSTOM"}]
  <1>1. CASE \E ok \in BOOLEAN : Publish(id, u, q) /\ UploadEnds(id, q, ok)
    <2> DEFINE m == IF WantsPad(q) THEN q.pad ELSE "INVALID"
    <2>1. m \in Pads \cup {"INVALID"}
      BY <1>1 DEF Publish
    <2>2. list' = Enter(id, EntryAt(u, m))
      BY <1>1 DEF Publish, EntryAt
    <2>3. evmap' \in [Pads -> Triggers \cup {Nothing}]
      BY <1>1 DEF Publish, TypeOK
    <2> QED
      BY <1>1, <2>1, <2>2, <2>3 DEF UploadEnds, UploadReturns, TypeOK, Class
  <1>2. CASE MapFails(id, u, q) /\ UploadEnds(id, q, FALSE)
    <2>1. \/ list' = list /\ id \notin Loaded
          \/ \E m \in Pads \cup {"INVALID"} : list' = Enter(id, EntryAt(u, m))
      <3>1. CASE id \in Loaded
        <4>1. list[id].map \in Pads \cup {"INVALID"}
          BY <3>1 DEF TypeOK
        <4>2. list' = Enter(id, EntryAt(u, list[id].map))
          BY <1>2, <3>1 DEF MapFails, EntryAt
        <4> QED BY <4>1, <4>2
      <3>2. CASE id \notin Loaded
        BY <1>2, <3>2 DEF MapFails
      <3> QED BY <3>1, <3>2
    <2>2. evmap' \in [Pads -> Triggers \cup {Nothing}]
      BY <1>2 DEF MapFails, TypeOK
    <2> QED
      BY <1>2, <2>1, <2>2 DEF UploadEnds, UploadReturns, TypeOK, Class
  <1> QED BY <1>1, <1>2 DEF Settle

(* Entering an effect gives it the entry and keeps the others. *)
LEMMA EnterEffect ==
    ASSUME TypeOK, NEW id \in Ids, NEW u \in Triggers,
           NEW m \in Pads \cup {"INVALID"}, list' = Enter(id, EntryAt(u, m))
    PROVE  /\ Loaded' = Loaded \cup {id}
           /\ Loaded' \subseteq Ids
           /\ list' \in [Loaded' -> Entries]
           /\ list'[id] = EntryAt(u, m)
           /\ list'[id].bank = u.bank /\ list'[id].ix = u.ix
           /\ \A i \in Loaded \ {id} : list'[i] = list[i]
  <1>1. Loaded' = Loaded \cup {id}
    BY DEF Loaded, Enter
  <1>2. EntryAt(u, m) \in Entries
    BY DEF EntryAt, Entries, Triggers
  <1>3. \A i \in Loaded : list[i] \in Entries
    BY DEF TypeOK, Entries
  <1>4. list' \in [Loaded' -> Entries]
    BY <1>1, <1>2, <1>3 DEF Enter
  <1> QED
    BY <1>1, <1>4 DEF Enter, EntryAt, TypeOK

(* After settling, the list is still a list of effects. *)
LEMMA SettleList ==
    ASSUME TypeOK, NEW id \in Ids, NEW q \in Requests, NEW u \in Triggers,
           Settle(id, u, q)
    PROVE  Loaded' \subseteq Ids /\ list' \in [Loaded' -> Entries]
  <1>1. CASE list' = list
    BY <1>1 DEF TypeOK, Loaded, Entries
  <1>2. CASE \E m \in Pads \cup {"INVALID"} : list' = Enter(id, EntryAt(u, m))
    BY <1>2, EnterEffect
  <1> QED BY <1>1, <1>2, SettleEffect

(* A push appends, a delete closes the gap: the table stays dense. *)
LEMMA PushType ==
    ASSUME TypeOK, NEW w \in Waves, Push(w)
    PROVE  nowt' = nowt + 1 /\ nowt' \in Nat /\ owt' \in [0 .. nowt' - 1 -> Waves]
  BY DEF Push, TypeOK

LEMMA DeleteType ==
    ASSUME TypeOK, NEW ix \in Nat, Delete(ix)
    PROVE  nowt' \in Nat /\ owt' \in [0 .. nowt' - 1 -> Waves]
  <1>1. CASE ix < nowt
    <2>1. nowt' = nowt - 1 /\ nowt' \in Nat
      BY <1>1 DEF Delete, TypeOK
    <2>2. \A k \in 0 .. nowt - 2 : (IF k < ix THEN owt[k] ELSE owt[k + 1]) \in Waves
      BY DEF TypeOK
    <2> QED BY <1>1, <2>1, <2>2 DEF Delete, TypeOK
  <1>2. CASE ~(ix < nowt)
    BY <1>2 DEF Delete, TypeOK
  <1> QED BY <1>1, <1>2

(* Erasing an effect leaves well-formed entries for the others. *)
LEMMA UnlinkEffect ==
    ASSUME TypeOK, NEW id \in Ids, id \in Loaded, Unlink(id)
    PROVE  /\ Loaded' = Loaded \ {id}
           /\ Loaded' \subseteq Ids
           /\ list' \in [Loaded' -> Entries]
           /\ \A i \in Loaded' :
                /\ list'[i].bank = list[i].bank
                /\ list'[i].ix = IF /\ list[id].bank = "OWT" /\ list[i].bank = "OWT"
                                    /\ list[i].ix > list[id].ix
                                 THEN list[i].ix - 1 ELSE list[i].ix
  <1>1. Loaded' = Loaded \ {id}
    BY DEF Loaded, Unlink
  <1>2. ASSUME NEW i \in Loaded \ {id}
        PROVE  /\ list'[i] \in Entries
               /\ list'[i].bank = list[i].bank
               /\ list'[i].ix = IF /\ list[id].bank = "OWT" /\ list[i].bank = "OWT"
                                   /\ list[i].ix > list[id].ix
                                THEN list[i].ix - 1 ELSE list[i].ix
    <2>1. list[i] \in Entries /\ list[id] \in Entries
      BY DEF TypeOK, Entries
    <2>2. list'[i] = IF list[id].bank = "OWT" THEN Shifted(list[i], list[id].ix) ELSE list[i]
      BY DEF Unlink
    <2> QED BY <2>1, <2>2 DEF Shifted, Entries
  <1>3. list' \in [Loaded' -> Entries]
    BY <1>1, <1>2 DEF Unlink
  <1> QED BY <1>1, <1>2, <1>3 DEF TypeOK

--------------------------------------------------------------------------------
(* The state of the driver and of the DSP is well formed whatever fails. *)
LEMMA TypeStep ==
    ASSUME TypeOK, [Next]_vars
    PROVE  TypeOK'
  <1> USE DEF Entries
  <1>1. ASSUME NEW id \in Ids, NEW q \in Requests, UploadEffect(id, q)
        PROVE  TypeOK'
    <2>1. CASE UploadSine(id, q)
      <3>1. q.what \in Waves
        BY <2>1 DEF UploadSine, Requests
      <3>2. PICK s \in Slots :
              /\ FindSlot(s, id)
              /\ slots' = [slots EXCEPT ![s] = id]
              /\ buzz' = [buzz EXCEPT ![s] = q.what]
              /\ Settle(id, [bank |-> "BUZ", ix |-> s], q)
        BY <2>1 DEF UploadSine
      <3>3. [bank |-> "BUZ", ix |-> s] \in Triggers
        BY DEF Triggers, Slots
      <3>4. slots' \in [Slots -> Ids \cup {Absent}] /\ buzz' \in [Slots -> Waves \cup {Garbage}]
        BY <3>1, <3>2 DEF TypeOK
      <3> QED
        BY <2>1, <3>2, <3>3, <3>4, SettleEffect, SettleList DEF TypeOK, UploadSine
    <2>2. CASE UploadSineFails(id, q)
      <3>1. q.what \in Waves
        BY <2>2 DEF UploadSineFails, Requests
      <3>2. slots' \in [Slots -> Ids \cup {Absent}] /\ buzz' \in [Slots -> Waves \cup {Garbage}]
        BY <2>2, <3>1 DEF TypeOK, UploadSineFails
      <3> QED
        BY <2>2, <3>2 DEF TypeOK, UploadSineFails, UploadEnds, UploadReturns, Loaded
    <2>3. CASE UploadOwt(id, q)
      <3>1. q.what \in Waves
        BY <2>3 DEF UploadOwt, Requests
      <3>2. [bank |-> "OWT", ix |-> nowt] \in Triggers
        BY DEF Triggers, TypeOK
      <3> QED
        BY <2>3, <3>1, <3>2, PushType, SettleEffect, SettleList DEF TypeOK, UploadOwt
    <2>4. CASE UploadOwtFails(id, q)
      <3>1. q.what \in Waves
        BY <2>4 DEF UploadOwtFails, Requests
      <3>2. nowt' \in Nat /\ owt' \in [0 .. nowt' - 1 -> Waves]
        BY <2>4, <3>1, PushType DEF UploadOwtFails, TypeOK
      <3> QED
        BY <2>4, <3>2 DEF TypeOK, UploadOwtFails, UploadEnds, UploadReturns, Loaded
    <2>5. CASE UploadTable(id, q)
      <3>1. [bank |-> q.kind, ix |-> q.what] \in Triggers
        BY <2>5 DEF Triggers, UploadTable, InTable, Requests
      <3> QED
        BY <2>5, <3>1, SettleEffect, SettleList DEF TypeOK, UploadTable
    <2>6. CASE UploadRejected(id, q)
      BY <2>6 DEF TypeOK, UploadRejected, UploadEnds, UploadReturns, Loaded, fw
    <2>7. CASE UploadNotRun(id, q)
      BY <2>7 DEF TypeOK, UploadNotRun, UploadReturns, Class, Loaded, fw
    <2> QED
      BY <1>1, <2>1, <2>2, <2>3, <2>4, <2>5, <2>6, <2>7 DEF UploadEffect
  <1>2. ASSUME NEW id \in Ids, EraseEffect(id)
        PROVE  TypeOK'
    <2> DEFINE Ended == /\ upload_ret' \in BOOLEAN /\ erase_ret' \in BOOLEAN
                        /\ ff' \in [Ids -> {"none", "SINE", "CUSTOM"}]
    <2>1. ASSUME NEW ok \in BOOLEAN, EraseEnds(id, ok)
          PROVE  Ended
      BY <2>1 DEF EraseEnds, EraseReturns, TypeOK
    <2>2. ASSUME FreeSlot(id)
          PROVE  slots' \in [Slots -> Ids \cup {Absent}]
      <3>1. CASE list[id].bank = "BUZ"
        BY <2>2, <3>1 DEF FreeSlot, TypeOK
      <3>2. CASE list[id].bank # "BUZ"
        BY <2>2, <3>2 DEF FreeSlot, TypeOK
      <3> QED BY <3>1, <3>2
    <2>3. ASSUME id \in Loaded, DisablePad(list[id].map)
          PROVE  evmap' \in [Pads -> Triggers \cup {Nothing}]
      BY <2>3 DEF DisablePad, TypeOK
    <2>4. ASSUME id \in Loaded
          PROVE  list[id].ix \in Nat
      BY <2>4 DEF TypeOK
    <2>5. CASE EraseLoaded(id)
      <3>1. nowt' \in Nat /\ owt' \in [0 .. nowt' - 1 -> Waves]
        BY <2>4, <2>5, DeleteType DEF EraseLoaded, TypeOK
      <3>2. Loaded' \subseteq Ids /\ list' \in [Loaded' -> Entries]
        BY <2>5, UnlinkEffect DEF EraseLoaded
      <3> QED
        BY <2>1, <2>2, <2>3, <2>5, <3>1, <3>2 DEF EraseLoaded, TypeOK
    <2>6. CASE EraseMapFails(id)
      BY <2>1, <2>2, <2>6 DEF EraseMapFails, TypeOK, Loaded, fw
    <2>7. CASE EraseOwtFails(id)
      <3>1. nowt' \in Nat /\ owt' \in [0 .. nowt' - 1 -> Waves]
        BY <2>4, <2>7, DeleteType DEF EraseOwtFails, TypeOK
      <3>2. Loaded' = Loaded /\ list' \in [Loaded' -> Entries]
        BY <2>7 DEF EraseOwtFails, TypeOK, Loaded
      <3> QED
        BY <2>1, <2>3, <2>7, <3>1, <3>2 DEF EraseOwtFails, TypeOK
    <2>8. CASE EraseUnknown(id)
      BY <2>1, <2>8 DEF EraseUnknown, TypeOK, Loaded, fw
    <2>9. CASE EraseNotRun(id)
      BY <2>9 DEF EraseNotRun, EraseReturns, TypeOK, Loaded, fw
    <2> QED
      BY <1>2, <2>5, <2>6, <2>7, <2>8, <2>9 DEF EraseEffect
  <1>3. CASE FwReload
    BY <1>3 DEF FwReload, TypeOK, Loaded
  <1>4. CASE UNCHANGED vars
    BY <1>4 DEF vars, fw, TypeOK, Loaded
  <1> QED
    BY <1>1, <1>2, <1>3, <1>4 DEF Next

(* The types hold in every reachable state. *)
THEOREM TypeCorrect == Spec => []TypeOK
  <1>1. Init => TypeOK
    BY DEF Init, TypeOK, Loaded
  <1> QED BY <1>1, TypeStep, PTL DEF Spec

--------------------------------------------------------------------------------
(* The slot found for an effect is its own or a free one, and its own if it
   has one. *)
LEMMA FoundSlot ==
    ASSUME NEW id \in Ids, NEW s \in Slots, FindSlot(s, id)
    PROVE  /\ slots[s] \in {id, Absent}
           /\ (\E t \in Slots : slots[t] = id) => slots[s] = id
  BY DEF FindSlot

(* Whatever fails and however often the firmware is reloaded, no effect holds
   two buzz generator slots. *)
THEOREM OneSlot == Spec => []OneSlotEach
  <1>1. Init => OneSlotEach
    BY DEF Init, OneSlotEach
  <1>2. TypeOK /\ OneSlotEach /\ [Next]_vars => OneSlotEach'
    <2> SUFFICES ASSUME TypeOK, OneSlotEach, [Next]_vars PROVE OneSlotEach'
      OBVIOUS
    <2>1. ASSUME NEW id \in Ids, NEW s \in Slots, FindSlot(s, id),
                 slots' = [slots EXCEPT ![s] = id] \/ slots' = [slots EXCEPT ![s] = Absent]
          PROVE  OneSlotEach'
      BY <2>1, FoundSlot DEF OneSlotEach, TypeOK
    <2>2. ASSUME slots' = slots
          PROVE  OneSlotEach'
      BY <2>2 DEF OneSlotEach
    <2>3. ASSUME NEW id \in Ids, NEW q \in Requests, UploadEffect(id, q)
          PROVE  OneSlotEach'
      BY <2>1, <2>2, <2>3
         DEF UploadEffect, UploadSine, UploadSineFails, UploadOwt, UploadOwtFails,
             UploadTable, UploadRejected, UploadNotRun
    <2>4. ASSUME NEW id \in Ids, EraseEffect(id)
          PROVE  OneSlotEach'
      <3>1. ASSUME FreeSlot(id) PROVE OneSlotEach'
        BY <2>1, <2>2, <3>1 DEF FreeSlot
      <3> QED
        BY <2>2, <2>4, <3>1
           DEF EraseEffect, EraseLoaded, EraseMapFails, EraseOwtFails, EraseUnknown, EraseNotRun
    <2> QED
      BY <2>2, <2>3, <2>4 DEF Next, FwReload, vars
  <1> QED BY <1>1, <1>2, TypeCorrect, PTL DEF Spec

--------------------------------------------------------------------------------
(* Ownership of waveforms and slots, while only SafeFaults occur. *)
Private == OwtPrivate /\ SlotPrivate

(* An effect entered at an index no other effect uses keeps all private. *)
LEMMA SettlePrivate ==
    ASSUME TypeOK, Private, NEW id \in Ids, NEW q \in Requests, NEW u \in Triggers,
           Settle(id, u, q),
           nowt' \in Nat, nowt' >= nowt,
           u.bank = "OWT" => u.ix >= nowt /\ u.ix < nowt',
           u.bank = "BUZ" => u.ix \in Slots /\ slots'[u.ix] = id,
           \A i \in Loaded \ {id} : list[i].bank = "BUZ" => slots'[list[i].ix] = i
    PROVE  Private'
  <1>1. CASE list' = list /\ id \notin Loaded
    <2>1. Loaded' = Loaded
      BY <1>1 DEF Loaded
    <2> QED BY <1>1, <2>1 DEF Private, OwtPrivate, SlotPrivate, TypeOK
  <1>2. CASE \E m \in Pads \cup {"INVALID"} : list' = Enter(id, EntryAt(u, m))
    <2>1. /\ Loaded' = Loaded \cup {id}
          /\ list'[id].bank = u.bank /\ list'[id].ix = u.ix
          /\ \A i \in Loaded \ {id} : list'[i] = list[i]
      BY <1>2, EnterEffect
    <2>2. u.ix \in Nat /\ nowt \in Nat /\ \A i \in Loaded : list[i].ix \in Nat
      BY DEF Triggers, TypeOK
    <2>3. OwtPrivate'
      BY <2>1, <2>2 DEF Private, OwtPrivate
    <2>4. SlotPrivate'
      BY <2>1 DEF Private, SlotPrivate, Slots
    <2> QED BY <2>3, <2>4 DEF Private
  <1> QED BY <1>1, <1>2, SettleEffect

LEMMA PrivateStep ==
    ASSUME Faults \subseteq SafeFaults, TypeOK, Private, [Next]_vars
    PROVE  Private'
  <1> USE DEF Private
  <1>1. ASSUME NEW id \in Ids, NEW q \in Requests, UploadEffect(id, q)
        PROVE  Private'
    <2>1. CASE UploadSine(id, q)
      <3>1. PICK s \in Slots :
              /\ FindSlot(s, id)
              /\ slots' = [slots EXCEPT ![s] = id]
              /\ Settle(id, [bank |-> "BUZ", ix |-> s], q)
        BY <2>1 DEF UploadSine
      <3>2. [bank |-> "BUZ", ix |-> s] \in Triggers
        BY DEF Triggers, Slots
      <3>3. \A i \in Loaded \ {id} : list[i].bank = "BUZ" => slots'[list[i].ix] = i
        BY <3>1, FoundSlot DEF SlotPrivate, TypeOK
      <3>4. slots'[s] = id /\ nowt' = nowt /\ nowt \in Nat
        BY <2>1, <3>1 DEF UploadSine, TypeOK
      <3> QED BY <3>1, <3>2, <3>3, <3>4, SettlePrivate
    <2>2. CASE UploadSineFails(id, q)
      <3>1. list' = list /\ nowt' = nowt /\ Loaded' = Loaded
        BY <2>2 DEF UploadSineFails, Loaded
      <3>2. slots' = slots \/ \E s \in Slots : FindSlot(s, id) /\ slots' = [slots EXCEPT ![s] = id]
        BY <2>2 DEF UploadSineFails
      <3>3. \A i \in Loaded : list[i].bank = "BUZ" => slots'[list[i].ix] = i
        BY <3>2, FoundSlot DEF SlotPrivate, TypeOK
      <3> QED BY <3>1, <3>3 DEF SlotPrivate, OwtPrivate, Slots
    <2>3. CASE UploadOwt(id, q)
      <3>1. q.what \in Waves
        BY <2>3 DEF UploadOwt, Requests
      <3>2. [bank |-> "OWT", ix |-> nowt] \in Triggers /\ nowt \in Nat
        BY DEF Triggers, TypeOK
      <3>3. nowt' = nowt + 1 /\ slots' = slots
        BY <2>3 DEF UploadOwt, Push
      <3> QED BY <2>3, <3>2, <3>3, SettlePrivate DEF UploadOwt, SlotPrivate
    <2>4. CASE UploadOwtFails(id, q)
      <3>1. list' = list /\ slots' = slots /\ Loaded' = Loaded
        BY <2>4 DEF UploadOwtFails, Loaded
      <3>2. nowt' >= nowt /\ nowt' \in Nat
        BY <2>4 DEF UploadOwtFails, Push, TypeOK
      <3> QED BY <3>1, <3>2 DEF SlotPrivate, OwtPrivate, Slots, TypeOK
    <2>5. CASE UploadTable(id, q)
      <3>1. [bank |-> q.kind, ix |-> q.what] \in Triggers /\ q.kind \notin {"OWT", "BUZ"}
        BY <2>5 DEF Triggers, UploadTable, InTable, Requests
      <3>2. nowt' = nowt /\ slots' = slots /\ nowt \in Nat
        BY <2>5 DEF UploadTable, TypeOK
      <3> QED BY <2>5, <3>1, <3>2, SettlePrivate DEF UploadTable, SlotPrivate
    <2>6. CASE UploadRejected(id, q) \/ UploadNotRun(id, q)
      BY <2>6 DEF UploadRejected, UploadNotRun, SlotPrivate, OwtPrivate, Slots, Loaded, fw
    <2> QED
      BY <1>1, <2>1, <2>2, <2>3, <2>4, <2>5, <2>6 DEF UploadEffect
  <1>2. ASSUME NEW id \in Ids, EraseEffect(id)
        PROVE  Private'
    <2>1. CASE EraseLoaded(id)
      <3>1. /\ Loaded' = Loaded \ {id}
            /\ \A i \in Loaded' :
                 /\ list'[i].bank = list[i].bank
                 /\ list'[i].ix = IF /\ list[id].bank = "OWT" /\ list[i].bank = "OWT"
                                     /\ list[i].ix > list[id].ix
                                  THEN list[i].ix - 1 ELSE list[i].ix
        BY <2>1, UnlinkEffect DEF EraseLoaded
      <3>2. \A i \in Loaded : list[i].ix \in Nat
        BY DEF TypeOK
      <3>3. nowt' = IF list[id].bank = "OWT" THEN nowt - 1 ELSE nowt
        BY <2>1 DEF EraseLoaded, Delete, OwtPrivate
      <3>4. OwtPrivate'
        <4>1. id \in Loaded /\ nowt \in Nat
          BY <2>1 DEF EraseLoaded, TypeOK
        <4>2. CASE list[id].bank = "OWT"
          <5>1. \A i \in Loaded' : list[i].bank = "OWT" =>
                  list[i].ix # list[id].ix /\ list[i].ix < nowt /\ list[id].ix < nowt
            BY <3>1, <4>1, <4>2 DEF OwtPrivate
          <5>2. \A i, j \in Loaded' : i # j /\ list[i].bank = "OWT" /\ list[j].bank = "OWT"
                  => list[i].ix # list[j].ix
            BY <3>1 DEF OwtPrivate
          <5>3. nowt' = nowt - 1 /\ list[id].ix \in Nat
                /\ \A i \in Loaded' : list[i].ix \in Nat
            BY <3>1, <3>2, <3>3, <4>1, <4>2
          <5>4. \A i \in Loaded' : list'[i].bank = "OWT" => list'[i].ix < nowt'
            BY <3>1, <4>1, <4>2, <5>1, <5>3
          <5>5. \A i, j \in Loaded' : i # j /\ list'[i].bank = "OWT" /\ list'[j].bank = "OWT"
                  => list'[j].ix # list'[i].ix
            BY <3>1, <4>2, <5>1, <5>2, <5>3
          <5> QED BY <5>4, <5>5 DEF OwtPrivate
        <4>3. CASE list[id].bank # "OWT"
          BY <3>1, <3>3, <4>1, <4>3 DEF OwtPrivate
        <4> QED BY <4>2, <4>3
      <3>5. \A i \in Loaded \ {id} : list[i].bank = "BUZ" => slots'[list[i].ix] = i
        <4>1. CASE list[id].bank = "BUZ"
          <5>1. PICK s \in Slots : FindSlot(s, id) /\ slots' = [slots EXCEPT ![s] = Absent]
            BY <2>1, <4>1 DEF EraseLoaded, FreeSlot
          <5>2. slots[s] = id
            BY <2>1, <4>1, <5>1, FoundSlot DEF SlotPrivate, EraseLoaded
          <5> QED BY <5>1, <5>2 DEF SlotPrivate, TypeOK
        <4>2. CASE list[id].bank # "BUZ"
          BY <2>1, <4>2 DEF EraseLoaded, FreeSlot, SlotPrivate
        <4> QED BY <4>1, <4>2
      <3>6. SlotPrivate'
        BY <3>1, <3>5 DEF SlotPrivate, Slots
      <3> QED BY <3>4, <3>6
    <2>2. CASE EraseOwtFails(id)
      <3>1. /\ Loaded' = Loaded /\ nowt' = nowt /\ slots' = slots
            /\ \A i \in Loaded : list'[i].bank = list[i].bank /\ list'[i].ix = list[i].ix
        BY <2>2 DEF EraseOwtFails, Loaded, SafeFaults, TypeOK
      <3> QED BY <3>1 DEF SlotPrivate, OwtPrivate, Slots
    <2>3. CASE EraseUnknown(id) \/ EraseNotRun(id)
      BY <2>3 DEF EraseUnknown, EraseNotRun, SlotPrivate, OwtPrivate, Slots, Loaded, fw
    <2>4. CASE EraseMapFails(id)
      BY <2>4 DEF EraseMapFails, SafeFaults
    <2> QED
      BY <1>2, <2>1, <2>2, <2>3, <2>4 DEF EraseEffect
  <1>3. CASE FwReload
    BY <1>3 DEF FwReload, SafeFaults
  <1>4. CASE UNCHANGED vars
    BY <1>4 DEF vars, fw, SlotPrivate, OwtPrivate, Slots, Loaded
  <1> QED
    BY <1>1, <1>2, <1>3, <1>4 DEF Next

(* While only SafeFaults occur, every OWT effect has a waveform of its own and
   every sine effect the slot it triggers. *)
THEOREM Ownership ==
    ASSUME Faults \subseteq SafeFaults
    PROVE  Spec => [](OwtPrivate /\ SlotPrivate)
  <1>1. Init => Private
    BY DEF Init, Private, OwtPrivate, SlotPrivate, Loaded
  <1>2. TypeOK /\ Private /\ [Next]_vars => Private'
    BY PrivateStep
  <1> QED BY <1>1, <1>2, TypeCorrect, PTL DEF Spec, Private

--------------------------------------------------------------------------------
(* The driver implements the store of effects. *)
Heard(i) == IF i \in Loaded THEN SoundOf(list[i]) ELSE Absent

(* Table entries point into the range a request can name. *)
TableIndexOK ==
    \A i \in Loaded : list[i].bank \in {"RAM", "ROM"} => list[i].ix \in 0 .. MaxIndex

Owned == TypeOK /\ Private /\ TableIndexOK

LEMMA TableIndexStep ==
    ASSUME TypeOK, TableIndexOK, [Next]_vars
    PROVE  TableIndexOK'
  <1>1. ASSUME NEW id \in Ids, NEW q \in Requests, NEW u \in Triggers, Settle(id, u, q),
               u.bank \in {"RAM", "ROM"} => u.ix \in 0 .. MaxIndex
        PROVE  TableIndexOK'
    <2>1. CASE list' = list
      BY <2>1 DEF TableIndexOK, Loaded
    <2>2. CASE \E m \in Pads \cup {"INVALID"} : list' = Enter(id, EntryAt(u, m))
      BY <1>1, <2>2, EnterEffect DEF TableIndexOK
    <2> QED BY <1>1, <2>1, <2>2, SettleEffect
  <1>2. ASSUME list' = list
        PROVE  TableIndexOK'
    BY <1>2 DEF TableIndexOK, Loaded
  <1>3. ASSUME NEW id \in Ids, NEW q \in Requests, UploadEffect(id, q)
        PROVE  TableIndexOK'
    <2>1. CASE UploadSine(id, q)
      <3>1. \A s \in Slots : [bank |-> "BUZ", ix |-> s] \in Triggers
        BY DEF Triggers, Slots
      <3> QED BY <1>1, <2>1, <3>1 DEF UploadSine
    <2>2. CASE UploadOwt(id, q)
      <3>1. [bank |-> "OWT", ix |-> nowt] \in Triggers
        BY DEF Triggers, TypeOK
      <3> QED BY <1>1, <2>2, <3>1 DEF UploadOwt
    <2>3. CASE UploadTable(id, q)
      <3>1. [bank |-> q.kind, ix |-> q.what] \in Triggers /\ q.what \in 0 .. MaxIndex
        BY <2>3 DEF Triggers, UploadTable, InTable, Requests
      <3> QED BY <1>1, <2>3, <3>1 DEF UploadTable
    <2> QED
      BY <1>2, <1>3, <2>1, <2>2, <2>3
         DEF UploadEffect, UploadSineFails, UploadOwtFails, UploadRejected, UploadNotRun
  <1>4. ASSUME NEW id \in Ids, EraseEffect(id)
        PROVE  TableIndexOK'
    <2>1. CASE EraseLoaded(id)
      BY <2>1, UnlinkEffect DEF EraseLoaded, TableIndexOK
    <2>2. CASE EraseOwtFails(id)
      BY <2>2 DEF EraseOwtFails, TableIndexOK, TypeOK, Loaded
    <2> QED
      BY <1>2, <1>4, <2>1, <2>2 DEF EraseEffect, EraseMapFails, EraseUnknown, EraseNotRun
  <1> QED
    BY <1>2, <1>3, <1>4 DEF Next, FwReload, vars

(* Every effect is heard as some sound. *)
LEMMA HeardSound ==
    ASSUME Owned, NEW i \in Ids
    PROVE  Heard(i) \in Sounds \cup {Absent}
  <1>1. CASE i \in Loaded
    <2>1. list[i] \in Entries
      BY <1>1 DEF Owned, TypeOK, Entries
    <2>2. CASE list[i].bank = "OWT"
      BY <1>1, <2>1, <2>2 DEF Owned, Private, OwtPrivate, TypeOK, Heard, SoundOf, Sounds, Entries
    <2>3. CASE list[i].bank = "BUZ"
      BY <1>1, <2>1, <2>3 DEF Owned, Private, SlotPrivate, TypeOK, Heard, SoundOf, Sounds, Entries
    <2>4. CASE list[i].bank \in {"RAM", "ROM"}
      BY <1>1, <2>1, <2>4 DEF Owned, TableIndexOK, Heard, SoundOf, Sounds, Entries
    <2> QED BY <2>1, <2>2, <2>3, <2>4 DEF Entries
  <1>2. CASE i \notin Loaded
    BY <1>2 DEF Heard
  <1> QED BY <1>1, <1>2

LEMMA AskedSound ==
    ASSUME NEW q \in Requests
    PROVE  SoundAsked(q) \in Sounds
  BY DEF SoundAsked, Sounds, Requests, Bank, AllKinds

(* An effect whose entry and waveform are untouched is heard as before. *)
LEMMA HeardSame ==
    ASSUME Owned, NEW i \in Ids, i \in Loaded, i \in Loaded',
           list'[i].bank = list[i].bank,
           list'[i].bank = "OWT" => list'[i].ix < nowt' /\ owt'[list'[i].ix] = owt[list[i].ix],
           list'[i].bank = "BUZ" => list'[i].ix = list[i].ix /\ buzz'[list[i].ix] = buzz[list[i].ix],
           list'[i].bank \in {"RAM", "ROM"} => list'[i].ix = list[i].ix
    PROVE  Heard(i)' = Heard(i)
  <1>1. list[i].bank \in {"OWT", "BUZ", "RAM", "ROM"}
    BY DEF Owned, TypeOK
  <1>2. list[i].bank = "OWT" => list[i].ix < nowt
    BY DEF Owned, Private, OwtPrivate
  <1> QED BY <1>1, <1>2 DEF Heard, SoundOf

(* Settling an upload unlinks no effect. *)
LEMMA SettleKeeps ==
    ASSUME TypeOK, NEW id \in Ids, NEW q \in Requests, NEW u \in Triggers,
           Settle(id, u, q), NEW i \in Loaded
    PROVE  i \in Ids /\ i \in Loaded'
  <1>1. CASE list' = list
    BY <1>1 DEF TypeOK, Loaded
  <1>2. CASE \E m \in Pads \cup {"INVALID"} : list' = Enter(id, EntryAt(u, m))
    BY <1>2, EnterEffect DEF TypeOK
  <1> QED BY <1>1, <1>2, SettleEffect

(* Settling an upload is an upload of the store, if no other effect is heard
   differently and the effect's own entry is heard as asked. *)
LEMMA SettleStore ==
    ASSUME Owned, NEW id \in Ids, NEW q \in Requests, NEW u \in Triggers,
           Settle(id, u, q),
           \A i \in Loaded \ {id} : list'[i] = list[i] => Heard(i)' = Heard(i),
           \A m \in Pads \cup {"INVALID"} : SoundOf(EntryAt(u, m))' = SoundAsked(q)
    PROVE  \/ Store!Upload(id, SoundAsked(q))
           \/ Store!UploadFails(id, SoundAsked(q))
  <1> DEFINE st == [i \in Ids |-> Heard(i)]
  <1>1. ASSUME NEW m \in Pads \cup {"INVALID"}, list' = Enter(id, EntryAt(u, m))
        PROVE  st' = [st EXCEPT ![id] = SoundAsked(q)]
    <2>1. /\ Loaded' = Loaded \cup {id}
          /\ list'[id] = EntryAt(u, m)
          /\ \A i \in Loaded \ {id} : list'[i] = list[i]
      BY <1>1, EnterEffect DEF Owned
    <2>2. Heard(id)' = SoundAsked(q)
      BY <1>1, <2>1 DEF Heard, EntryAt, SoundOf
    <2>3. \A i \in Ids \ {id} : Heard(i)' = Heard(i)
      BY <2>1 DEF Heard
    <2> QED BY <2>2, <2>3
  <1>2. ASSUME list' = list, id \notin Loaded
        PROVE  st' = st /\ st[id] = Absent
    <2>1. Loaded' = Loaded
      BY <1>2 DEF Loaded
    <2>2. \A i \in Ids : Heard(i)' = Heard(i)
      BY <1>2, <2>1 DEF Heard
    <2> QED BY <1>2, <2>2 DEF Heard
  <1>3. \E t \in Sounds \cup {Absent} : st' = [st EXCEPT ![id] = t]
    BY <1>1, <1>2, SettleEffect, AskedSound DEF Owned
  <1>4. CASE Publish(id, u, q) /\ UploadEnds(id, q, TRUE)
    <2> DEFINE m == IF WantsPad(q) THEN q.pad ELSE "INVALID"
    <2>1. m \in Pads \cup {"INVALID"} /\ list' = Enter(id, EntryAt(u, m))
      BY <1>4 DEF Publish, EntryAt
    <2> QED
      BY <1>1, <1>4, <2>1 DEF Store!Upload, UploadEnds, UploadReturns, Heard
  <1>5. CASE \/ Publish(id, u, q) /\ UploadEnds(id, q, FALSE)
             \/ MapFails(id, u, q) /\ UploadEnds(id, q, FALSE)
    BY <1>3, <1>5 DEF Store!UploadFails, UploadEnds, UploadReturns, Heard
  <1> QED BY <1>4, <1>5 DEF Settle

(* A failed upload after which every other effect is heard as before. *)
LEMMA FailStore ==
    ASSUME Owned, NEW id \in Ids, NEW q \in Requests, UploadEnds(id, q, FALSE),
           \A i \in Ids \ {id} : Heard(i)' = Heard(i),
           Heard(id)' \in Sounds \cup {Absent}
    PROVE  Store!UploadFails(id, SoundAsked(q))
  <1> DEFINE st == [i \in Ids |-> Heard(i)]
  <1>1. st' = [st EXCEPT ![id] = Heard(id)']
    OBVIOUS
  <1> QED BY <1>1 DEF Store!UploadFails, UploadEnds, UploadReturns, Heard

LEMMA UploadStore ==
    ASSUME Faults \subseteq SafeFaults, Owned, NEW id \in Ids, NEW q \in Requests,
           UploadEffect(id, q)
    PROVE  \/ Store!Upload(id, SoundAsked(q))
           \/ Store!UploadFails(id, SoundAsked(q))
  <1> USE DEF Owned
  <1>1. CASE UploadSine(id, q)
    <2>1. PICK s \in Slots :
            /\ FindSlot(s, id)
            /\ buzz' = [buzz EXCEPT ![s] = q.what]
            /\ Settle(id, [bank |-> "BUZ", ix |-> s], q)
      BY <1>1 DEF UploadSine
    <2>2. [bank |-> "BUZ", ix |-> s] \in Triggers
      BY DEF Triggers, Slots
    <2>3. ASSUME NEW i \in Loaded \ {id}, list'[i] = list[i]
          PROVE  Heard(i)' = Heard(i)
      <3>1. i \in Ids /\ i \in Loaded'
        BY <2>1, <2>2, SettleKeeps
      <3>2. list[i].bank = "BUZ" => list[i].ix # s
        BY <2>1, FoundSlot, ValueAssumption DEF Private, SlotPrivate, TypeOK
      <3>3. list[i].bank = "BUZ" => buzz'[list[i].ix] = buzz[list[i].ix]
        BY <2>1, <3>2 DEF TypeOK, Private, SlotPrivate
      <3>4. list[i].bank = "OWT" => list[i].ix < nowt' /\ owt' = owt
        BY <1>1 DEF UploadSine, Private, OwtPrivate
      <3> QED BY <2>3, <3>1, <3>3, <3>4, HeardSame
    <2>4. ASSUME NEW m \in Pads \cup {"INVALID"}
          PROVE  SoundOf(EntryAt([bank |-> "BUZ", ix |-> s], m))' = SoundAsked(q)
      <3>1. buzz'[s] = q.what /\ q.kind = "SINE"
        BY <1>1, <2>1 DEF TypeOK, UploadSine
      <3> QED BY <3>1 DEF SoundOf, EntryAt, SoundAsked, Bank
    <2> QED BY <2>1, <2>2, <2>3, <2>4, SettleStore
  <1>2. CASE UploadSineFails(id, q)
    <2>1. list' = list /\ Loaded' = Loaded /\ nowt' = nowt /\ owt' = owt
      BY <1>2 DEF UploadSineFails, Loaded
    <2>2. q.what \in Waves
      BY <1>2 DEF UploadSineFails, Requests
    <2>3. ASSUME NEW i \in Ids, i \in Loaded => list[i].bank # "BUZ" \/ buzz'[list[i].ix] = buzz[list[i].ix]
          PROVE  Heard(i)' = Heard(i)
      BY <2>1, <2>3 DEF Heard, SoundOf
    <2>4. CASE buzz' = buzz
      BY <1>2, <2>3, <2>4, FailStore, HeardSound DEF UploadSineFails
    <2>5. CASE \E s \in Slots : FindSlot(s, id)
                  /\ \E w \in {buzz[s], Garbage, q.what} : buzz' = [buzz EXCEPT ![s] = w]
      <3>1. PICK s \in Slots, w \in Waves \cup {Garbage} :
              FindSlot(s, id) /\ buzz' = [buzz EXCEPT ![s] = w]
        BY <2>2, <2>5 DEF TypeOK
      <3>2. \A i \in Loaded \ {id} : list[i].bank = "BUZ" =>
              list[i].ix # s /\ buzz'[list[i].ix] = buzz[list[i].ix]
        BY <3>1, FoundSlot, ValueAssumption DEF Private, SlotPrivate, TypeOK
      <3>3. \A i \in Ids \ {id} : Heard(i)' = Heard(i)
        BY <2>3, <3>2
      <3>4. Heard(id)' \in Sounds \cup {Absent}
        <4>1. CASE id \in Loaded /\ list[id].bank = "BUZ" /\ list[id].ix = s
          <5>1. buzz'[s] = w
            BY <3>1 DEF TypeOK
          <5>2. Heard(id)' = [bank |-> "BUZ", what |-> w]
            BY <2>1, <4>1, <5>1 DEF Heard, SoundOf
          <5> QED BY <5>2 DEF Sounds
        <4>2. CASE ~(id \in Loaded /\ list[id].bank = "BUZ" /\ list[id].ix = s)
          <5>1. id \in Loaded /\ list[id].bank = "BUZ" => buzz'[list[id].ix] = buzz[list[id].ix]
            BY <3>1, <4>2 DEF TypeOK, Private, SlotPrivate
          <5> QED BY <2>3, <5>1, HeardSound
        <4> QED BY <4>1, <4>2
      <3> QED BY <1>2, <3>3, <3>4, FailStore DEF UploadSineFails
    <2> QED BY <1>2, <2>4, <2>5 DEF UploadSineFails
  <1>3. CASE UploadOwt(id, q)
    <2> SUFFICES ASSUME NEW n \in Nat, n = nowt
                 PROVE  \/ Store!Upload(id, SoundAsked(q))
                        \/ Store!UploadFails(id, SoundAsked(q))
      BY DEF TypeOK
    <2>1. [bank |-> "OWT", ix |-> n] \in Triggers
      BY DEF Triggers
    <2>2. /\ nowt' = n + 1 /\ owt'[n] = q.what /\ buzz' = buzz
          /\ \A k \in 0 .. n - 1 : owt'[k] = owt[k]
      BY <1>3 DEF UploadOwt, Push
    <2>3. Settle(id, [bank |-> "OWT", ix |-> n], q)
      BY <1>3 DEF UploadOwt
    <2>4. ASSUME NEW i \in Loaded \ {id}, list'[i] = list[i]
          PROVE  Heard(i)' = Heard(i)
      <3>1. i \in Ids /\ i \in Loaded'
        BY <2>1, <2>3, SettleKeeps
      <3>2. list[i].bank = "OWT" => list[i].ix \in 0 .. n - 1
        BY <2>4 DEF TypeOK, Private, OwtPrivate
      <3> QED BY <2>2, <2>4, <3>1, <3>2, HeardSame
    <2>5. ASSUME NEW m \in Pads \cup {"INVALID"}
          PROVE  SoundOf(EntryAt([bank |-> "OWT", ix |-> n], m))' = SoundAsked(q)
      <3>1. q.kind = "OWT" /\ n < nowt'
        BY <1>3, <2>2 DEF UploadOwt
      <3> QED BY <2>2, <3>1 DEF SoundOf, EntryAt, SoundAsked, Bank
    <2> QED BY <2>1, <2>3, <2>4, <2>5, SettleStore
  <1>4. CASE UploadOwtFails(id, q)
    <2>1. list' = list /\ Loaded' = Loaded /\ buzz' = buzz
      BY <1>4 DEF UploadOwtFails, Loaded
    <2>2. nowt' >= nowt /\ nowt' \in Nat /\ \A k \in 0 .. nowt - 1 : owt'[k] = owt[k]
      BY <1>4 DEF UploadOwtFails, Push, TypeOK
    <2>3. ASSUME NEW i \in Ids
          PROVE  Heard(i)' = Heard(i)
      <3>1. i \in Loaded /\ list[i].bank = "OWT" =>
              list[i].ix \in 0 .. nowt - 1 /\ list[i].ix < nowt'
        BY <2>2 DEF TypeOK, Private, OwtPrivate
      <3>2. CASE i \in Loaded
        BY <2>1, <2>2, <3>1, <3>2, HeardSame
      <3>3. CASE i \notin Loaded
        BY <2>1, <3>3 DEF Heard
      <3> QED BY <3>2, <3>3
    <2> QED BY <1>4, <2>3, FailStore, HeardSound DEF UploadOwtFails
  <1>5. CASE UploadTable(id, q)
    <2>1. [bank |-> q.kind, ix |-> q.what] \in Triggers /\ q.kind \in {"RAM", "ROM"}
      BY <1>5 DEF Triggers, UploadTable, InTable, Requests
    <2>2. nowt' = nowt /\ owt' = owt /\ buzz' = buzz /\ Settle(id, [bank |-> q.kind, ix |-> q.what], q)
      BY <1>5 DEF UploadTable
    <2>3. ASSUME NEW i \in Loaded \ {id}, list'[i] = list[i]
          PROVE  Heard(i)' = Heard(i)
      <3>1. i \in Ids /\ i \in Loaded'
        BY <2>1, <2>2, SettleKeeps
      <3> QED BY <2>2, <2>3, <3>1, HeardSame DEF Private, OwtPrivate
    <2>4. ASSUME NEW m \in Pads \cup {"INVALID"}
          PROVE  SoundOf(EntryAt([bank |-> q.kind, ix |-> q.what], m))' = SoundAsked(q)
      BY <2>1 DEF SoundOf, EntryAt, SoundAsked, Bank
    <2> QED BY <2>1, <2>2, <2>3, <2>4, SettleStore
  <1>6. CASE UploadRejected(id, q)
    <2>1. \A i \in Ids : Heard(i)' = Heard(i)
      BY <1>6 DEF UploadRejected, fw, Heard, SoundOf, Loaded
    <2> QED BY <1>6, <2>1, FailStore, HeardSound DEF UploadRejected
  <1>7. ~UploadNotRun(id, q)
    BY DEF UploadNotRun, SafeFaults
  <1> QED
    BY <1>1, <1>2, <1>3, <1>4, <1>5, <1>6, <1>7 DEF UploadEffect

LEMMA EraseStore ==
    ASSUME Faults \subseteq SafeFaults, Owned, NEW id \in Ids, EraseEffect(id)
    PROVE  Store!Erase(id) \/ Store!EraseFails(id)
  <1> USE DEF Owned
  <1> DEFINE st == [i \in Ids |-> Heard(i)]
  <1>1. CASE EraseLoaded(id)
    <2>1. id \in Loaded /\ Unlink(id) /\ buzz' = buzz /\ nowt \in Nat
      BY <1>1 DEF EraseLoaded, TypeOK
    <2>2. ASSUME NEW i \in Loaded \ {id}
          PROVE  Heard(i)' = Heard(i)
      <3>1. /\ i \in Loaded' /\ i \in Ids
            /\ list'[i].bank = list[i].bank
            /\ list'[i].ix = IF /\ list[id].bank = "OWT" /\ list[i].bank = "OWT"
                                /\ list[i].ix > list[id].ix
                             THEN list[i].ix - 1 ELSE list[i].ix
        BY <2>1, UnlinkEffect DEF TypeOK
      <3>2. list[i].ix \in Nat /\ list[id].ix \in Nat
        BY <2>1 DEF TypeOK
      <3>3. ASSUME list[i].bank = "OWT"
            PROVE  list'[i].ix < nowt' /\ owt'[list'[i].ix] = owt[list[i].ix]
        <4>1. list[i].ix < nowt
          BY <3>3 DEF Private, OwtPrivate
        <4>2. CASE list[id].bank = "OWT"
          <5>1. list[id].ix < nowt /\ list[i].ix # list[id].ix
            BY <2>1, <3>3, <4>2 DEF Private, OwtPrivate
          <5>2. /\ nowt' = nowt - 1
                /\ owt' = [k \in 0 .. nowt - 2 |->
                             IF k < list[id].ix THEN owt[k] ELSE owt[k + 1]]
            BY <1>1, <4>2, <5>1 DEF EraseLoaded, Delete
          <5>3. CASE list[i].ix > list[id].ix
            <6>1. list'[i].ix = list[i].ix - 1 /\ list'[i].ix \in 0 .. nowt - 2
              BY <2>1, <3>1, <3>2, <3>3, <4>1, <4>2, <5>3
            <6>2. owt'[list'[i].ix] = owt[list[i].ix - 1 + 1]
              BY <3>2, <5>2, <5>3, <6>1
            <6> QED BY <2>1, <3>2, <5>2, <6>1, <6>2
          <5>4. CASE list[i].ix < list[id].ix
            <6>1. list'[i].ix = list[i].ix /\ list'[i].ix \in 0 .. nowt - 2
              BY <2>1, <3>1, <3>2, <5>1, <5>4
            <6> QED BY <2>1, <3>2, <5>2, <5>4, <6>1
          <5> QED BY <3>2, <5>1, <5>3, <5>4
        <4>3. CASE list[id].bank # "OWT"
          BY <1>1, <3>1, <4>1, <4>3 DEF EraseLoaded
        <4> QED BY <4>2, <4>3
      <3> QED BY <2>1, <3>1, <3>3, HeardSame
    <2>3. \A i \in Ids : Heard(i)' = IF i = id THEN Absent ELSE Heard(i)
      BY <2>1, <2>2, UnlinkEffect DEF Heard
    <2>4. st' = [st EXCEPT ![id] = Absent]
      BY <2>3
    <2> QED BY <1>1, <2>4 DEF EraseLoaded, EraseEnds, EraseReturns, Store!Erase, Heard
  <1>2. CASE EraseOwtFails(id)
    <2>1. /\ Loaded' = Loaded /\ nowt' = nowt /\ owt' = owt /\ buzz' = buzz
          /\ \A i \in Loaded : list'[i].bank = list[i].bank /\ list'[i].ix = list[i].ix
      BY <1>2 DEF EraseOwtFails, Loaded, SafeFaults, TypeOK
    <2>2. \A i \in Ids : Heard(i)' = Heard(i)
      BY <2>1 DEF Heard, SoundOf
    <2> QED BY <1>2, <2>2 DEF EraseOwtFails, EraseEnds, EraseReturns, Store!EraseFails, Heard
  <1>3. CASE EraseUnknown(id)
    <2>1. \A i \in Ids : Heard(i)' = Heard(i)
      BY <1>3 DEF EraseUnknown, fw, Heard, SoundOf, Loaded
    <2> QED BY <1>3, <2>1 DEF EraseUnknown, EraseEnds, EraseReturns, Store!EraseFails, Heard
  <1>4. ~EraseMapFails(id) /\ ~EraseNotRun(id)
    BY DEF EraseMapFails, EraseNotRun, SafeFaults
  <1> QED
    BY <1>1, <1>2, <1>3, <1>4 DEF EraseEffect

(* While only SafeFaults occur, the effect list, the slots and the Open
   Wavetable together are the store of effects user space is promised. *)
THEOREM StoreImplemented ==
    ASSUME Faults \subseteq SafeFaults
    PROVE  Spec => ImplementsStore
  <1>1. Init => Owned /\ Store!Init
    BY DEF Init, Owned, TypeOK, Private, OwtPrivate, SlotPrivate, TableIndexOK, Loaded,
           Store!Init
  <1>2. Owned /\ [Next]_vars => Owned'
    BY TypeStep, PrivateStep, TableIndexStep DEF Owned
  <1>3. Owned /\ [Next]_vars => [Store!Next]_Store!vars
    <2> SUFFICES ASSUME Owned, [Next]_vars PROVE [Store!Next]_Store!vars
      OBVIOUS
    <2>1. ASSUME NEW id \in Ids, NEW q \in Requests, UploadEffect(id, q)
          PROVE  Store!Next
      BY <2>1, UploadStore, AskedSound DEF Store!Next
    <2>2. ASSUME NEW id \in Ids, EraseEffect(id)
          PROVE  Store!Next
      BY <2>2, EraseStore DEF Store!Next
    <2>3. ~FwReload
      BY DEF FwReload, SafeFaults
    <2>4. CASE UNCHANGED vars
      BY <2>4 DEF vars, fw, Store!vars, Loaded, SoundOf
    <2> QED BY <2>1, <2>2, <2>3, <2>4 DEF Next
  <1> QED
    BY <1>1, <1>2, <1>3, PTL DEF Spec, ImplementsStore, Store!Spec
================================================================================
