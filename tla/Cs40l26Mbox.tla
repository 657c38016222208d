----------------------------- MODULE Cs40l26Mbox -----------------------------
(***************************************************************************)
(* The mailbox queue in the CS40L26 DSP's memory: a ring the DSP writes and *)
(* the interrupt thread drains, one register access at a time.  Messages    *)
(* are numbered in the order the DSP accepted them.  Some make the thread   *)
(* stop draining (PANIC, SYS_ACK and values it does not know); accesses may *)
(* fail; and the DSP sets STATUS when it finds no room.                     *)
(***************************************************************************)
EXTENDS Integers, FiniteSets

CONSTANTS
    Len,                \* words of the ring (QUEUE_LEN)
    MaxSent             \* bound: messages the DSP sends

MboxAssumption == Len \in Nat /\ Len >= 2 /\ MaxSent \in Nat

VARIABLES
    calm,               \* no access fails and no message stops the thread; chosen once
    mem,                \* the ring
    wt,                 \* QUEUE_WT, relative to QUEUE_BASE
    rd,                 \* QUEUE_RD, likewise
    full,               \* STATUS: the DSP had no room
    stops,              \* the messages that stop the thread
    sent,               \* messages accepted
    handled,            \* messages dispatched
    attn,               \* VIRTUAL2_MBOX_WR is latched
    pc,                 \* where cs40l26_mbox_buffer_read is
    read_ptr,           \* local: the read pointer
    write_ptr,          \* local: the write pointer
    val                 \* local: the message

dsp == <<mem, wt, full, stops, sent>>
locals == <<read_ptr, write_ptr, val>>
vars == <<calm, dsp, rd, handled, attn, pc, locals>>

Slots == 0 .. Len - 1

TypeOK ==
    /\ calm \in BOOLEAN
    /\ mem \in [Slots -> Nat]
    /\ wt \in Slots /\ rd \in Slots
    /\ full \in BOOLEAN
    /\ stops \in SUBSET Nat
    /\ sent \in Nat /\ handled \in Nat
    /\ attn \in BOOLEAN
    /\ pc \in {"idle", "pointers", "status", "message", "advance", "dispatch"}
    /\ read_ptr \in Slots /\ write_ptr \in Slots
    /\ val \in Nat

Init ==
    /\ calm \in BOOLEAN
    /\ mem = [s \in Slots |-> 0]
    /\ wt \in Slots /\ rd = wt
    /\ full = FALSE /\ stops = {}
    /\ sent = 0 /\ handled = 0
    /\ attn = FALSE
    /\ pc = "idle" /\ read_ptr = 0 /\ write_ptr = 0 /\ val = 0

(* MUTANT of After: the last word of the ring is skipped. *)
AfterButLast(p) == IF p >= Len - 2 THEN 0 ELSE p + 1

(* "if (read_ptr == last) read_ptr = base; else read_ptr += ..." *)
After(p) == IF p = Len - 1 THEN 0 ELSE p + 1

(* The DSP's own step to the next word. *)
DspAfter(p) == IF p = Len - 1 THEN 0 ELSE p + 1

--------------------------------------------------------------------------------
(* The DSP writes a message and latches its interrupt, or gives up. *)
Send(stop) ==
    /\ sent < MaxSent /\ ~full
    /\ calm => ~stop
    /\ IF DspAfter(wt) = rd
       THEN full' = TRUE /\ UNCHANGED <<mem, wt, stops, sent>>
       ELSE /\ mem' = [mem EXCEPT ![wt] = sent]
            /\ wt' = DspAfter(wt)
            /\ sent' = sent + 1
            /\ stops' = IF stop THEN stops \cup {sent} ELSE stops
            /\ UNCHANGED full
    /\ attn' = TRUE
    /\ UNCHANGED <<calm, rd, handled, pc, locals>>

(* The interrupt is acknowledged before the handler runs. *)
Irq ==
    /\ pc = "idle" /\ attn
    /\ attn' = FALSE
    /\ pc' = "pointers"
    /\ UNCHANGED <<calm, dsp, rd, handled, locals>>

(* regmap_bulk_read of base, length and both pointers *)
Pointers ==
    /\ pc = "pointers"
    /\ write_ptr' = wt /\ read_ptr' = rd
    /\ pc' = "status"
    /\ UNCHANGED <<calm, dsp, rd, handled, attn, val>>

(* MUTANT of Status: the thread believes the ring is drained one word early. *)
StatusNearEnd ==
    /\ pc = "status"
    /\ pc' = IF full \/ read_ptr = write_ptr \/ After(read_ptr) = write_ptr
             THEN "idle" ELSE "message"
    /\ UNCHANGED <<calm, dsp, rd, handled, attn, locals>>

(* An error status, or the end of the queue, ends the drain. *)
Status ==
    /\ pc = "status"
    /\ pc' = IF full \/ read_ptr = write_ptr THEN "idle" ELSE "message"
    /\ UNCHANGED <<calm, dsp, rd, handled, attn, locals>>

Message ==
    /\ pc = "message"
    /\ val' = mem[read_ptr]
    /\ read_ptr' = After(read_ptr)
    /\ pc' = "advance"
    /\ UNCHANGED <<calm, dsp, rd, handled, attn, write_ptr>>

(* QUEUE_RD *)
Advance ==
    /\ pc = "advance"
    /\ rd' = read_ptr
    /\ pc' = "dispatch"
    /\ UNCHANGED <<calm, dsp, handled, attn, locals>>

(* cs40l26_handle_mbox_buffer *)
Dispatch ==
    /\ pc = "dispatch"
    /\ handled' = handled + 1
    /\ pc' = IF val \in stops THEN "idle" ELSE "pointers"
    /\ UNCHANGED <<calm, dsp, rd, attn, locals>>

(* A failed access ends the drain. *)
Fails ==
    /\ ~calm /\ pc \in {"pointers", "status", "message", "advance"}
    /\ pc' = "idle"
    /\ UNCHANGED <<calm, dsp, rd, handled, attn, locals>>

Handler == Irq \/ Pointers \/ Status \/ Message \/ Advance \/ Dispatch

Next == (\E stop \in BOOLEAN : Send(stop)) \/ Handler \/ Fails

Spec == Init /\ [][Next]_vars

(* The interrupt thread is scheduled. *)
FairSpec == Spec /\ WF_vars(Handler)

--------------------------------------------------------------------------------
(* Each message is dispatched once, in the order the DSP sent them, whatever
   accesses fail and however the DSP writes meanwhile (the read pointer is
   written back only after the message was read). *)
InOrder == pc = "dispatch" => val = handled

(* What the DSP accepted and the thread has not dispatched is still in the
   ring, or in the thread's hands. *)
Kept ==
    \A n \in handled .. sent - 1 :
        \/ \E s \in Slots : mem[s] = n
        \/ pc = "dispatch" /\ val = n

(* Every message is dispatched, if none stops the thread, no access fails and
   the ring never overflows: a message that arrives while the thread drains
   latches the interrupt again. *)
Drained == []<>(handled = sent \/ full \/ ~calm)

(* The inductive invariant: the words from the read to the write pointer hold
   the messages sent but not taken, in order. *)
Taken == IF pc = "dispatch" THEN handled + 1 ELSE handled

Outstanding == IF wt >= rd THEN wt - rd ELSE Len + wt - rd

RingHolds ==
    /\ sent = Taken + Outstanding
    /\ \A s \in Slots :
         /\ (rd <= s /\ s < wt) => mem[s] = Taken + (s - rd)
         /\ (wt < rd /\ rd <= s) => mem[s] = Taken + (s - rd)
         /\ (wt < rd /\ s < wt) => mem[s] = Taken + (Len - rd) + s

HandHolds ==
    /\ pc \in {"status", "message"} => read_ptr = rd
    /\ (pc = "status" /\ write_ptr # rd) => wt # rd
    /\ pc = "message" => wt # rd
    /\ pc = "advance" => wt # rd /\ val = mem[rd] /\ read_ptr = After(rd)

Inv == TypeOK /\ RingHolds /\ HandHolds /\ InOrder
================================================================================
