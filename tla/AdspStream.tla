------------------------------ MODULE AdspStream ------------------------------
(***************************************************************************)
(* A compressed capture stream of a DSP's host buffer: the firmware writes *)
(* words into a ring of regions and interrupts once a fragment is there;   *)
(* the driver keeps its read index and what it believes to be available,   *)
(* and re-arms the interrupt when a reader finds too little.  (the         *)
(* wm_adsp_compr_* and wm_adsp_buffer_* functions of wm_adsp.c, which      *)
(* pwr_lock serialises)                                                    *)
(***************************************************************************)
EXTENDS Integers

CONSTANTS
    Setups,             \* "sound"; "restarts": streams are stopped and started again;
                        \* "faulty": words cannot be copied to the reader
    Regions,            \* the words of each region of the ring
    Fragments,          \* fragment sizes, in words
    MaxWords            \* bound of the words a behaviour is about

StreamAssumption ==
    /\ Setups \subseteq {"sound", "restarts", "faulty"}
    /\ Regions # <<>> /\ \A r \in DOMAIN Regions : Regions[r] \in Nat \ {0}
    /\ Fragments \subseteq Nat \ {0} /\ MaxWords \in Nat

VARIABLES
    setup,
    stream,             \* "closed", "open", "prepared" (it has parameters), "running"
    frag,               \* compr: words of a fragment
    copied_total,       \* compr: words given to the reader
    attached,           \* compr: it has the buffer
    waiting,            \* the reader sleeps until snd_compr_fragment_elapsed
    on,                 \* the DSP runs, and buffer_list has its buffer
    fatal_error,
    read_index, avail,  \* buf; read_index -1 is unknown
    irq_odd,            \* buf: irq_count is odd, no acknowledgement is due
    buf_error,          \* buf: the error last read
    next_read_index,    \* DSP: -1 until its algorithm starts
    error,              \* DSP: it had no room
    armed, irq,         \* DSP: it may interrupt; its interrupt is pending
    high_water_mark,    \* DSP
    first, produced,    \* the word at index 0, and how many words there were
    taken, origin,      \* words taken out of the ring; at the time the stream was opened
    torn                \* a word was read that is not the next

vars == <<setup, stream, frag, copied_total, attached, waiting, on, fatal_error, read_index, avail,
          irq_odd, buf_error, next_read_index, error, armed, irq, high_water_mark, first, produced,
          taken, origin, torn>>

Compr == <<stream, frag, copied_total, attached, origin>>
Buf == <<read_index, avail, irq_odd, buf_error>>
Dsp == <<next_read_index, error, armed, irq, high_water_mark, first, produced>>

RegionIds == DOMAIN Regions

(* wm_adsp_buffer_populate *)
cumulative_size[r \in {0} \cup RegionIds] ==
    IF r \in RegionIds THEN cumulative_size[r - 1] + Regions[r] ELSE 0
Size == cumulative_size[CHOOSE r \in RegionIds : r + 1 \notin RegionIds]

TypeOK ==
    /\ setup \in Setups /\ stream \in {"closed", "open", "prepared", "running"}
    /\ frag \in Fragments \cup {0} /\ high_water_mark \in Fragments \cup {0}
    /\ avail \in Nat /\ avail < Size
    /\ read_index \in Int /\ -1 <= read_index /\ read_index < Size
    /\ next_read_index \in Int /\ -1 <= next_read_index /\ next_read_index < Size
    /\ copied_total \in Nat /\ copied_total <= MaxWords /\ produced \in Nat /\ produced <= MaxWords
    /\ first \in Nat /\ first <= MaxWords /\ taken \in Nat /\ taken <= MaxWords
    /\ origin \in Nat /\ origin <= MaxWords
    /\ attached \in BOOLEAN /\ waiting \in BOOLEAN /\ on \in BOOLEAN /\ fatal_error \in BOOLEAN
    /\ irq_odd \in BOOLEAN /\ buf_error \in BOOLEAN /\ error \in BOOLEAN /\ armed \in BOOLEAN
    /\ irq \in BOOLEAN /\ torn \in BOOLEAN

Init ==
    /\ setup \in Setups /\ stream = "closed" /\ frag = 0 /\ copied_total = 0 /\ origin = 0
    /\ attached = FALSE /\ waiting = FALSE /\ on = FALSE /\ fatal_error = FALSE
    /\ read_index = -1 /\ avail = 0 /\ irq_odd = TRUE /\ buf_error = FALSE
    /\ next_read_index = -1 /\ error = FALSE /\ armed = TRUE /\ irq = FALSE
    /\ high_water_mark = 0 /\ first = 0 /\ produced = 0 /\ taken = 0 /\ torn = FALSE

--------------------------------------------------------------------------------
(* The firmware. *)
next_write_index == (produced - first) % Size

(* How many words are in the ring, for the firmware. *)
Filled == (next_write_index - next_read_index) % Size

DspStarts ==
    /\ on /\ next_read_index = -1 /\ next_read_index' = 0
    /\ UNCHANGED <<setup, Compr, waiting, on, fatal_error, Buf, error, armed, irq, high_water_mark,
                   first, produced, taken, torn>>

(* A word that finds no room is an error, which stays. *)
DspProduces ==
    /\ on /\ next_read_index # -1 /\ ~error /\ produced < MaxWords
    /\ IF Filled = Size - 1
       THEN error' = TRUE /\ UNCHANGED produced
       ELSE produced' = produced + 1 /\ UNCHANGED error
    /\ UNCHANGED <<setup, Compr, waiting, on, fatal_error, Buf, next_read_index, armed, irq,
                   high_water_mark, first, taken, torn>>

DspInterrupts ==
    /\ on /\ armed /\ high_water_mark > 0
    /\ error \/ (next_read_index # -1 /\ Filled >= high_water_mark)
    /\ armed' = FALSE /\ irq' = TRUE
    /\ UNCHANGED <<setup, Compr, waiting, on, fatal_error, Buf, next_read_index, error,
                   high_water_mark, first, produced, taken, torn>>

(* wm_adsp_event, POST_PMU, with wm_adsp_buffer_init: the algorithm has a ring of its own. *)
DspOn ==
    /\ ~on /\ on' = TRUE
    /\ read_index' = -1 /\ avail' = 0 /\ irq_odd' = TRUE /\ buf_error' = FALSE
    /\ next_read_index' = -1 /\ error' = FALSE /\ armed' = TRUE /\ irq' = FALSE
    /\ high_water_mark' = 0 /\ produced' = taken /\ first' = taken
    /\ UNCHANGED <<setup, Compr, waiting, fatal_error, taken, torn>>

(* wm_adsp_compr_detach *)
Detached == attached' = FALSE /\ waiting' = FALSE

(* PRE_PMD, with wm_adsp_buffer_free: only a stream that has the buffer is told. *)
DspOff ==
    /\ on /\ on' = FALSE /\ fatal_error' = FALSE
    /\ IF attached THEN Detached ELSE UNCHANGED <<attached, waiting>>
    /\ irq' = FALSE
    /\ UNCHANGED <<setup, stream, frag, copied_total, origin, Buf, next_read_index, error, armed,
                   high_water_mark, first, produced, taken, torn>>

(* wm_halo_wdt_expire, wm_adsp_fatal_error: every stream is told. *)
WdtExpire ==
    /\ on /\ ~fatal_error /\ fatal_error' = TRUE /\ waiting' = FALSE
    /\ UNCHANGED <<setup, Compr, on, Buf, Dsp, taken, torn>>

--------------------------------------------------------------------------------
(* wm_adsp_buffer_clear *)
BufferClear == irq_odd' = TRUE /\ read_index' = -1 /\ avail' = 0

(* wm_adsp_buffer_update_avail: of an algorithm that has not started nothing is known. *)
ReadIndex == IF read_index < 0 THEN next_read_index ELSE read_index

(* MUTANT of Avail: the distance is taken without the wrap. *)
AvailStraight ==
    LET n == next_write_index - ReadIndex
    IN  IF ReadIndex < 0 THEN avail ELSE IF n < 0 THEN -n ELSE n

Avail ==
    LET n == next_write_index - ReadIndex
    IN  IF ReadIndex < 0 THEN avail ELSE IF n < 0 THEN n + Size ELSE n

UpdateAvail == read_index' = ReadIndex /\ avail' = Avail

CompressOpen ==
    /\ stream = "closed" /\ stream' = "open" /\ copied_total' = 0 /\ origin' = taken
    /\ UNCHANGED <<setup, frag, attached, waiting, on, fatal_error, Buf, Dsp, taken, torn>>

SetParams ==
    /\ stream = "open" /\ stream' = "prepared" /\ \E f \in Fragments : frag' = f
    /\ UNCHANGED <<setup, copied_total, origin, attached, waiting, on, fatal_error, Buf, Dsp, taken, torn>>

(* wm_adsp_compr_attach *)
CanAttach == on /\ ~fatal_error

(* wm_adsp_compr_trigger, START: it fails without a buffer, or with one that has an error. *)
TriggerStart ==
    /\ stream = "prepared"
    /\ attached' = (attached \/ CanAttach)
    /\ IF attached' /\ ~error
       THEN stream' = "running" /\ high_water_mark' = frag /\ buf_error' = FALSE
       ELSE UNCHANGED <<stream, high_water_mark>> /\ buf_error' = IF attached' THEN error ELSE buf_error
    /\ UNCHANGED <<setup, frag, copied_total, origin, waiting, on, fatal_error, read_index, avail, irq_odd,
                   next_read_index, error, armed, irq, first, produced, taken, torn>>

(* STOP *)
Stopped(next) ==
    /\ stream' = next /\ waiting' = FALSE
    /\ IF attached THEN BufferClear ELSE UNCHANGED <<irq_odd, read_index, avail>>
    /\ UNCHANGED <<setup, on, fatal_error, buf_error, Dsp, taken, torn>>

TriggerStop ==
    /\ setup = "restarts" /\ stream = "running"
    /\ Stopped("prepared") /\ UNCHANGED <<frag, copied_total, origin, attached>>

(* wm_adsp_compr_free; the core stops a stream that runs first. *)
CompressFree ==
    /\ stream # "closed" /\ (stream = "running" => setup = "restarts")
    /\ attached' = FALSE /\ frag' = 0
    /\ IF stream = "running" THEN Stopped("closed")
       ELSE stream' = "closed" /\ waiting' = FALSE
            /\ UNCHANGED <<setup, on, fatal_error, Buf, Dsp, taken, torn>>
    /\ UNCHANGED <<copied_total, origin>>

(* wm_adsp_compr_handle_irq *)
HandleIrq ==
    /\ irq /\ irq' = FALSE /\ on
    /\ buf_error' = error
    /\ IF error THEN UNCHANGED <<read_index, avail, irq_odd>>
       ELSE irq_odd' = FALSE /\ UpdateAvail
    /\ waiting' = (waiting /\ ~attached)
    /\ UNCHANGED <<setup, Compr, on, fatal_error, next_read_index, error, armed, high_water_mark, first,
                   produced, taken, torn>>

(* MUTANT of ReenableIrq: the acknowledgement is not sent. *)
ReenableIrqLost == irq_odd' = TRUE /\ UNCHANGED armed

(* wm_adsp_buffer_reenable_irq *)
ReenableIrq == irq_odd' = TRUE /\ armed' = (armed \/ ~irq_odd)

Broken == fatal_error \/ ~attached \/ buf_error

(* snd_compr_stop_error: the core stops the stream. *)
StopError ==
    /\ stream' = "prepared" /\ UNCHANGED <<armed, waiting>>
    /\ IF attached THEN BufferClear ELSE UNCHANGED <<irq_odd, read_index, avail>>

(* wm_adsp_compr_pointer, of a reader that polls: with a fragment it goes on to read, and
   without one it sleeps; a stream that is broken is stopped. *)
Pointer ==
    /\ stream = "running" /\ ~waiting
    /\ \/ Broken /\ StopError /\ UNCHANGED buf_error
       \/ ~Broken /\ avail >= frag /\ UNCHANGED <<stream, Buf, armed, waiting>>
       \/ /\ ~Broken /\ avail < frag /\ Avail >= frag
          /\ UpdateAvail /\ UNCHANGED <<stream, buf_error, armed, irq_odd, waiting>>
       \/ /\ ~Broken /\ avail < frag /\ Avail < frag
          /\ buf_error' = error
          /\ IF error THEN StopError
             ELSE UpdateAvail /\ ReenableIrq /\ waiting' = TRUE /\ UNCHANGED stream
    /\ UNCHANGED <<setup, frag, copied_total, origin, attached, on, fatal_error, next_read_index, error,
                   irq, high_water_mark, first, produced, taken, torn>>

(* wm_adsp_buffer_capture_block: an index is in the first region that ends after it. *)
RegionOf(i) == CHOOSE r \in RegionIds : i < cumulative_size[r] /\ i >= cumulative_size[r - 1]

(* MUTANT of Address: the offset is the whole ring's. *)
AddressWhole(i) == <<RegionOf(i), i>>

Address(i) == <<RegionOf(i), i - cumulative_size[RegionOf(i) - 1]>>

(* The firmware has its word n at an address. *)
Holds(a, n) ==
    LET i == (n - first) % Size IN
    /\ n < produced
    /\ \E r \in RegionIds : /\ i >= cumulative_size[r - 1] /\ i < cumulative_size[r]
                            /\ a = <<r, i - cumulative_size[r - 1]>>

Least(a, b) == IF a < b THEN a ELSE b

(* wm_adsp_compr_read of n words: blocks end with a region or a fragment, and the next goes
   on; a block that cannot be copied has left the ring. *)
Read ==
    /\ stream = "running" /\ ~waiting /\ ~Broken /\ avail > 0
    /\ \E n \in 1 .. Size, fails \in BOOLEAN :
         LET got == Least(n, avail) IN
         /\ fails => setup = "faulty"
         /\ torn' = (torn \/ \E k \in 0 .. got - 1 : ~Holds(Address((read_index + k) % Size), taken + k))
         /\ taken' = taken + got
         /\ read_index' = (read_index + got) % Size
         /\ next_read_index' = read_index' /\ avail' = avail - got
         /\ copied_total' = IF fails THEN copied_total ELSE copied_total + got
    /\ UNCHANGED <<setup, stream, frag, origin, attached, waiting, on, fatal_error, irq_odd, buf_error,
                   error, armed, irq, high_water_mark, first, produced>>

Next ==
    \/ DspStarts \/ DspProduces \/ DspInterrupts \/ DspOn \/ DspOff \/ WdtExpire
    \/ CompressOpen \/ SetParams \/ TriggerStart \/ TriggerStop \/ CompressFree
    \/ HandleIrq \/ Pointer \/ Read

(* The DSP's interrupt comes and its thread runs. *)
Spec == Init /\ [][Next]_vars /\ WF_vars(DspInterrupts) /\ WF_vars(HandleIrq)

--------------------------------------------------------------------------------
(* Whatever the order of words, interrupts, polls, reads, stops and restarts: the reader
   gets the words the DSP wrote, each once and in their order, none that is not written
   yet, and (if nothing fails to be copied) its position counts exactly those. *)
StreamInOrder ==
    /\ ~torn
    /\ on /\ read_index >= 0 => read_index = (taken - first) % Size /\ taken + avail <= produced
    /\ setup # "faulty" => copied_total <= taken - origin \/ stream = "closed"
    /\ setup # "faulty" /\ stream = "running" => origin + copied_total = taken

(* A reader that sleeps while a fragment is there is woken (unless its stream was stopped
   and started again, or another had the buffer before). *)
ReaderWoken ==
    (setup # "restarts" /\ waiting /\ attached /\ produced - taken >= frag) ~> ~waiting
==============================================================================
