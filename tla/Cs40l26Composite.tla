-------------------------- MODULE Cs40l26Composite --------------------------
(***************************************************************************)
(* Uploading a composite to the CS40L26's open wavetable: a user's sections *)
(* of waves, delays and composites of the tables in RAM and ROM become      *)
(* sections without composites, for which the driver computes size and     *)
(* length.  A word is one of the DSP's, kept in four bytes.                *)
(***************************************************************************)
EXTENDS Integers, Sequences, SequencesExt

CONSTANTS
    Tables,         \* tables of RAM and ROM, by index from 1
    Amplitude,      \* of the user's sections, in percent
    Delays, Durations, Repeats,
    OwtSize,        \* words free in the open wavetable
    MaxSections     \* a bound: sections the user composes

Banks == {"RAM", "ROM"}
LoopStart == 255            \* the repeat count that begins a loop

CompositeAssumption ==
    /\ \A t \in Tables : DOMAIN t = Banks      \* loops in their composites are closed
    /\ Delays \cup Durations \cup Repeats \subseteq Nat /\ 0 \in Durations
    /\ {Amplitude, OwtSize, MaxSections} \subseteq Nat

VARIABLES
    owt_tables,     \* the waves the driver knows
    user,           \* the sections composed so far
    upload          \* what became of them

vars == <<owt_tables, user, upload>>

None == [status |-> "none"]

Init == owt_tables \in Tables /\ user = <<>> /\ upload = None

------------------------------------------------------------------------------
(* cs40l26_owt_header: index 0 is a delay. *)
InTable(s) == s.index \in DOMAIN owt_tables[s.bank]
Header(s) == owt_tables[s.bank][s.index]
IsDelay(s) == s.index = 0
IsComposite(s) == ~IsDelay(s) /\ InTable(s) /\ Header(s).composite

Delay(ms) == [amplitude |-> 0, index |-> 0, bank |-> "RAM", repeat |-> 0, delay |-> ms,
              duration |-> 0]

(* A section takes two words, and one more for a duration. *)
Words(s) == IF s.duration # 0 THEN 3 ELSE 2
Total(f(_), ss) == FoldLeft(LAMBDA n, s : n + f(s), 0, ss)

(* cs40l26_owt_comp_data_size, before anything is copied. *)
CompDataSize(ss) ==
    LET size(s) ==
            IF IsDelay(s) THEN 2
            ELSE IF IsComposite(s)
            THEN Total(Words, Header(s).sections) + (IF s.delay # 0 THEN 2 ELSE 0)
            ELSE Words(s)
    IN  Total(size, ss)

(* DIV_ROUND_UP(amp_product, 100) *)
Scaled(a, b) == (a * b + 99) \div 100

(* MUTANT of NcwRefactorData: the amplitude of a composite is not that of its sections. *)
NcwUnscaled(s) ==
    [i \in DOMAIN Header(s).sections |->
        LET n == Header(s).sections[i]
        IN  [n EXCEPT !.bank = IF s.bank = "ROM" THEN "ROM" ELSE @]]

(* The sections of a composite of the tables take its amplitude and bank. *)
NcwRefactorData(s) ==
    [i \in DOMAIN Header(s).sections |->
        LET n == Header(s).sections[i]
        IN  [n EXCEPT !.bank = IF s.bank = "ROM" THEN "ROM" ELSE @,
                      !.amplitude = IF IsDelay(n) THEN @ ELSE Scaled(@, s.amplitude)]]

(* What the loop over the sections refuses: nested repeats, and composites without sections. *)
Refused(s) ==
    /\ ~IsDelay(s)
    /\ \/ s.repeat # 0 \/ ~InTable(s)
       \/ IsComposite(s) /\ (Header(s).repeat # 0 \/ Header(s).sections = <<>>)

Copied(s) ==
    IF ~IsComposite(s) THEN <<s>>
    ELSE NcwRefactorData(s) \o (IF s.delay # 0 THEN <<Delay(s.delay)>> ELSE <<>>)

------------------------------------------------------------------------------
(* cs40l26_owt_get_wlength: only waves have a length, and those without end need one. *)
Unsized(s) ==
    /\ ~IsDelay(s)
    /\ ~InTable(s) \/ Header(s).composite \/ (Header(s).endless /\ s.duration = 0)

(* In samples of 8 kHz; durations are in units of two of them. *)
WaveLength(s) ==
    LET wlen == Header(s).length
        most == 2 * s.duration
    IN  IF IsDelay(s) THEN 0
        ELSE IF Header(s).endless THEN most
        ELSE IF s.duration # 0 /\ wlen > most THEN most ELSE wlen

(* One turn of the loop of cs40l26_owt_calculate_wlength *)
AddSection(sum, s) ==
    LET section == WaveLength(s) + 8 * s.delay
        looped == sum.loop + section
    IN  IF s.repeat = LoopStart THEN [sum EXCEPT !.loop = looped, !.in_loop = TRUE]
        ELSE IF s.repeat # 0
        THEN [total |-> sum.total + looped * (s.repeat + 1), loop |-> 0, in_loop |-> FALSE]
        ELSE IF sum.in_loop THEN [sum EXCEPT !.loop = looped]
        ELSE [sum EXCEPT !.total = @ + section]

WAVELEN_INDEF == 2^22
WAVELEN_CALCULATED == 2^23

(* ... | CS40L26_WT_TYPE10_WAVELEN_CALCULATED, of which 24 bits are written *)
CalculateWlength(ss, rep) ==
    LET total == FoldLeft(AddSection, [total |-> 0, loop |-> 0, in_loop |-> FALSE], ss).total
    IN  ((total * (rep + 1)) % WAVELEN_CALCULATED) + WAVELEN_CALCULATED

HEADER_COMP_WORDS == 5      \* CS40L26_WT_HEADER_COMP_SIZE, 20 bytes

(* cs40l26_owt_upload: an access may fail, and the table may be full. *)
OwtUpload(words) ==
    {"failed"} \cup {IF words > OwtSize THEN "no space" ELSE "pushed"}

(* cs40l26_composite_upload *)
CompositeUpload ==
    /\ upload = None /\ user # <<>>
    /\ LET out == FlattenSeq([i \in DOMAIN user |-> Copied(user[i])])
           words == CompDataSize(user)
       IN  IF \E i \in DOMAIN user : Refused(user[i])
           THEN upload' = [status |-> "refused"]
           ELSE IF \E i \in DOMAIN out : Unsized(out[i])
           THEN upload' = [status |-> "refused"]
           ELSE \E rep \in Repeats \ {LoopStart}, st \in OwtUpload(words + HEADER_COMP_WORDS) :
               upload' = IF st # "pushed" THEN [status |-> st]
                         ELSE [status |-> st, sections |-> out, repeat |-> rep,
                               words |-> words, wlength |-> CalculateWlength(out, rep)]
    /\ UNCHANGED <<owt_tables, user>>

(* A user composes.  Durations are those of waves, and a flag that announces one has one.
   A bound: a section that will be refused is the last. *)
Indices(bank) == 0 .. Len(owt_tables[bank]) + 1

Compose ==
    /\ upload = None /\ Len(user) < MaxSections
    /\ \A i \in DOMAIN user : ~Refused(user[i]) /\ (Unsized(user[i]) => IsComposite(user[i]))
    /\ \E bank \in Banks, delay \in Delays, duration \in Durations, repeat \in Repeats :
        \E index \in Indices(bank) :
            LET s == [amplitude |-> Amplitude, index |-> index, bank |-> bank,
                      repeat |-> repeat, delay |-> delay, duration |-> duration]
            IN  /\ IsDelay(s) => bank = "RAM"
                /\ IsDelay(s) \/ IsComposite(s) => duration = 0
                /\ user' = Append(user, s)
    /\ UNCHANGED <<owt_tables, upload>>

Next == Compose \/ CompositeUpload

Spec == Init /\ [][Next]_vars

------------------------------------------------------------------------------
(* How the DSP walks a composite: a section's count repeats the loop that was begun, or
   else the section. *)
Walk(ss) ==
    LET walk[i \in Nat, from \in Nat, count \in Nat] ==
            IF i > Len(ss) THEN <<>>
            ELSE <<ss[i]>> \o
                 (IF ss[i].repeat = LoopStart
                  THEN walk[i + 1, i, IF from = i THEN count ELSE 0]
                  ELSE IF count < ss[i].repeat
                  THEN walk[IF from = 0 THEN i ELSE from, from, count + 1]
                  ELSE IF ss[i].repeat = 0 THEN walk[i + 1, from, count]
                  ELSE walk[i + 1, 0, 0])
    IN  walk[1, 0, 0]

(* What is heard of a section: a wave for so long, and silence. *)
Heard(s) ==
    (IF IsDelay(s) THEN <<>> ELSE <<[wave |-> Header(s), amplitude |-> s.amplitude,
                                     samples |-> WaveLength(s)]>>)
    \o (IF s.delay = 0 THEN <<>> ELSE <<[samples |-> 8 * s.delay]>>)

HeardOf(ss) == FlattenSeq([i \in DOMAIN ss |-> Heard(ss[i])])

Again(seq, times) == FlattenSeq([i \in 1 .. times |-> seq])

(* What a composite means: loops written out, composites by what they mean, louder or
   softer. *)
Unrolled(ss) ==
    LET last(first) ==
            LET ends == {i \in first .. Len(ss) : ss[i].repeat \notin {0, LoopStart}}
            IN  IF ss[first].repeat # LoopStart \/ ends = {} THEN first
                ELSE CHOOSE i \in ends : \A j \in ends : i <= j
        times(i) == IF ss[i].repeat = LoopStart THEN 1 ELSE ss[i].repeat + 1
        unrolled[i \in Nat] ==
            IF i > Len(ss) THEN <<>>
            ELSE Again(SubSeq(ss, i, last(i)), times(last(i))) \o unrolled[last(i) + 1]
    IN  unrolled[1]

Percent(a, b) == CHOOSE n \in 0 .. 255 : 100 * n >= a * b /\ 100 * (n - 1) < a * b

Meant(s) ==
    IF ~IsComposite(s) THEN Heard(s)
    ELSE LET nested == [i \in DOMAIN Header(s).sections |->
                            [Header(s).sections[i] EXCEPT
                                !.bank = IF s.bank = "ROM" THEN "ROM" ELSE @,
                                !.amplitude = Percent(@, s.amplitude)]]
         IN  HeardOf(Unrolled(nested)) \o HeardOf(<<Delay(s.delay)>>)

(* Loops are closed before another begins, and composites within them have none. *)
Looped(ss) == \E i \in DOMAIN ss : ss[i].repeat # 0

Closes(ss, i, j) ==
    /\ i < j /\ ss[j].repeat \notin {0, LoopStart}
    /\ \A k \in i + 1 .. j : ss[k].repeat # LoopStart
    /\ \A k \in i + 1 .. j : IsComposite(ss[k]) => ~Looped(Header(ss[k]).sections)

Proper(ss) ==
    \A i \in DOMAIN ss : ss[i].repeat = LoopStart => \E j \in DOMAIN ss : Closes(ss, i, j)

Samples(heard) == Total(LAMBDA h : h.samples, heard)

(* What was uploaded is of known kind. *)
TypeOK ==
    /\ owt_tables \in Tables /\ Len(user) <= MaxSections
    /\ upload.status \in {"none", "refused", "failed", "no space", "pushed"}

(* A composite that was pushed plays as it was composed, with all that its composites of
   the tables mean; its length is that of what plays, below the flag that marks a wave
   without end; and its size that of its sections. *)
PlaysAsComposed ==
    upload.status = "pushed" =>
        LET heard == Again(HeardOf(Walk(upload.sections)), upload.repeat + 1)
            unrolled == Unrolled(user)
        IN  /\ upload.words = Total(Words, upload.sections)
            /\ Proper(user) =>
                /\ heard = Again(FlattenSeq([i \in DOMAIN unrolled |-> Meant(unrolled[i])]),
                                 upload.repeat + 1)
                /\ Samples(heard) < WAVELEN_INDEF =>
                    upload.wlength = WAVELEN_CALCULATED + Samples(heard)
=============================================================================
