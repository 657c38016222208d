----------------------------- MODULE Cs40l2xQueue ----------------------------
(***************************************************************************)
(* The playback queue of the CS40L25 driver: how the string written to     *)
(* cp_trigger_queue becomes a composite of sections, each a waveform, a    *)
(* delay and a repeat count, and how the composite is walked, one launch   *)
(* at a time, each ending when it has something to wait for.  What the     *)
(* waits are, and failed accesses, are left to Cs40l2xVibe.                *)
(***************************************************************************)
EXTENDS Integers, Sequences, SequencesExt

CONSTANTS
    Waveforms,          \* valid indices, with the amplitude they are played at
    Lengths,            \* the length of each in samples
    Delays,             \* in ms, 0 possibly among them
    Counts,             \* of repetitions, written or not within u8
    Marker,             \* WT_REPEAT_LOOP_MARKER, the largest u8
    MaxSections,        \* WT_MAX_SECTIONS
    MaxTokens,          \* bounds the first string stored,
    MaxTokensLater,     \* the later ones,
    MaxPlayed           \* and what is recorded of a queue that does not end

None == "None"

QueueAssumption ==
    /\ Lengths \in [Waveforms -> Nat] /\ None \notin Waveforms
    /\ Delays \subseteq Nat /\ Counts \subseteq Nat
    /\ {Marker, MaxSections, MaxTokens, MaxTokensLater, MaxPlayed} \subseteq Nat \ {0}

VARIABLES
    written,            \* the string stored last
    pbq_comp,
    queue_stored,
    pbq_state,
    pbq_index,          \* twice the section, plus one once its waveform has been played
    pbq_inner_mark,
    pbq_inner_loop,
    pbq_outer_loop,
    launching,          \* cs40l2x_pbq_pair_launch is under way
    played,             \* history: what was played and waited for since the start
    replaced,           \* history: the queue was stored anew while it played
    stale               \* history: a queue was cut short

comp_vars == <<written, pbq_comp, queue_stored>>
loops == <<pbq_inner_mark, pbq_inner_loop, pbq_outer_loop>>
history == <<played, replaced, stale>>
vars == <<comp_vars, pbq_state, pbq_index, loops, launching, history>>

Tokens == [kind : {"wave"}, arg : Waveforms] \cup [kind : {"delay"}, arg : Delays]
     \cup [kind : {"close", "again"}, arg : Counts]     \* "n!!" and "n!"
     \cup [kind : {"open", "forever", "bad"}, arg : {0}]     \* "!!", "~", anything else
Strings(n) == BoundedSeq(Tokens, n) \ {<<>>}

U8(n) == n % (Marker + 1)
Blank == [wave |-> None, delay |-> 0, repeat |-> 0]

------------------------------------------------------------------------------
(* cs40l2x_cp_trigger_queue_store, token by token. sections are those finalised,
   section the one being filled in. *)

NewComp == [sections |-> <<>>, section |-> Blank, repeat |-> 0, wlength |-> 0,
            inner |-> FALSE, samples |-> 0, ret |-> 0, error |-> FALSE]

Samples(s) == (IF s.wave = None THEN 0 ELSE Lengths[s.wave]) + 8 * s.delay
Pending(p) == p.section.wave # None \/ p.section.delay > 0
Failed(p) == [p EXCEPT !.error = TRUE]

(* cs40l2x_comp_finalise_section: the last section counts, and is refused. *)
Finalise(p) ==
    [p EXCEPT !.sections = Append(@, p.section), !.section = Blank,
              !.ret = Samples(p.section), !.wlength = @ + Samples(p.section),
              !.error = Len(p.sections) + 1 = MaxSections]

InLoop(p) == IF p.inner /\ ~p.error THEN [p EXCEPT !.samples = @ + p.ret] ELSE p

Open(p) ==
    LET q == IF Pending(p) THEN Finalise(p) ELSE p IN
    IF p.inner THEN Failed(p)
    ELSE IF q.error THEN q
    ELSE [q EXCEPT !.section.repeat = Marker, !.inner = TRUE]

(* MUTANT of Close: the loop's last section is not multiplied. *)
CloseShort(p, n) ==
    LET q == Finalise([p EXCEPT !.section.repeat = U8(n)]) IN
    IF ~p.inner THEN Failed(p)
    ELSE IF q.error THEN q
    ELSE [q EXCEPT !.wlength = @ + p.samples * n, !.inner = FALSE, !.samples = 0]

Close(p, n) ==
    LET q == Finalise([p EXCEPT !.section.repeat = U8(n)]) IN
    IF ~p.inner THEN Failed(p)
    ELSE IF q.error THEN q
    ELSE [q EXCEPT !.wlength = @ + (p.samples + q.ret) * n, !.inner = FALSE, !.samples = 0]

Again(p, n) == IF p.repeat # 0 THEN Failed(p) ELSE [p EXCEPT !.repeat = U8(n)]

Wave(p, w) ==
    LET q == IF Pending(p) THEN InLoop(Finalise(p)) ELSE p IN
    IF q.error THEN q ELSE [q EXCEPT !.section.wave = w]

Delay(p, d) ==
    LET q == IF p.section.delay > 0 THEN InLoop(Finalise(p)) ELSE p IN
    IF q.error THEN q ELSE [q EXCEPT !.section.delay = d]

Token(p, t) ==
    CASE p.error -> p
      [] ~p.error /\ t.kind = "open" -> Open(p)
      [] ~p.error /\ t.kind = "close" -> Close(p, t.arg)
      [] ~p.error /\ t.kind = "again" -> Again(p, t.arg)
      [] ~p.error /\ t.kind = "forever" -> Again(p, Marker)
      [] ~p.error /\ t.kind = "wave" -> Wave(p, t.arg)
      [] ~p.error /\ t.kind = "delay" -> Delay(p, t.arg)
      [] OTHER -> Failed(p)

(* The composite after each token. *)
Parses(s) ==
    LET parse[n \in 0..Len(s)] == IF n = 0 THEN NewComp ELSE Token(parse[n - 1], s[n])
    IN  parse

Indefinite == -1
Parsed(s) ==
    LET p == Parses(s)[Len(s)]
        q == IF ~p.error /\ Pending(p) THEN Finalise(p) ELSE p
    IN  IF q.repeat = Marker THEN [q EXCEPT !.wlength = Indefinite]
        ELSE [q EXCEPT !.wlength = @ * (q.repeat + 1)]

Init ==
    /\ written = <<>> /\ pbq_comp = [sections |-> <<>>, repeat |-> 0, wlength |-> 0]
    /\ queue_stored = FALSE
    /\ pbq_state = "IDLE" /\ pbq_index = 0 /\ launching = FALSE
    /\ pbq_inner_mark = 0 /\ pbq_inner_loop = 0 /\ pbq_outer_loop = 0
    /\ played = <<>> /\ replaced = FALSE /\ stale = FALSE

(* What was parsed before an error stays. The queue may be playing. *)
Store(s) ==
    LET p == Parsed(s) IN
    /\ ~launching
    /\ written' = s
    /\ pbq_comp' = [sections |-> p.sections, repeat |-> p.repeat, wlength |-> p.wlength]
    /\ queue_stored' = ~p.error
    /\ IF pbq_state = "IDLE" THEN UNCHANGED <<replaced, stale>>
                             ELSE replaced' = TRUE /\ stale' = TRUE
    /\ played' = <<>>
    /\ UNCHANGED <<pbq_state, pbq_index, loops, launching>>

------------------------------------------------------------------------------
(* The walk. *)

(* The queue's part of cs40l2x_vibe_start_worker, which refuses while a queue plays,
   and of cs40l2x_vibe_pbq_worker. *)
Start ==
    /\ pbq_state = "IDLE" /\ ~launching
    /\ pbq_index' = 0 /\ launching' = TRUE
    /\ played' = <<>> /\ replaced' = FALSE
    /\ UNCHANGED <<comp_vars, pbq_state, loops, stale>>

Wake ==
    /\ pbq_state # "IDLE" /\ ~launching /\ Len(played) < MaxPlayed
    /\ launching' = TRUE
    /\ UNCHANGED <<comp_vars, pbq_state, pbq_index, loops, history>>

(* cs40l2x_pbq_cancel, from cs40l2x_vibe_stop_worker. *)
Cancel ==
    /\ pbq_state # "IDLE" /\ ~launching
    /\ pbq_state' = "IDLE" /\ stale' = TRUE
    /\ UNCHANGED <<comp_vars, pbq_index, loops, launching, played, replaced>>

Record(kind, arg) ==
    played' = IF replaced THEN played ELSE Append(played, [kind |-> kind, arg |-> arg])

(* One turn of the loop of cs40l2x_pbq_pair_launch, at section Here. *)
Halves == 2 * Len(pbq_comp.sections)
Here == pbq_comp.sections[pbq_index \div 2 + 1]
Fresh == pbq_index % 2 = 0
Second == IF Fresh THEN pbq_index + 1 ELSE pbq_index     \* index, past the waveform

LaunchWave ==
    /\ launching /\ pbq_index < Halves /\ Fresh /\ Here.wave # None
    /\ pbq_index' = Second
    /\ pbq_state' = "PLAYING" /\ launching' = FALSE
    /\ Record("wave", Here.wave)
    /\ UNCHANGED <<comp_vars, loops, replaced, stale>>

Rest == launching /\ pbq_index < Halves /\ (~Fresh \/ Here.wave = None)
Silences == pbq_state' = IF Here.delay > 0 THEN "SILENT" ELSE pbq_state

(* An inner loop goes round. A delay arms the timer, but does not end the launch. *)
LoopsAgain == Here.repeat \notin {0, Marker} /\ pbq_inner_loop < Here.repeat

LaunchLoop ==
    /\ Rest /\ LoopsAgain /\ Silences
    /\ pbq_inner_loop' = pbq_inner_loop + 1
    /\ pbq_index' = IF pbq_inner_mark >= 0 THEN pbq_inner_mark ELSE Second - 1
    /\ UNCHANGED <<comp_vars, pbq_inner_mark, pbq_outer_loop, launching, history>>

(* MUTANT of Outer: the queue is played one time less. *)
OuterLess ==
    LET o == IF pbq_comp.repeat = Marker THEN pbq_outer_loop ELSE pbq_outer_loop + 1 IN
    IF Second + 1 # Halves THEN pbq_index' = Second + 1 /\ UNCHANGED pbq_outer_loop
    ELSE IF o >= pbq_comp.repeat THEN pbq_index' = Halves /\ pbq_outer_loop' = 0
    ELSE pbq_index' = 0 /\ pbq_outer_loop' = o

(* MUTANT of Outer: what is played once more is not counted. *)
OuterUncounted ==
    IF Second + 1 # Halves THEN pbq_index' = Second + 1 /\ UNCHANGED pbq_outer_loop
    ELSE IF pbq_outer_loop > pbq_comp.repeat - 1 THEN pbq_index' = Halves /\ pbq_outer_loop' = 0
    ELSE pbq_index' = 0 /\ UNCHANGED pbq_outer_loop

Outer ==
    LET o == IF pbq_comp.repeat = Marker THEN pbq_outer_loop ELSE pbq_outer_loop + 1 IN
    IF Second + 1 # Halves THEN pbq_index' = Second + 1 /\ UNCHANGED pbq_outer_loop
    ELSE IF o > pbq_comp.repeat THEN pbq_index' = Halves /\ pbq_outer_loop' = 0
    ELSE pbq_index' = 0 /\ pbq_outer_loop' = o

Inner ==
    CASE Here.repeat = Marker -> pbq_inner_mark' = Second - 1 /\ UNCHANGED pbq_inner_loop
      [] Here.repeat = 0 -> UNCHANGED <<pbq_inner_mark, pbq_inner_loop>>
      [] OTHER -> pbq_inner_mark' = -1 /\ pbq_inner_loop' = 0

LaunchRest ==
    /\ Rest /\ ~LoopsAgain /\ Silences
    /\ Inner /\ Outer
    /\ IF Here.delay > 0 THEN launching' = FALSE /\ Record("delay", Here.delay)
                         ELSE UNCHANGED <<launching, played>>
    /\ UNCHANGED <<comp_vars, replaced, stale>>

LaunchEnd ==
    /\ launching /\ pbq_index >= Halves
    /\ pbq_state' = "IDLE" /\ launching' = FALSE
    /\ Record("end", 0)
    /\ UNCHANGED <<comp_vars, pbq_index, loops, replaced, stale>>

Launch == LaunchWave \/ LaunchLoop \/ LaunchRest \/ LaunchEnd

Next ==
    \/ \E s \in Strings(IF written = <<>> THEN MaxTokens ELSE MaxTokensLater) : Store(s)
    \/ Start \/ Wake \/ Cancel
    \/ Launch

(* A launch, once under way, goes on. *)
Spec == Init /\ [][Next]_vars /\ WF_vars(Launch)

------------------------------------------------------------------------------
(* What a string means: its waveforms and delays in order, those of an inner loop
   once more for each count, and all of it once more for each outer count. *)

Repeated(s, n) == FoldLeft(LAMBDA acc, i : acc \o s, <<>>, [i \in 1..n |-> i])

Meant(m, t) ==
    CASE t.kind = "open" -> [out |-> m.out \o m.body, body |-> <<>>]
      [] t.kind = "close" -> [out |-> m.out \o Repeated(m.body, t.arg + 1), body |-> <<>>]
      [] t.kind = "wave" \/ (t.kind = "delay" /\ t.arg > 0) -> [m EXCEPT !.body = Append(@, t)]
      [] OTHER -> m

Once(s) == LET m == FoldLeft(Meant, [out |-> <<>>, body |-> <<>>], s) IN m.out \o m.body

Written(s, kind) == {s[i].arg : i \in {j \in 1..Len(s) : s[j].kind = kind}}
Endless(s) == Written(s, "forever") # {}
Times(s) == IF Written(s, "again") \ {0} = {} THEN 1
            ELSE (CHOOSE n \in Written(s, "again") : n > 0) + 1

Length(e) == IF e.kind = "wave" THEN Lengths[e.arg] ELSE 8 * e.arg
Total(s) == FoldLeft(LAMBDA acc, e : acc + Length(e), 0, s)

InRange(s) == \A n \in Written(s, "close") \cup Written(s, "again") : n < Marker

(* The composite and the walk are of their types. *)
TypeOK ==
    /\ \A i \in 1..Len(pbq_comp.sections) :
         pbq_comp.sections[i] \in [wave : Waveforms \cup {None}, delay : Delays \cup {0},
                                   repeat : 0..Marker]
    /\ Len(pbq_comp.sections) <= MaxSections
    /\ pbq_comp.repeat \in 0..Marker
    /\ pbq_comp.wlength \in Nat \cup {Indefinite}
    /\ queue_stored \in BOOLEAN
    /\ pbq_state \in {"IDLE", "PLAYING", "SILENT"}
    /\ pbq_index \in 0..(2 * MaxSections)
    /\ pbq_inner_mark \in {-1} \cup {2 * i : i \in 0..MaxSections}
    /\ pbq_inner_loop \in 0..Marker /\ pbq_outer_loop \in 0..Marker
    /\ {launching, replaced, stale} \subseteq BOOLEAN

(* The length stored for the queue, by which it would be saved as a waveform, is the
   one of what was written: loops are multiplied out as the sections that they cover
   are closed. Not so for counts that do not fit their u8. *)
LengthExact ==
    (queue_stored /\ InRange(written)) =>
        pbq_comp.wlength = IF Endless(written) THEN Indefinite
                           ELSE Total(Once(written)) * Times(written)

(* A queue plays what was written, in that order and that often, and ends after it.
   Not so if it was stored anew meanwhile. *)
Entries == SelectSeq(played, LAMBDA e : e.kind # "end")
InOrder(s) ==
    /\ \A i \in 1..Len(Entries) : /\ Once(s) # <<>>
                                  /\ Entries[i] = Once(s)[((i - 1) % Len(Once(s))) + 1]
    /\ ~Endless(s) => Len(Entries) <= Len(Once(s)) * Times(s)
    /\ Len(Entries) < Len(played) =>
         Once(s) = <<>> \/ (~Endless(s) /\ Len(Entries) = Len(Once(s)) * Times(s))
PlaysWritten == (queue_stored /\ ~replaced /\ InRange(written)) => InOrder(written)

(* It does, except in two cases. A queue with loops, after one that was cut short: the
   loops' counters are not reset. And inner loops of one section, whose start is
   forgotten for their end, so that the first of them goes back to where the last mark
   was, or that end in a delay, which is not waited for. *)
Looping(s) == \E i \in 1..Len(s) : s[i].kind \in {"open", "again", "forever"}
SoundLoops(s) ==
    \A i \in 1..Len(s) : s[i].kind = "close" =>
        /\ s[i].arg > 0 /\ i > 1
        /\ s[i - 1].kind = "wave"
        /\ \E j \in 1..(i - 2) : /\ s[j].kind = "wave" \/ (s[j].kind = "delay" /\ s[j].arg > 0)
                                 /\ \A k \in j..i : s[k].kind # "open"

PlaysAsWritten == (~Looping(written) \/ (~stale /\ SoundLoops(written))) => PlaysWritten

(* A launch, which holds the driver's lock, comes to something it has to wait for, or to
   the end of the queue. Not so if the sections are all empty, as "!!, 0!!" makes one, and
   repeated indefinitely. *)
Idle == /\ pbq_comp.repeat = Marker
        /\ \A i \in 1..Len(pbq_comp.sections) : pbq_comp.sections[i].wave = None
                                             /\ pbq_comp.sections[i].delay = 0

LaunchEnds == (launching /\ ~Idle) ~> ~launching
==============================================================================
