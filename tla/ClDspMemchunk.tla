---------------------------- MODULE ClDspMemchunk ----------------------------
(***************************************************************************)
(* Memory chunks of the Cirrus DSP library: fields of whole bytes packed    *)
(* into words of which the DSP uses the lower three bytes of four, and read *)
(* back.  A byte has Bits bits here, so that all fields can be tried; the   *)
(* cache is an unsigned integer of four bytes, as in the code.             *)
(***************************************************************************)
EXTENDS Integers, Sequences

CONSTANTS
    Bits,               \* bits of a byte
    Size,               \* words of the chunk
    MaxFields           \* bound: fields written

MemchunkAssumption == Bits \in Nat \ {0} /\ Size \in Nat /\ MaxFields \in Nat

Payload == 3 * Bits
Full == 4 * Bits
Widths == {Bits * n : n \in 1 .. 4}

Two[n \in Nat] == IF n = 0 THEN 1 ELSE 2 * Two[n - 1]       \* 1 << n

(* The values tried in a field: each end, and patterns that tell bits apart. *)
Values(nbits) == {0, 1, Two[nbits - 1], Two[nbits] - 1, Two[nbits] \div 3}

VARIABLES
    phase,              \* what the chunk is used for
    chunk,              \* struct cl_dsp_memchunk: data, cache, cachebits
    fields,             \* the fields written
    results             \* the fields read

vars == <<phase, chunk, fields, results>>

Create == [data |-> <<>>, cache |-> 0, cachebits |-> 0]

TypeOK ==
    /\ phase \in {"write", "read", "no space"}
    /\ chunk.cache \in 0 .. Two[Full] - 1 /\ chunk.cachebits \in 0 .. Payload
    /\ Len(fields) <= MaxFields + 1 /\ Len(results) <= Len(fields)

Init == phase = "write" /\ chunk = Create /\ fields = <<>> /\ results = <<>>

U32(n) == n % Two[Full]
Least(a, b) == IF a < b THEN a ELSE b

--------------------------------------------------------------------------------
(* MUTANT of Pushed: the part that fits is taken from the wrong end. *)
PushedLow(ch, nbits, val, nwrite) ==
    [ch EXCEPT !.cache = U32(@ * Two[nwrite] + (val % Two[nwrite])),
               !.cachebits = @ + nwrite]

(* The highest nwrite bits of the field move into the cache; if others went before them,
   these are above the bits that count, and the cache was empty: no bits meet. *)
Pushed(ch, nbits, val, nwrite) ==
    [ch EXCEPT !.cache = U32(@ * Two[nwrite] + (val \div Two[nbits - nwrite])),
               !.cachebits = @ + nwrite]

(* "ch->cache &= 0xFFFFFF" *)
Masked(cache) == cache % Two[Payload]

(* A call of cl_dsp_memchunk_write for the bits that are left; it ends when a word is
   complete for which there is no room. *)
WriteCall(ch, left, val) ==
    LET nwrite == Least(Payload - ch.cachebits, left)
        next == Pushed(ch, left, val, nwrite)
    IN  IF next.cachebits < Payload THEN [chunk |-> next, left |-> left - nwrite]
        ELSE IF Len(ch.data) = Size THEN [chunk |-> next, left |-> 0]
        ELSE [chunk |-> [data |-> Append(next.data, Masked(next.cache)),
                         cache |-> 0, cachebits |-> 0], left |-> left - nwrite]

(* cl_dsp_memchunk_write calls itself while bits are left; no room shows as cachebits that
   stay at their limit. *)
Write(ch, nbits, val) ==
    LET after[calls \in Nat] ==
            IF calls = 0 THEN [chunk |-> ch, left |-> nbits]
            ELSE LET s == after[calls - 1]
                 IN  IF s.left = 0 THEN s ELSE WriteCall(s.chunk, s.left, val)
    IN  after[nbits].chunk

WriteField(nbits, val) ==
    /\ phase = "write" /\ Len(fields) < MaxFields
    /\ chunk' = Write(chunk, nbits, val)
    /\ IF chunk'.cachebits = Payload
       THEN phase' = "no space" /\ UNCHANGED fields
       ELSE fields' = Append(fields, [nbits |-> nbits, val |-> val]) /\ UNCHANGED phase
    /\ UNCHANGED results

(* cl_dsp_memchunk_flush pads the last word; then the chunk is read from its
   start, as another chunk. *)
Flush ==
    /\ phase = "write"
    /\ LET pad == Payload - chunk.cachebits
           out == IF chunk.cachebits = 0 THEN chunk ELSE Write(chunk, pad, 0) IN
       /\ out.cachebits = 0
       /\ chunk' = [Create EXCEPT !.data = out.data]
       /\ fields' = IF chunk.cachebits = 0 THEN fields
                    ELSE Append(fields, [nbits |-> pad, val |-> 0])
    /\ phase' = "read"
    /\ UNCHANGED results

(* The next nread bits, at their place in the field. *)
Pulled(ch, nbits, nread) ==
    U32((ch.cache \div Two[Full - nread]) * Two[nbits - nread])

(* One turn of the loop of cl_dsp_memchunk_read *)
ReadTurn(ch, left, result) ==
    LET in == IF ch.cachebits # 0 THEN ch
              ELSE [data |-> Tail(ch.data), cache |-> U32(Head(ch.data) * Two[Bits]),
                    cachebits |-> Payload]
        nread == Least(in.cachebits, left)
    IN  [chunk |-> [in EXCEPT !.cache = U32(@ * Two[nread]), !.cachebits = @ - nread],
         left |-> left - nread,
         val |-> result + Pulled(in, left, nread)]

(* cl_dsp_memchunk_read: the chunk after nbits are read, and their value. *)
Read(ch, nbits) ==
    LET after[turns \in Nat] ==
            IF turns = 0 THEN [chunk |-> ch, left |-> nbits, val |-> 0]
            ELSE LET s == after[turns - 1]
                 IN  IF s.left = 0 THEN s ELSE ReadTurn(s.chunk, s.left, s.val)
    IN  after[nbits]

ReadField ==
    /\ phase = "read" /\ Len(results) < Len(fields)
    /\ LET r == Read(chunk, fields[Len(results) + 1].nbits) IN
       chunk' = r.chunk /\ results' = Append(results, r.val)
    /\ UNCHANGED <<phase, fields>>

Next ==
    \/ \E nbits \in Widths : \E val \in Values(nbits) : WriteField(nbits, val)
    \/ Flush \/ ReadField

Spec == Init /\ [][Next]_vars

--------------------------------------------------------------------------------
(* What was written is read back, whichever fields straddle words; the highest
   byte of every word stays empty, and the chunk is used up when all fields are
   read. *)
RoundTrip ==
    /\ \A i \in DOMAIN results : results[i] = fields[i].val
    /\ \A i \in DOMAIN chunk.data : chunk.data[i] < Two[Payload]
    /\ (phase = "read" /\ Len(results) = Len(fields)) =>
         chunk.data = <<>> /\ chunk.cachebits = 0
================================================================================
