---------------------------- MODULE Tas25xxRegbin ----------------------------
(***************************************************************************)
(* How the driver of the TAS25xx finds its way in the register binary, for *)
(* what it loads of it and when it gives up.  The binary is a sequence of  *)
(* blocks, those of a channel behind the channel's INITP.  Each parser     *)
(* takes the block at the cursor that the one before left, if it has the   *)
(* right name, and else searches from the start: whether a channel gets    *)
(* its own blocks depends on the order and on what is missing.             *)
(***************************************************************************)
EXTENDS Integers, Sequences, FiniteSets

LOCAL INSTANCE SequencesExt
LOCAL INSTANCE FiniteSetsExt

CONSTANTS
    BinChannels,           \* bound: channels of a binary
    Tries               \* bound: what is asked for before the driver gives up

RegbinAssumption == BinChannels \in Nat \ {0} /\ Tries \in Nat \ {0}

Names == {"INITP", "HWPRM", "PROFP", "INTRP", "BLKOP", "KCNTR", "ALGOP"}
AnyChannel == 0 - 2

(* A block, and whether the driver knows all that is in it; if not it is left halfway. *)
Blocks == [name : Names, known : BOOLEAN]
None == 0

(* Blocks are counted by the INITPs that were seen, that of the block included. *)
ChannelOf(blocks, n) == Cardinality({m \in 1 .. n : blocks[m].name = "INITP"}) - 1

FindBlockForChannel(blocks, at, name, ch) ==
    IF at \in DOMAIN blocks /\ blocks[at].name = name THEN at
    ELSE LET found == {n \in DOMAIN blocks :
                          /\ blocks[n].name = name
                          /\ ch \in {AnyChannel, ChannelOf(blocks, n)}}
         IN  IF found = {} THEN None ELSE Min(found)

(* What a load has so far: the cursor, where each channel has its blocks, and whether
   it failed.  Halfway through a block the cursor is at no block. *)
Behind(blocks, n) == IF blocks[n].known THEN n + 1 ELSE None

Parse(p, blocks, name, ch) ==
    LET n == FindBlockForChannel(blocks, p.at, name, ch)
    IN  IF p.failed \/ n = None THEN p
        ELSE [p EXCEPT !.at = Behind(blocks, n), !.own[<<ch, name>>] = n]

(* Without these the load fails. *)
Required(p, ch, name) == [p EXCEPT !.failed = @ \/ p.own[<<ch, name>>] = None]

ParseInitParams(p, blocks, ch) == Required(Parse(p, blocks, "INITP", ch), ch, "INITP")

(* Always 26 parameters are read, in the order of the driver's table. *)
ParseHwParams(p, blocks, ch) == Parse(p, blocks, "HWPRM", ch)

ParseProfiles(p, blocks, ch) == Required(Parse(p, blocks, "PROFP", ch), ch, "PROFP")

ParseInterrupts(p, blocks, ch) == Parse(p, blocks, "INTRP", ch)

(* An operation whose name is not known is not passed over, and hides those behind it. *)
ParseBlockData(p, blocks, ch) == Required(Parse(p, blocks, "BLKOP", ch), ch, "BLKOP")

ParseChannel(p, blocks, ch) ==
    LET init == ParseInitParams(p, blocks, ch)
        profiles == ParseProfiles(ParseHwParams(init, blocks, ch), blocks, ch)
    IN  ParseBlockData(ParseInterrupts(profiles, blocks, ch), blocks, ch)

(* Both are for all channels, and a binary may do without. *)
ParseKcontrols(p, blocks) == Parse(p, blocks, "KCNTR", AnyChannel)
ParseAlgoData(p, blocks) == Parse(p, blocks, "ALGOP", AnyChannel)

(* The channels that the header of the binary names. *)
ParseBlocks(blocks, channels) ==
    LET start == [at |-> 1, failed |-> FALSE,
                  own |-> [s \in ({AnyChannel} \cup (0 .. channels - 1)) \X Names |-> None]]
        each == FoldLeft(LAMBDA p, n : ParseChannel(p, blocks, n - 1), start,
                         [n \in 1 .. channels |-> n])
    IN  ParseAlgoData(ParseKcontrols(each, blocks), blocks)

(* What answers a request: nothing, or a file with one image, or one with a table of
   revisions and an image for each; an image may lack its header, or be newer than the
   driver. *)
Image(file, revision) ==
    IF file.revisions = <<>> THEN 1
    ELSE LET mine == {n \in DOMAIN file.revisions : file.revisions[n] = revision}
         IN  IF mine = {} THEN None ELSE Min(mine)

Readable(image) ==
    image.header /\ image.supported /\ ~ParseBlocks(image.blocks, image.channels).failed

(* tas25xx_fw_ready: only without a file it is tried again. *)
FwReady(file, revision) ==
    LET image == Image(file, revision)
    IN  IF file.images = <<>> THEN "TRYLOAD"
        ELSE IF image # None /\ Readable(file.images[image]) THEN "OK"
        ELSE "PARSE_FAIL"

(* tas25xx_load_firmware: a request that is refused, or finds no file, is made again. *)
LoadFirmware(answers, revision) ==
    LET load[n \in 1 .. Len(answers) + 1] ==
            IF n > Len(answers) THEN "LOAD_FAIL"
            ELSE IF answers[n].refused \/ FwReady(answers[n], revision) = "TRYLOAD"
                 THEN load[n + 1]
            ELSE FwReady(answers[n], revision)
    IN  load[1]

--------------------------------------------------------------------------------
(* The binaries: those of a channel in any order behind its INITP, some of them missing,
   with what is for all channels at the start, behind the first channel, or at the end. *)
Orders ==
    {s \in UNION {[1 .. k -> {"HWPRM", "PROFP", "INTRP", "BLKOP"}] : k \in 0 .. 4} :
        \A m, n \in DOMAIN s : m # n => s[m] # s[n]}

Common == {<<>>, <<"KCNTR">>, <<"ALGOP", "KCNTR">>}

Binaries ==
    LET block(known) == [n \in Names |->
                            [name |-> n, known |-> known \/ n \notin {"HWPRM", "BLKOP"}]]
        names(order, common, place) ==
            LET channel(ch) == <<"INITP">> \o order[ch] \o (IF place = ch THEN common ELSE <<>>)
            IN  (IF place = 0 THEN common ELSE <<>>)
                \o FlattenSeq([ch \in 1 .. BinChannels |-> channel(ch)])
        blocks(s, known) == [n \in DOMAIN s |-> block(known)[s[n]]]
    IN  {blocks(names(o, c, at), known) :
            o \in [1 .. BinChannels -> Orders], c \in Common, at \in 0 .. BinChannels,
            known \in BOOLEAN}

(* The block of a channel, as the binary has it. *)
Own(blocks, ch, name) ==
    LET its == {n \in DOMAIN blocks : blocks[n].name = name /\ ChannelOf(blocks, n) = ch}
    IN  IF its = {} THEN None ELSE Min(its)

(* In whatever order the blocks of a channel stand, whatever is missing and wherever the
   cursor is left, a channel gets its own blocks and no other's; and a binary is refused
   only where a channel lacks one that it must have. *)
OwnBlocks ==
    \A blocks \in Binaries :
        LET p == ParseBlocks(blocks, BinChannels)
            lacks == \E ch \in 0 .. BinChannels - 1, name \in {"INITP", "PROFP", "BLKOP"} :
                         Own(blocks, ch, name) = None
        IN  /\ p.failed = lacks
            /\ ~p.failed => \A ch \in 0 .. BinChannels - 1, name \in Names \ {"KCNTR", "ALGOP"} :
                                p.own[<<ch, name>>] = Own(blocks, ch, name)

Answers ==
    LET image(header, supported, names, channels) ==
            [header |-> header, supported |-> supported, channels |-> channels,
             blocks |-> [n \in DOMAIN names |-> [name |-> names[n], known |-> TRUE]]]
        good == image(TRUE, TRUE, <<"INITP", "PROFP", "BLKOP">>, 1)
        bad == {image(FALSE, TRUE, <<>>, 1), image(TRUE, FALSE, <<>>, 1),
                image(TRUE, TRUE, <<"INITP", "PROFP", "BLKOP">>, 2)}
        file(revisions, images) ==
            [refused |-> FALSE, revisions |-> revisions, images |-> images]
    IN  {[file(<<>>, <<>>) EXCEPT !.refused = r] : r \in BOOLEAN}
        \cup {file(r, <<good>>) : r \in {<<>>, <<2>>}}
        \cup {file(r, <<b, good>>) : r \in {<<1, 2>>, <<2, 1>>}, b \in bad}

(* The first file that is found decides, and the driver gives up for good on one that it
   cannot read; otherwise a stream asks for it again. *)
FirstFileDecides ==
    \A answers \in [1 .. Tries -> Answers] :
        LET found == {n \in 1 .. Tries : answers[n].images # <<>>}
        IN  LoadFirmware(answers, 1) =
                IF found = {} THEN "LOAD_FAIL" ELSE FwReady(answers[Min(found)], 1)
================================================================================
