--------------------------- MODULE DualFrameDecoder ---------------------------
(***************************************************************************)
(* DualFrameRawDecoder::pull (nodes_cpu/dual_frame_raw_decoder.rs 56-195). *)
(* The camera sends every exposure as two half frames; the decoder pairs   *)
(* them, notices when half frames were lost on the way, and finds back by  *)
(* keeping the newer half of a pair that does not fit.                     *)
(*                                                                         *)
(* Request f waits until LastFrameInfo says that it is its turn, so that   *)
(* the requests of one consumer run one after the other; what a request    *)
(* does after its last update touches nothing shared and is left out.      *)
(*                                                                         *)
(* The camera is not part of the repository.  As the decoder reads them,   *)
(* half frame h carries a counter that goes up by one, the read buffer of  *)
(* its exposure (buffers are used in turn), and a type that alternates.    *)
(***************************************************************************)
EXTENDS Integers, Sequences

CONSTANTS
    CtrSpan,     \* the counter is a u8: 256
    CtrStart,    \* the counter of half frame 0
    Buffers,     \* read buffers in use, up to 4 (frame[1] & 0b11)
    LastHalf,    \* bound: half frames 0 .. LastHalf are sent
    MaxGap,      \* bound: half frames lost in a row
    FirstHalf,   \* the half frames the stream may start with
    InputFails,  \* may a pull of the input end with an error?
    NoHalf       \* stands for None

ASSUME CameraAssumption ==
    /\ CtrSpan \in Nat \ {0} /\ CtrStart \in Nat
    /\ Buffers \in 2..4
    /\ LastHalf \in Nat /\ MaxGap \in Nat
    /\ MaxGap + 2 < CtrSpan    \* 254 lost in a row would look like none lost
    /\ FirstHalf \subseteq 0..LastHalf
    /\ InputFails \in BOOLEAN
    /\ NoHalf \notin Nat

Halves == 0..LastHalf
Ctr(h) == (h + CtrStart) % CtrSpan
Exposure(h) == h \div 2
ReadBuffer(h) == Exposure(h) % Buffers

VARIABLES
    stage,       \* where the request whose turn it is stands
    frame,       \* LastFrameInfo.0: the output frame whose turn it is
    nextEven,    \* LastFrameInfo.1: the input frame to pull next
    lastBuffer,  \* LastFrameInfo.2: last_read_buffer
    oldFrame,    \* LastFrameInfo.3: the half kept from a slip, or none
    kept,        \* what the request took over from oldFrame
    halves,      \* the halves the request has pulled, older first
    sent,        \* the half frame the camera sends next
    run,         \* half frames delivered since the last one was lost
    pulled,      \* how many input frames have been pulled
    last         \* how the last request ended

info == <<frame, nextEven, lastBuffer, oldFrame>>
vars == <<stage, info, kept, halves, sent, run, pulled, last>>

TypeOK ==
    /\ stage \in {"waiting", "pulling"}
    /\ frame \in Nat /\ nextEven \in Nat /\ pulled \in Nat
    /\ lastBuffer \in 0..3
    /\ oldFrame \in Halves \cup {NoHalf} /\ kept \in Halves \cup {NoHalf}
    /\ halves \in Seq(Halves \cup {NoHalf}) /\ Len(halves) <= 2
    /\ sent \in Nat /\ run \in Nat
    /\ last \in {"none", "paired", "slipped", "failed"}

Init ==
    /\ stage = "waiting"
    /\ frame = 0 /\ nextEven = 0 /\ lastBuffer = 0 /\ oldFrame = NoHalf
    /\ kept = NoHalf /\ halves = <<>>
    /\ sent \in FirstHalf
    /\ run = 0 /\ pulled = 0
    /\ last = "none"

(* Lines 60-70: its turn has come; a half kept from a slip is taken out.   *)
Turn ==
    /\ stage = "waiting"
    /\ kept' = oldFrame
    /\ oldFrame' = NoHalf
    /\ stage' = "pulling"
    /\ UNCHANGED <<frame, nextEven, lastBuffer, halves, sent, run, pulled, last>>

Offset == IF kept = NoHalf THEN 2 ELSE 1

(* Lines 72 and 80-83: one input frame arrives, some were lost before it,  *)
(* or the pull of one fails.  The two pulls of join! are answered by a     *)
(* sequential input, in the order of their numbers.                        *)
PullHalf ==
    /\ stage = "pulling" /\ Len(halves) < Offset
    /\ \E gap \in 0..MaxGap :
        /\ sent + gap <= LastHalf
        /\ sent' = sent + gap + 1
        /\ \/ /\ halves' = Append(halves, sent + gap)
              /\ run' = IF gap = 0 THEN run + 1 ELSE 1
           \/ /\ InputFails
              /\ halves' = Append(halves, NoHalf)
              /\ run' = 0
    /\ pulled' = pulled + 1
    /\ UNCHANGED <<stage, info, kept, last>>

(* Variation: the input frames are counted in pairs after a slip, too.     *)
AdvanceByPair(how) ==
    /\ frame' = frame + 1
    /\ nextEven' = nextEven + 2
    /\ last' = how
    /\ stage' = "waiting"
    /\ halves' = <<>>
    /\ kept' = NoHalf
    /\ UNCHANGED <<sent, run, pulled>>

(* The next request's turn.                                                *)
Advance(how) ==
    /\ frame' = frame + 1
    /\ nextEven' = nextEven + Offset
    /\ last' = how
    /\ stage' = "waiting"
    /\ halves' = <<>>
    /\ kept' = NoHalf
    /\ UNCHANGED <<sent, run, pulled>>

(* Lines 98-105: an input frame could not be had.                          *)
Fail ==
    /\ stage = "pulling" /\ Len(halves) = Offset
    /\ \E i \in 1..Offset : halves[i] = NoHalf
    /\ Advance("failed")
    /\ UNCHANGED <<lastBuffer, oldFrame>>

Older == IF kept = NoHalf THEN halves[1] ELSE kept
Newer == halves[Offset]

(* Lines 130-135: the counters are one apart, in either order.             *)
CountersFit(a, b) ==
    \/ Ctr(a) - Ctr(b) \in {1, -1}
    \/ {Ctr(a), Ctr(b)} = {0, CtrSpan - 1}

(* Variation: only the counters are compared.                              *)
IsCorrectByCounter ==
    /\ CountersFit(Older, Newer)
    /\ ReadBuffer(Newer) # lastBuffer \/ kept # NoHalf

(* Lines 136-139.                                                          *)
IsCorrect ==
    /\ ReadBuffer(Older) = ReadBuffer(Newer)
    /\ CountersFit(Older, Newer)
    /\ ReadBuffer(Newer) # lastBuffer \/ kept # NoHalf

AllPulled == stage = "pulling" /\ Len(halves) = Offset /\ \A i \in 1..Offset : halves[i] # NoHalf

(* read_buffer_a belongs to frame_a, the newer half exactly if its type is *)
(* the one of every second half frame (lines 107-112).                     *)
BufferOfA ==
    IF Newer % 2 = 1 THEN ReadBuffer(Newer) ELSE ReadBuffer(Older)

(* Lines 145-149 and 160-193: a pair that fits is put together.            *)
Pair ==
    /\ AllPulled /\ IsCorrect
    /\ lastBuffer' = BufferOfA
    /\ Advance("paired")
    /\ UNCHANGED oldFrame

(* Variation: the older half stays.                                        *)
SlipKeepingOlder ==
    /\ AllPulled /\ ~IsCorrect
    /\ lastBuffer' = BufferOfA
    /\ oldFrame' = Older
    /\ Advance("slipped")

(* Lines 145-158: one that does not fit is an error; its newer half stays. *)
Slip ==
    /\ AllPulled /\ ~IsCorrect
    /\ lastBuffer' = BufferOfA
    /\ oldFrame' = Newer
    /\ Advance("slipped")

Next == Turn \/ PullHalf \/ Fail \/ Pair \/ Slip

Spec == Init /\ [][Next]_vars

-----------------------------------------------------------------------------
(* Whatever is lost, what is put together are the two halves of one        *)
(* exposure.                                                               *)
HalvesOfOneExposure ==
    AllPulled /\ IsCorrect => Exposure(Older) = Exposure(Newer) /\ Older # Newer

(* The decoder finds back: a pair is refused only within three half frames *)
(* of a loss or of the start of the stream, four of a failed pull, after   *)
(* which the other half of the pair is thrown away.  (It may refuse a good *)
(* pair: the read buffer is compared with that of the last pair, 0 at the  *)
(* start, and both may use the same buffer.)                               *)
SlipsOnlyNearLoss ==
    AllPulled /\ ~IsCorrect => run <= IF InputFails THEN 4 ELSE 3

(* Slips and failures leave the numbering of the input intact: its frames  *)
(* are pulled one after the other, none skipped and none twice, as a       *)
(* sequential input demands.                                               *)
InputInOrder == pulled = nextEven + Len(halves)

-----------------------------------------------------------------------------
(* Why these hold.  The half pulled last is the one the camera sent last,  *)
(* so that the halves of a pair are no further apart than a gap allows.    *)
Held == IF stage = "waiting" THEN oldFrame ELSE kept

HalvesInOrder ==
    /\ stage = "waiting" => kept = NoHalf /\ halves = <<>>
    /\ stage = "pulling" => oldFrame = NoHalf /\ Len(halves) <= Offset
    /\ halves = <<>> /\ Held # NoHalf => Held = sent - 1
    /\ halves # <<>> /\ halves[Len(halves)] # NoHalf => halves[Len(halves)] = sent - 1
    /\ AllPulled => Newer - Older \in 1..(MaxGap + 1)
    /\ \A i \in 1..Len(halves) : halves[i] = NoHalf => InputFails

(* How often a pair may be refused after a loss.                           *)
Refusals == IF InputFails THEN 4 ELSE 3

(* Half h begins an exposure, and the last pair was of the one before.     *)
InStep(h) == h % 2 = 0 /\ h > 0 /\ lastBuffer = ReadBuffer(h - 1)

(* While nothing is lost, the decoder comes to be in step, or it holds the *)
(* first half of an exposure: the longer the run, the closer it is to it.  *)
FindsBack ==
    /\ halves = <<>> /\ Held = NoHalf => InStep(sent) \/ run <= Refusals - 3
    /\ halves = <<>> /\ Held # NoHalf => Held % 2 = 0 \/ run <= Refusals - 1
    /\ kept = NoHalf /\ Len(halves) = 1 =>
           IF halves[1] = NoHalf THEN run = 0 ELSE InStep(halves[1]) \/ run <= Refusals - 2
    /\ kept = NoHalf /\ Len(halves) = 2 =>
           IF NoHalf \in {halves[1], halves[2]} THEN run <= 1
           ELSE (InStep(halves[1]) /\ halves[2] = halves[1] + 1) \/ run <= Refusals - 1
    /\ kept # NoHalf /\ Len(halves) = 1 =>
           IF halves[1] = NoHalf THEN run = 0
           ELSE \/ kept % 2 = 0 /\ halves[1] = kept + 1
                \/ run <= Refusals - 1
                \/ halves[1] % 2 = 0 /\ run <= Refusals

DecoderInv == TypeOK /\ HalvesInOrder /\ InputInOrder /\ FindsBack
=============================================================================
