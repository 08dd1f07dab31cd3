----------------------------- MODULE PullSource -----------------------------
(***************************************************************************)
(* What the two pullers of pipeline_processing/puller.rs share: the range  *)
(* of frames they walk through and the node they pull from.                *)
(*                                                                         *)
(* A pull of frame f ends with a payload, with some error, or with the     *)
(* end of the file.  A node with random access answers in any order.  A    *)
(* sequential one (TcpReader, ZstdBlobReader and what sits on top of them) *)
(* answers frame f only after it answered f - 1, and when the file has     *)
(* ended it leaves its notifier where it is: no later frame is answered.   *)
(***************************************************************************)
EXTENDS Integers

CONSTANTS
    NumThreads,      \* context.num_threads()
    NumberOfFrames,  \* the sink's number-of-frames, 0 when it is not given
    FrameCount,      \* input.get_caps().frame_count
    NoCount,         \* stands for None
    U64Max,          \* bound: stands for u64::MAX_VALUE
    LastEof,         \* bound: the file ends at this frame at the latest
    Access           \* the kinds of input: "random", "sequential" or both

ASSUME SourceAssumption ==
    /\ NumThreads \in Nat \ {0}
    /\ NumberOfFrames \in Nat
    /\ FrameCount \in Nat \cup {NoCount}
    /\ NoCount \notin Nat
    /\ U64Max \in Nat
    /\ LastEof \in Nat
    /\ Access \subseteq {"random", "sequential"}

VARIABLES
    access,          \* input.get_caps().random_access
    outcome          \* outcome[f]: how the pull of f ends

(* Both are properties of the input and never change.                      *)
source == <<access, outcome>>

(* The end of the range both pullers iterate over.                         *)
RangeEnd ==
    CASE NumberOfFrames = 0 /\ FrameCount = NoCount -> U64Max
      [] NumberOfFrames = 0 /\ FrameCount # NoCount -> FrameCount
      [] NumberOfFrames # 0 /\ FrameCount = NoCount -> NumberOfFrames
      [] OTHER -> IF NumberOfFrames < FrameCount THEN NumberOfFrames ELSE FrameCount

Frames == 0..(RangeEnd - 1)

(* How each pull ends.  Only the sequential readers report EOFError.       *)
Outcomes == {"ok", "err", "eof"}

SourceInit ==
    /\ access \in Access
    /\ outcome \in [Frames -> Outcomes]
    /\ \A f \in Frames : outcome[f] = "eof" => access = "sequential" /\ f <= LastEof

(* May the node answer the pull of f, given what it has answered so far?   *)
MayAnswer(f, answered) ==
    access = "sequential" =>
        \A g \in Frames : g < f => g \in answered /\ outcome[g] # "eof"
=============================================================================
