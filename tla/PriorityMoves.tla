---------------------------- MODULE PriorityMoves ----------------------------
(***************************************************************************)
(* Priorities in use: requests are made with Priority::new, as both        *)
(* pullers and Request::new do, and moved to another frame with for_frame  *)
(* (processing_context.rs 46-70).                                          *)
(***************************************************************************)
EXTENDS PriorityKey

CONSTANTS
    Outputs,     \* bound: the output priorities in use, out of 0..255
    Frames,      \* bound: the frame numbers in use, all below FrameSpan
    Slots        \* bound: the requests alive at one time

VARIABLES
    wanted,      \* wanted[s]: the output and frame request s stands for
    key          \* key[s]: its Priority

vars == <<wanted, key>>

Init ==
    /\ wanted \in [Slots -> Outputs \X Frames]
    /\ key = [s \in Slots |-> New(wanted[s][1], wanted[s][2])]

(* A puller or Request::new makes the priority of the next frame.          *)
Ask(s, o, f) ==
    /\ wanted' = [wanted EXCEPT ![s] = <<o, f>>]
    /\ key' = [key EXCEPT ![s] = New(o, f)]

(* A request is moved to another frame of the same output.                 *)
Move(s, f) ==
    /\ wanted' = [wanted EXCEPT ![s][2] = f]
    /\ key' = [key EXCEPT ![s] = ForFrame(@, f)]

Next ==
    \E s \in Slots, f \in Frames : Move(s, f) \/ \E o \in Outputs : Ask(s, o, f)

Spec == Init /\ [][Next]_vars

-----------------------------------------------------------------------------
(* "[u8 output priority, u56 frame number]" (processing_context.rs:46):    *)
(* the frame read back is the frame asked for.                             *)
FrameReadsBack == \A s \in Slots : GetFrame(key[s]) = wanted[s][2]
=============================================================================
