----------------------------- MODULE PriorityKey -----------------------------
(***************************************************************************)
(* The keys of the reactor's heap (processing_context.rs 46-70): Priority  *)
(* packs the priority of an output and a frame number into one u64, and    *)
(* the smaller word runs first.  get_frame and Display read them back, and *)
(* for_frame is to move a priority to another frame.                       *)
(*                                                                         *)
(* The shift of `new` leaves 56 bits to the frame, MASK keeps 60.  Frame   *)
(* numbers stay far below 2^56, so "|" joins disjoint bits in `new`.       *)
(***************************************************************************)
EXTENDS Integers

CONSTANTS
    FrameSpan,   \* 2^56, what `new` shifts the output by
    MaskSpan     \* 2^60, MASK + 1

ASSUME KeyAssumption ==
    /\ FrameSpan \in Nat \ {0}
    /\ MaskSpan \in Nat \ {0} /\ MaskSpan % FrameSpan = 0

(* Variation: the two parts change places.                                 *)
NewSwapped(output, frame) == frame * FrameSpan + output

(* Priority::new.                                                          *)
New(output, frame) == output * FrameSpan + frame

(* Priority::get_frame, which Display prints as "frame".                   *)
GetFrame(k) == k % MaskSpan

(* Priority::for_frame: what is above MASK, joined with the new frame.     *)
ForFrame(k, frame) == (k - (k % MaskSpan)) + frame

(* Does the request <<output, frame>> v go before w?                       *)
Before(v, w) == v[1] < w[1] \/ (v[1] = w[1] /\ v[2] < w[2])
=============================================================================
