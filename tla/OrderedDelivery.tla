--------------------------- MODULE OrderedDelivery ---------------------------
(***************************************************************************)
(* What a sink that reads from pull_ordered counts on (RawBlobWriter and   *)
(* FfmpegWriter append what they receive to one stream): the frames the    *)
(* node can deliver arrive one by one, each once, in ascending order, none *)
(* left out but those whose pull failed, up to the first end of file.      *)
(***************************************************************************)
EXTENDS Integers, Sequences

CONSTANTS Last       \* frames are 0 .. Last - 1

VARIABLES outcome,   \* outcome[f]: how the pull of frame f ends
          received,  \* the frames the sink has been given
          sink       \* "receiving", "ended" or "hungUp"

vars == <<outcome, received, sink>>

(* Frames before the first end of file that can be delivered.              *)
Deliverable ==
    {f \in 0..(Last - 1) :
        outcome[f] = "ok" /\ \A g \in 0..f : outcome[g] # "eof"}

Pending == {f \in Deliverable : \A i \in 1..Len(received) : received[i] < f}

DeliveryInit == received = <<>> /\ sink = "receiving"

Deliver ==
    /\ sink = "receiving"
    /\ \E f \in Pending :
        /\ \A g \in Pending : f <= g
        /\ received' = Append(received, f)
    /\ UNCHANGED <<outcome, sink>>

(* The sink is told that no more will come only when it has got it all.    *)
Close ==
    /\ sink = "receiving"
    /\ Pending = {}
    /\ sink' = "ended"
    /\ UNCHANGED <<outcome, received>>

(* A sink may lose interest, and is given nothing from then on.            *)
Abandon ==
    /\ sink = "receiving"
    /\ sink' = "hungUp"
    /\ UNCHANGED <<outcome, received>>

DeliveryNext == Deliver \/ Close \/ Abandon

DeliverySafeSpec == DeliveryInit /\ [][DeliveryNext]_vars

DeliverySpec == DeliverySafeSpec /\ WF_vars(Deliver \/ Close)
=============================================================================
