--------------------------- MODULE OutputScheduling ---------------------------
(***************************************************************************)
(* The reactor with the keys the pipeline gives it: every task is a        *)
(* request of some output for some frame, spawned with Priority::new       *)
(* (puller.rs 59, 151; node.rs 41).                                        *)
(***************************************************************************)
EXTENDS PrioritizedReactor, PriorityKey

CONSTANT Wanted   \* Wanted[t]: the <<output priority, frame>> t is spawned for

ASSUME WantedAssumption ==
    /\ Wanted \in [Tasks -> Nat \X (0..(FrameSpan - 1))]
    /\ Key = [t \in Tasks |-> New(Wanted[t][1], Wanted[t][2])]

(* The heap serves the output of smaller priority first, and of one output *)
(* the older frame first, in whatever order they were spawned and woken.   *)
OutputThenFrame ==
    [][\A t \in queue \ queue', u \in queue \cap queue' :
            ~Before(Wanted[u], Wanted[t])]_vars
=============================================================================
