---------------------------- MODULE AsyncNotifier ----------------------------
(***************************************************************************)
(* util/async_notifier.rs: a value behind a mutex and the futures that     *)
(* wait until a predicate on it holds.  Sequential nodes use it to make    *)
(* frame f wait for its turn, Cache to wait for room.                      *)
(*                                                                         *)
(* One wait call is one element of Waits.  A task polls the future the     *)
(* call returned; the notifier's vector keeps a second handle to it        *)
(* together with the predicate.  wait and update run under the notifier's  *)
(* mutex, poll under the future's own, and each of them is one step:       *)
(* update visits the futures one by one, but a poll that falls between two *)
(* visits touches one future only, so it may as well come before or after. *)
(***************************************************************************)
EXTENDS Naturals

CONSTANTS
    Waits,       \* calls of wait
    Values,      \* the values the data goes through
    Accepts,     \* Accepts[x]: the values the predicate of x holds for
    Initial,     \* the data the notifier is created with
    Nothing      \* stands for None

ASSUME NotifierAssumption ==
    /\ Accepts \in [Waits -> SUBSET Values]
    /\ Initial \in Values
    /\ Nothing \notin Values

VARIABLES
    data,        \* AsyncNotifierInner.data
    futures,     \* the waits whose future is in AsyncNotifierInner.futures
    slot,        \* slot[x]: AsyncNotifierFutureInner.data
    waker,       \* waker[x]: is there a Waker in AsyncNotifierFutureInner?
    scheduled,   \* scheduled[x]: will the task of x be polled (again)?
    phase,       \* phase[x]: what the task of x is doing
    result       \* result[x]: what awaiting the future gave

vars == <<data, futures, slot, waker, scheduled, phase, result>>

Phases == {"idle", "awaiting", "resolved", "dropped"}

TypeOK ==
    /\ data \in Values
    /\ futures \in SUBSET Waits
    /\ slot \in [Waits -> Values \cup {Nothing}]
    /\ waker \in [Waits -> BOOLEAN]
    /\ scheduled \in [Waits -> BOOLEAN]
    /\ phase \in [Waits -> Phases]
    /\ result \in [Waits -> Values \cup {Nothing}]

Init ==
    /\ data = Initial
    /\ futures = {}
    /\ slot = [x \in Waits |-> Nothing]
    /\ waker = [x \in Waits |-> FALSE]
    /\ scheduled = [x \in Waits |-> FALSE]
    /\ phase = [x \in Waits |-> "idle"]
    /\ result = [x \in Waits |-> Nothing]

(* wait: the future is filled at once when the predicate already holds,    *)
(* and is put into the vector in either case.  The task that called wait   *)
(* goes on to poll it.                                                     *)
Wait(x) ==
    /\ phase[x] = "idle"
    /\ slot' = [slot EXCEPT ![x] = IF data \in Accepts[x] THEN data ELSE Nothing]
    /\ futures' = futures \cup {x}
    /\ scheduled' = [scheduled EXCEPT ![x] = TRUE]
    /\ phase' = [phase EXCEPT ![x] = "awaiting"]
    /\ UNCHANGED <<data, waker, result>>

(* Variation: no waker is stored.                                          *)
PollWithoutWaker(x) ==
    /\ phase[x] = "awaiting"
    /\ scheduled' = [scheduled EXCEPT ![x] = FALSE]
    /\ slot' = [slot EXCEPT ![x] = Nothing]
    /\ IF slot[x] # Nothing
       THEN /\ phase' = [phase EXCEPT ![x] = "resolved"]
            /\ result' = [result EXCEPT ![x] = slot[x]]
       ELSE UNCHANGED <<phase, result>>
    /\ UNCHANGED <<data, futures, waker>>

(* poll: the waker is stored before the data is looked at.  A task may     *)
(* also be polled without a wake-up (join!, select!).                      *)
Poll(x) ==
    /\ phase[x] = "awaiting"
    /\ waker' = [waker EXCEPT ![x] = TRUE]
    /\ scheduled' = [scheduled EXCEPT ![x] = FALSE]
    /\ slot' = [slot EXCEPT ![x] = Nothing]
    /\ IF slot[x] # Nothing
       THEN /\ phase' = [phase EXCEPT ![x] = "resolved"]
            /\ result' = [result EXCEPT ![x] = slot[x]]
       ELSE UNCHANGED <<phase, result>>
    /\ UNCHANGED <<data, futures>>

(* update: the data changes, every future whose predicate now holds is     *)
(* filled, its waker is taken and woken, and it leaves the vector.         *)
Update(v) ==
    LET ready == {x \in futures : v \in Accepts[x]} IN
    /\ data' = v
    /\ slot' = [x \in Waits |-> IF x \in ready THEN v ELSE slot[x]]
    /\ scheduled' = [x \in Waits |->
                        scheduled[x] \/ (x \in ready /\ waker[x] /\ phase[x] = "awaiting")]
    /\ waker' = [x \in Waits |-> waker[x] /\ x \notin ready]
    /\ futures' = futures \ ready
    /\ UNCHANGED <<phase, result>>

(* The task is cancelled while it awaits the future.  The vector's handle  *)
(* keeps the future, and its waker, alive.                                 *)
Cancel(x) ==
    /\ phase[x] = "awaiting"
    /\ phase' = [phase EXCEPT ![x] = "dropped"]
    /\ scheduled' = [scheduled EXCEPT ![x] = FALSE]
    /\ UNCHANGED <<data, futures, slot, waker, result>>

Next ==
    \/ \E x \in Waits : Wait(x) \/ Poll(x) \/ Cancel(x)
    \/ \E v \in Values : Update(v)

SafeSpec == Init /\ [][Next]_vars

-----------------------------------------------------------------------------
(* A task sleeps only on a predicate that does not hold: an awaiting task  *)
(* that nobody is going to poll is in the vector with its waker set and    *)
(* its slot empty, and its predicate is false for the present data.        *)
SleepersHaveReason ==
    \A x \in Waits :
        phase[x] = "awaiting" /\ ~scheduled[x] =>
            x \in futures /\ waker[x] /\ slot[x] = Nothing /\ data \notin Accepts[x]

(* What awaiting gives satisfies the predicate, even though the data may   *)
(* have moved on between the update and the poll.                          *)
ResultSatisfiesPredicate ==
    \A x \in Waits : phase[x] = "resolved" => result[x] \in Accepts[x]

(* An awaiting future without a value is in the vector and its predicate   *)
(* does not hold: update takes a future out only to fill it, and does so   *)
(* as soon as the predicate holds.                                         *)
UnfilledIsWaiting ==
    \A x \in Waits :
        phase[x] = "awaiting" /\ slot[x] = Nothing => x \in futures /\ data \notin Accepts[x]

SlotsSatisfyPredicate ==
    \A x \in Waits : slot[x] # Nothing => slot[x] \in Accepts[x]

(* The inductive invariant behind the two safety properties.               *)
IInv ==
    /\ TypeOK
    /\ SleepersHaveReason /\ ResultSatisfiesPredicate
    /\ UnfilledIsWaiting /\ SlotsSatisfyPredicate
=============================================================================
