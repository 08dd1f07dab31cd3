------------------------------ MODULE CacheNode ------------------------------
(***************************************************************************)
(* The Cache node (nodes_util/cache.rs): consumers that share one input    *)
(* each pull every frame; the first to come pulls the input and leaves the *)
(* payload for the others, and the one that takes it last removes it.      *)
(*                                                                         *)
(* A request is a task of the reactor.  It first waits (AsyncNotifier)     *)
(* until its frame is in the map or the map has room, then calls update,   *)
(* whose closure only builds a future: the notifier looks at its waiters   *)
(* before that future touches the map.  The future then locks the map, a   *)
(* parking_lot mutex that blocks the worker thread, and keeps the guard    *)
(* across the pull of the input.  The predicates lock the map as well.     *)
(*                                                                         *)
(* Nobody sets PinCache, so a request always counts as one consumer's.     *)
(***************************************************************************)
EXTENDS Naturals, Sequences, FiniteSets

CONSTANTS
    Consumers,   \* the nodes the Cache is an input to: nodes_to_feed of them
    Capacity,    \* the "size" parameter
    Setups,      \* the surroundings the node may be used in, see setup
    Last,        \* bound: frames that are pulled
    Nobody       \* stands for "no request"

(* Surroundings: worker threads of the reactor, as many as each puller     *)
(* keeps requests in flight; how many frames the pullers ask for; how a pull of *)
(* the input may go ("sync" answers within the poll that makes it, "async" *)
(* suspends first); may it end with an error?                              *)
ASSUME CacheAssumption ==
    /\ IsFiniteSet(Consumers) /\ Consumers # {}
    /\ Capacity \in Nat \ {0} /\ Last \in Nat
    /\ Setups \subseteq [threads : Nat \ {0}, last : 0..Last,
                        kinds : SUBSET {"sync", "async"}, fails : BOOLEAN]

Frames == 0..(Last - 1)
Requests == Consumers \X Frames
FrameOf(r) == r[2]
NodesToFeed == Cardinality(Consumers)

ASSUME NobodyAssumption == Nobody \notin Requests

VARIABLES
    pc,          \* pc[r]: where request r is in pull
    running,     \* the requests that occupy a worker thread
    feed,        \* the map: frame -> how many more requests it is kept for
    lock,        \* who holds the map's mutex across an await, or Nobody
    futures,     \* the notifier's vector: <<r, does r sleep on the future?>>
    updater,     \* who holds the notifier's mutex in update, or Nobody
    todo,        \* the part of the vector update has not visited yet
    pulls,       \* pulls[f]: how often the input delivered frame f
    setup        \* the surroundings, which stay the same

vars == <<pc, running, feed, lock, futures, updater, todo, pulls, setup>>

Runnable == {"spawned", "woken", "answered"}
Running == {"wait", "update", "visiting", "enter", "insert"}
Over == {"done", "failed"}
PcStates == {"new", "sleeping", "filling"} \cup Runnable \cup Running \cup Over

Init ==
    /\ pc = [r \in Requests |-> "new"]
    /\ running = {}
    /\ feed = [f \in {} |-> 0]
    /\ lock = Nobody
    /\ futures = <<>>
    /\ updater = Nobody
    /\ todo = <<>>
    /\ pulls = [f \in Frames |-> 0]
    /\ setup \in Setups

Resident == DOMAIN feed
HasRoom == Cardinality(Resident) < Capacity

(* The predicate of wait (lines 56-59).                                    *)
Admits(f) == f \in Resident \/ HasRoom

Goto(r, s) == pc' = [pc EXCEPT ![r] = s]

(* The task of r suspends or is over: its worker is free again.            *)
Yield(r, s) ==
    /\ Goto(r, s)
    /\ running' = running \ {r}

-----------------------------------------------------------------------------
(* A consumer's puller keeps at most num_threads requests in flight and    *)
(* spawns them in ascending order (see PullUnordered).                     *)
Spawn(c, f) ==
    /\ f < setup.last /\ pc[<<c, f>>] = "new"
    /\ \A g \in Frames : g < f => pc[<<c, g>>] # "new"
    /\ Cardinality({g \in Frames : pc[<<c, g>>] \notin Over \cup {"new"}}) < setup.threads
    /\ Goto(<<c, f>>, "spawned")
    /\ UNCHANGED <<running, feed, lock, futures, updater, todo, pulls, setup>>

(* A free worker takes up a runnable request of the smallest frame number  *)
(* (see PrioritizedReactor).                                               *)
Dispatch(r) ==
    /\ pc[r] \in Runnable
    /\ Cardinality(running) < setup.threads
    /\ \A q \in Requests : pc[q] \in Runnable => FrameOf(r) <= FrameOf(q)
    /\ running' = running \cup {r}
    /\ Goto(r, CASE pc[r] = "spawned" -> "wait"
                 [] pc[r] = "woken" -> "update"
                 [] pc[r] = "answered" -> "insert")
    /\ UNCHANGED <<feed, lock, futures, updater, todo, pulls, setup>>

(* notifier.wait: under the notifier's mutex the predicate locks the map.  *)
(* The thread is blocked as long as either of them is held.  The future    *)
(* enters the vector, whether or not the request has to sleep on it.       *)
Wait(r) ==
    /\ pc[r] = "wait"
    /\ updater = Nobody /\ lock = Nobody
    /\ futures' = Append(futures, <<r, ~Admits(FrameOf(r))>>)
    /\ IF Admits(FrameOf(r))
       THEN /\ Goto(r, "update")
            /\ UNCHANGED running
       ELSE Yield(r, "sleeping")
    /\ UNCHANGED <<feed, lock, updater, todo, pulls, setup>>

(* Variation: the waiters are not looked at.                               *)
UpdateWithoutWaiters(r) ==
    /\ pc[r] = "update"
    /\ updater = Nobody
    /\ updater' = r
    /\ Goto(r, "visiting")
    /\ UNCHANGED <<running, feed, lock, futures, todo, pulls, setup>>

(* notifier.update (line 63): the closure only builds the future ...       *)
UpdateBegin(r) ==
    /\ pc[r] = "update"
    /\ updater = Nobody
    /\ updater' = r
    /\ todo' = futures
    /\ futures' = <<>>
    /\ Goto(r, "visiting")
    /\ UNCHANGED <<running, feed, lock, pulls, setup>>

(* ... then the predicate of every future in the vector locks the map: one *)
(* that is admitted leaves the vector, and is woken if it sleeps.          *)
Visit(r) ==
    /\ pc[r] = "visiting" /\ todo # <<>>
    /\ lock = Nobody
    /\ LET q == Head(todo)[1]
           sleeps == Head(todo)[2] IN
        IF Admits(FrameOf(q))
        THEN /\ IF sleeps THEN Goto(q, "woken") ELSE UNCHANGED pc
             /\ UNCHANGED futures
        ELSE /\ futures' = Append(futures, Head(todo))
             /\ UNCHANGED pc
    /\ todo' = Tail(todo)
    /\ UNCHANGED <<running, feed, lock, updater, pulls, setup>>

UpdateEnd(r) ==
    /\ pc[r] = "visiting" /\ todo = <<>>
    /\ updater' = Nobody
    /\ Goto(r, "enter")
    /\ UNCHANGED <<running, feed, lock, futures, todo, pulls, setup>>

(* Variation: whoever takes the payload removes it.                        *)
HitAndRemove(r) ==
    LET f == FrameOf(r) IN
    /\ pc[r] = "enter" /\ lock = Nobody
    /\ f \in Resident
    /\ feed' = [g \in Resident \ {f} |-> feed[g]]
    /\ Yield(r, "done")
    /\ UNCHANGED <<lock, futures, updater, todo, pulls, setup>>

(* Lines 67-76: the frame is there; the last consumer removes it.          *)
Hit(r) ==
    LET f == FrameOf(r) IN
    /\ pc[r] = "enter" /\ lock = Nobody
    /\ f \in Resident
    /\ feed' = IF feed[f] = 1
               THEN [g \in Resident \ {f} |-> feed[g]]
               ELSE [feed EXCEPT ![f] = @ - 1]
    /\ Yield(r, "done")
    /\ UNCHANGED <<lock, futures, updater, todo, pulls, setup>>

(* Variation: the consumer that filled the entry is counted twice.         *)
InsertCountedTwice(f) ==
    /\ feed' = [g \in Resident \cup {f} |-> IF g = f THEN NodesToFeed - 2 ELSE feed[g]]
    /\ pulls' = [pulls EXCEPT ![f] = @ + 1]

(* Line 84: the payload is kept for the other consumers.                   *)
Insert(f) ==
    /\ feed' = [g \in Resident \cup {f} |-> IF g = f THEN NodesToFeed - 1 ELSE feed[g]]
    /\ pulls' = [pulls EXCEPT ![f] = @ + 1]

(* Lines 77-85 with an input whose pull does not suspend: one poll.        *)
FillNow(r) ==
    /\ "sync" \in setup.kinds
    /\ pc[r] = "enter" /\ lock = Nobody
    /\ FrameOf(r) \notin Resident /\ HasRoom
    /\ \/ /\ Insert(FrameOf(r))
          /\ Yield(r, "done")
       \/ /\ setup.fails
          /\ Yield(r, "failed")
          /\ UNCHANGED <<feed, pulls>>
    /\ UNCHANGED <<lock, futures, updater, todo, setup>>

(* Variation: the guard is dropped before the input is awaited.            *)
FillBeginUnlocked(r) ==
    /\ "async" \in setup.kinds
    /\ pc[r] = "enter" /\ lock = Nobody
    /\ FrameOf(r) \notin Resident /\ HasRoom
    /\ Yield(r, "filling")
    /\ UNCHANGED <<feed, lock, futures, updater, todo, pulls, setup>>

(* Line 83 with an input that suspends: the task yields, the guard stays.  *)
FillBegin(r) ==
    /\ "async" \in setup.kinds
    /\ pc[r] = "enter" /\ lock = Nobody
    /\ FrameOf(r) \notin Resident /\ HasRoom
    /\ lock' = r
    /\ Yield(r, "filling")
    /\ UNCHANGED <<feed, futures, updater, todo, pulls, setup>>

(* The input answers and wakes the request.                                *)
Answer(r) ==
    /\ pc[r] = "filling"
    /\ Goto(r, "answered")
    /\ UNCHANGED <<running, feed, lock, futures, updater, todo, pulls, setup>>

FillEnd(r) ==
    /\ pc[r] = "insert"
    /\ lock' = Nobody
    /\ \/ /\ Insert(FrameOf(r))
          /\ Yield(r, "done")
       \/ /\ setup.fails
          /\ Yield(r, "failed")
          /\ UNCHANGED <<feed, pulls>>
    /\ UNCHANGED <<futures, updater, todo, setup>>

(* Line 87: somebody else took the room; wait again.                       *)
Retry(r) ==
    /\ pc[r] = "enter" /\ lock = Nobody
    /\ FrameOf(r) \notin Resident /\ ~HasRoom
    /\ Goto(r, "wait")
    /\ UNCHANGED <<running, feed, lock, futures, updater, todo, pulls, setup>>

-----------------------------------------------------------------------------
RequestStep(r) ==
    \/ Dispatch(r) \/ Wait(r) \/ UpdateBegin(r) \/ Visit(r) \/ UpdateEnd(r)
    \/ Hit(r) \/ FillNow(r) \/ FillBegin(r) \/ Answer(r) \/ FillEnd(r) \/ Retry(r)

Next ==
    \/ \E c \in Consumers, f \in Frames : Spawn(c, f)
    \/ \E r \in Requests : RequestStep(r)

(* Pullers go on requesting, workers go on working, a thread that blocks   *)
(* on a mutex that stays free gets it, and the input answers.              *)
Fairness ==
    /\ \A c \in Consumers, f \in Frames : WF_vars(Spawn(c, f))
    /\ \A r \in Requests : WF_vars(RequestStep(r))

SafeSpec == Init /\ [][Next]_vars
Spec == SafeSpec /\ Fairness

-----------------------------------------------------------------------------
(* The map never holds more than `size` frames, although the check of its  *)
(* length and the insertion lie on both sides of an await.                 *)
WithinCapacity == Cardinality(Resident) <= Capacity

(* The requests that still need frame f from the Cache.                    *)
StillToCome(f) == {c \in Consumers : pc[<<c, f>>] \notin Over}

(* An entry is kept for the consumers that have not had the frame yet: the *)
(* counter never underflows and nobody finds its frame gone.  Unless the   *)
(* input failed for one of them it counts exactly those, and the last of   *)
(* several consumers removes the entry; a consumer whose fill failed is    *)
(* still counted, and its entry stays for good.  So does the entry of the  *)
(* only consumer, which is inserted with a count of 0 and never looked up. *)
KeptForTheRest ==
    \A f \in Resident :
        /\ feed[f] >= Cardinality(StillToCome(f))
        /\ ~setup.fails /\ NodesToFeed > 1 =>
              feed[f] = Cardinality(StillToCome(f)) /\ feed[f] > 0

(* The input delivers each frame at most once, however the requests of the *)
(* consumers interleave: sequential inputs cannot deliver it again.        *)
PulledOnce == \A f \in Frames : pulls[f] <= 1

(* On one worker every request is answered in the end, if the input        *)
(* answers within the poll and never fails.                                *)
EverybodyIsServed ==
    setup.threads = 1 /\ setup.kinds = {"sync"} /\ ~setup.fails =>
        <>(\A r \in Requests : FrameOf(r) < setup.last => pc[r] \in Over)

-----------------------------------------------------------------------------
(* Why the safety properties hold.                                         *)
HoldsLock == {"filling", "answered", "insert"}
Waiters == Requests \X BOOLEAN

TypeOK ==
    /\ pc \in [Requests -> PcStates]
    /\ Resident \subseteq Frames /\ feed \in [Resident -> Nat]
    /\ lock \in Requests \cup {Nobody}
    /\ futures \in Seq(Waiters) /\ todo \in Seq(Waiters)
    /\ pulls \in [Frames -> Nat]
    /\ setup \in Setups

(* A request that awaits the input holds the map's mutex, and nobody can   *)
(* take the room away that it has seen.                                    *)
FillerHasLock == \A r \in Requests : pc[r] \in HoldsLock <=> lock = r
RoomIsKept == lock # Nobody => FrameOf(lock) \notin Resident /\ HasRoom

(* A waiter that update is going to wake does sleep, and is in the vector  *)
(* once: it is never woken out of anything else.                           *)
Asleep(s) == \A i \in 1..Len(s) : s[i][2] => pc[s[i][1]] = "sleeping"
Once(s) == \A i, j \in 1..Len(s) : s[i][2] /\ s[j][2] /\ s[i][1] = s[j][1] => i = j
Apart(s, t) == \A i \in 1..Len(s), j \in 1..Len(t) : s[i][2] /\ t[j][2] => s[i][1] # t[j][1]
WakesSleepers ==
    /\ Asleep(futures) /\ Once(futures)
    /\ Asleep(todo) /\ Once(todo)
    /\ Apart(futures, todo)

(* An entry that is gone is needed by nobody; without failures nobody has  *)
(* an answer before the input has delivered the frame.                     *)
DeliveredOnce ==
    \A f \in Frames :
        /\ pulls[f] <= 1
        /\ f \in Resident => pulls[f] = 1
        /\ f \notin Resident /\ pulls[f] = 1 => StillToCome(f) = {}
        /\ ~setup.fails /\ pulls[f] = 0 => StillToCome(f) = Consumers

IInv ==
    /\ TypeOK /\ FillerHasLock /\ RoomIsKept /\ WakesSleepers
    /\ WithinCapacity /\ KeptForTheRest /\ DeliveredOnce
=============================================================================
