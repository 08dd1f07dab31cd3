---------------------------- MODULE CacheNodeProofs ----------------------------
(***************************************************************************)
(* Proofs about the Cache, for any consumers, capacity, number of frames   *)
(* and surroundings.                                                       *)
(***************************************************************************)
EXTENDS CacheNode, FiniteSetTheorems, SequenceTheorems, TLAPS

LEMMA Finite ==
  ASSUME IInv
  PROVE  /\ IsFiniteSet(Resident) /\ Cardinality(Resident) \in Nat
         /\ NodesToFeed \in Nat
         /\ \A f \in Frames : IsFiniteSet(StillToCome(f)) /\ Cardinality(StillToCome(f)) \in Nat
<1>1. IsFiniteSet(Frames)
  BY CacheAssumption, FS_Interval DEF Frames
<1>2. IsFiniteSet(Resident)
  BY <1>1, FS_Subset DEF IInv, TypeOK
<1>3. \A f \in Frames : IsFiniteSet(StillToCome(f))
  BY CacheAssumption, FS_Subset DEF StillToCome
<1>4. QED
  BY <1>2, <1>3, CacheAssumption, FS_CardinalityType DEF NodesToFeed

LEMMA RequestParts ==
  ASSUME NEW r \in Requests
  PROVE  r[1] \in Consumers /\ FrameOf(r) \in Frames /\ r = <<r[1], FrameOf(r)>>
BY DEF Requests, FrameOf

(* A step of a request changes who still needs a frame only when it ends.  *)
LEMMA NeedsAfterMove ==
  ASSUME IInv, NEW r \in Requests, NEW s \in PcStates, Goto(r, s), pc[r] \notin Over,
         NEW f \in Frames
  PROVE  StillToCome(f)' =
           IF s \in Over /\ f = FrameOf(r) THEN StillToCome(f) \ {r[1]} ELSE StillToCome(f)
<1>1. /\ pc' = [pc EXCEPT ![r] = s] /\ pc \in [Requests -> PcStates]
      /\ r[1] \in Consumers /\ r = <<r[1], FrameOf(r)>>
  BY RequestParts DEF Goto, IInv, TypeOK
<1>2. \A c \in Consumers : <<c, f>> \in Requests /\ pc'[<<c, f>>] = IF <<c, f>> = r THEN s ELSE pc[<<c, f>>]
  BY <1>1 DEF Requests
<1>3. \A c \in Consumers : <<c, f>> = r <=> c = r[1] /\ f = FrameOf(r)
  BY <1>1
<1>4. QED
  BY <1>1, <1>2, <1>3 DEF StillToCome

(* A step that keeps the map, the mutex and the vectors, and is no end.    *)
LEMMA MoveKeepsInv ==
  ASSUME IInv, NEW r \in Requests, NEW s \in PcStates \ Over, Goto(r, s),
         pc[r] \notin Over, pc[r] # "sleeping" \/ WakesSleepers',
         pc[r] \in HoldsLock <=> s \in HoldsLock,
         UNCHANGED <<feed, lock, pulls, setup>>,
         UNCHANGED <<futures, todo>> \/ WakesSleepers',
         futures' \in Seq(Waiters), todo' \in Seq(Waiters)
  PROVE  IInv'
<1>1. pc' = [pc EXCEPT ![r] = s] /\ pc \in [Requests -> PcStates]
  BY DEF Goto, IInv, TypeOK
<1>2. TypeOK'
  BY <1>1 DEF IInv, TypeOK, Resident
<1>3. FillerHasLock'
  BY <1>1 DEF IInv, FillerHasLock
<1>4. RoomIsKept' /\ WithinCapacity'
  BY DEF IInv, RoomIsKept, WithinCapacity, HasRoom, Resident
<1>5. \A f \in Frames : StillToCome(f)' = StillToCome(f)
  BY NeedsAfterMove
<1>6. DeliveredOnce'
  BY <1>5 DEF IInv, DeliveredOnce, Resident
<1>7. KeptForTheRest'
  <2>1. \A f \in Resident : f \in Frames
    BY DEF IInv, TypeOK
  <2>2. QED
    BY <1>5, <2>1 DEF IInv, KeptForTheRest, Resident
<1>8. WakesSleepers'
  <2> SUFFICES ASSUME pc[r] # "sleeping", UNCHANGED <<futures, todo>> PROVE WakesSleepers'
    OBVIOUS
  <2>1. \A q \in Requests : pc[q] = "sleeping" => pc'[q] = "sleeping"
    BY <1>1
  <2>2. \A w \in Waiters : w[1] \in Requests
    BY DEF Waiters
  <2>3. ASSUME NEW t \in Seq(Waiters), Asleep(t), t' = t PROVE Asleep(t)'
    BY <2>1, <2>2, <2>3, ElementOfSeq DEF Asleep
  <2>4. Asleep(futures)' /\ Asleep(todo)'
    BY <2>3 DEF IInv, TypeOK, WakesSleepers
  <2>5. QED
    BY <2>4 DEF IInv, WakesSleepers, Once, Apart
<1>9. QED
  BY <1>2, <1>3, <1>4, <1>6, <1>7, <1>8 DEF IInv

(* A step that touches nothing but the notifier.                           *)
LEMMA RestKept ==
  ASSUME IInv, UNCHANGED <<pc, feed, lock, pulls, setup>>, WakesSleepers',
         futures' \in Seq(Waiters), todo' \in Seq(Waiters)
  PROVE  IInv'
<1>1. TypeOK'
  BY DEF IInv, TypeOK, Resident
<1>2. FillerHasLock' /\ RoomIsKept' /\ WithinCapacity'
  BY DEF IInv, FillerHasLock, RoomIsKept, WithinCapacity, HasRoom, Resident
<1>3. KeptForTheRest' /\ DeliveredOnce'
  BY DEF IInv, KeptForTheRest, DeliveredOnce, StillToCome, Resident
<1>4. QED
  BY <1>1, <1>2, <1>3 DEF IInv

-----------------------------------------------------------------------------
(* The steps that come before a request touches the map.                   *)
LEMMA PlainSteps ==
  ASSUME IInv, NEW r \in Requests,
         Dispatch(r) \/ UpdateEnd(r) \/ Answer(r) \/ Retry(r)
           \/ \E c \in Consumers, f \in Frames : r = <<c, f>> /\ Spawn(c, f)
  PROVE  IInv'
<1>1. /\ UNCHANGED <<feed, lock, pulls, setup, futures, todo>>
      /\ pc[r] \notin Over \cup {"sleeping"}
      /\ \E s \in PcStates \ Over : Goto(r, s) /\ (pc[r] \in HoldsLock <=> s \in HoldsLock)
  <2> USE DEF PcStates, Runnable, Running, Over, HoldsLock
  <2>1. ASSUME NEW c \in Consumers, NEW f \in Frames, r = <<c, f>>, Spawn(c, f)
        PROVE  pc[r] = "new" /\ Goto(r, "spawned")
               /\ UNCHANGED <<feed, lock, pulls, setup, futures, todo>>
    BY <2>1 DEF Spawn, Goto
  <2>2. CASE Dispatch(r)
    <3>1. CASE pc[r] = "spawned"
      <4>1. Goto(r, "wait") /\ UNCHANGED <<feed, lock, pulls, setup, futures, todo>>
        BY <2>2, <3>1 DEF Dispatch
      <4>2. QED
        BY <3>1, <4>1
    <3>2. CASE pc[r] = "woken"
      <4>1. Goto(r, "update") /\ UNCHANGED <<feed, lock, pulls, setup, futures, todo>>
        BY <2>2, <3>2 DEF Dispatch
      <4>2. QED
        BY <3>2, <4>1
    <3>3. CASE pc[r] = "answered"
      <4>1. Goto(r, "insert") /\ UNCHANGED <<feed, lock, pulls, setup, futures, todo>>
        BY <2>2, <3>3 DEF Dispatch
      <4>2. QED
        BY <3>3, <4>1
    <3>4. QED
      BY <2>2, <3>1, <3>2, <3>3 DEF Dispatch
  <2>3. CASE UpdateEnd(r)
    BY <2>3 DEF UpdateEnd
  <2>4. CASE Answer(r)
    BY <2>4 DEF Answer
  <2>5. CASE Retry(r)
    BY <2>5 DEF Retry
  <2>6. CASE \E c \in Consumers, f \in Frames : r = <<c, f>> /\ Spawn(c, f)
    <3>1. pc[r] = "new" /\ Goto(r, "spawned") /\ UNCHANGED <<feed, lock, pulls, setup, futures, todo>>
      BY <2>1, <2>6
    <3>2. QED
      BY <3>1
  <2>7. QED
    BY <2>2, <2>3, <2>4, <2>5, <2>6
<1>2. futures \in Seq(Waiters) /\ todo \in Seq(Waiters)
  BY DEF IInv, TypeOK
<1>3. QED
  BY <1>1, <1>2, MoveKeepsInv

LEMMA WaitStep ==
  ASSUME IInv, NEW r \in Requests, Wait(r)
  PROVE  IInv'
<1> DEFINE w == <<r, ~Admits(FrameOf(r))>>
<1>1. /\ pc[r] = "wait" /\ futures' = Append(futures, w) /\ todo' = todo
      /\ UNCHANGED <<feed, lock, pulls, setup>>
      /\ pc' = [pc EXCEPT ![r] = IF Admits(FrameOf(r)) THEN "update" ELSE "sleeping"]
  <2>1. CASE Admits(FrameOf(r))
    BY <2>1 DEF Wait, Goto
  <2>2. CASE ~Admits(FrameOf(r))
    BY <2>2 DEF Wait, Yield, Goto
  <2>3. QED
    BY <2>1, <2>2
<1>2. /\ w \in Waiters /\ futures \in Seq(Waiters) /\ todo \in Seq(Waiters)
      /\ pc \in [Requests -> PcStates]
  BY DEF Waiters, IInv, TypeOK
<1>3. /\ futures' \in Seq(Waiters) /\ Len(futures') = Len(futures) + 1 /\ Len(futures) \in Nat
      /\ futures'[Len(futures) + 1] = w
      /\ \A i \in 1..Len(futures) : futures'[i] = futures[i] /\ futures[i][1] \in Requests
  BY <1>1, <1>2 DEF Waiters
<1>4. \A i \in 1..Len(todo) : todo[i][1] \in Requests
  BY <1>2, ElementOfSeq DEF Waiters
<1>5. \A q \in Requests : pc[q] = "sleeping" => q # r /\ pc'[q] = "sleeping"
  BY <1>1, <1>2
<1>6. Asleep(futures)'
  <2>1. w[2] => pc'[w[1]] = "sleeping"
    BY <1>1, <1>2
  <2>2. QED
    BY <1>3, <1>5, <2>1 DEF IInv, WakesSleepers, Asleep
<1>7. Asleep(todo)' /\ Once(todo)'
  BY <1>1, <1>4, <1>5 DEF IInv, WakesSleepers, Asleep, Once
<1>8. \A i \in 1..Len(futures) : futures[i][2] => futures[i][1] # w[1]
  BY <1>3, <1>5 DEF IInv, WakesSleepers, Asleep
<1>9. \A i \in 1..Len(todo) : todo[i][2] => todo[i][1] # w[1]
  BY <1>4, <1>5 DEF IInv, WakesSleepers, Asleep
<1>10. Once(futures)'
  BY <1>3, <1>8 DEF IInv, WakesSleepers, Once
<1>11. Apart(futures, todo)'
  BY <1>1, <1>3, <1>9 DEF IInv, WakesSleepers, Apart
<1>12. WakesSleepers'
  BY <1>6, <1>7, <1>10, <1>11 DEF WakesSleepers
<1>13. PICK s \in {"update", "sleeping"} : Goto(r, s)
  BY <1>1 DEF Goto
<1>14. s \in PcStates \ Over /\ s \notin HoldsLock /\ pc[r] \notin Over /\ pc[r] \notin HoldsLock
  BY <1>1, <1>13 DEF PcStates, Runnable, Running, Over, HoldsLock
<1>15. QED
  BY <1>1, <1>2, <1>3, <1>12, <1>13, <1>14, MoveKeepsInv

LEMMA UpdateBeginStep ==
  ASSUME IInv, NEW r \in Requests, UpdateBegin(r)
  PROVE  IInv'
<1>1. /\ pc[r] = "update" /\ todo' = futures /\ futures' = <<>> /\ Goto(r, "visiting")
      /\ UNCHANGED <<feed, lock, pulls, setup>>
  BY DEF UpdateBegin
<1>2. futures \in Seq(Waiters) /\ pc \in [Requests -> PcStates] /\ Len(futures') = 0
  BY <1>1, EmptySeq DEF IInv, TypeOK
<1>3. todo' \in Seq(Waiters) /\ futures' \in Seq(Waiters)
  BY <1>1, <1>2, EmptySeq
<1>4. Asleep(todo)'
  <2>1. \A i \in 1..Len(futures) : futures[i][1] \in Requests
    BY <1>2, ElementOfSeq DEF Waiters
  <2>2. \A q \in Requests : pc[q] = "sleeping" => pc'[q] = "sleeping"
    BY <1>1, <1>2 DEF Goto
  <2>3. QED
    BY <1>1, <2>1, <2>2 DEF IInv, WakesSleepers, Asleep
<1>5. Once(todo)'
  BY <1>1 DEF IInv, WakesSleepers, Once
<1>6. Asleep(futures)' /\ Once(futures)' /\ Apart(futures, todo)'
  BY <1>2 DEF Asleep, Once, Apart
<1>7. WakesSleepers'
  BY <1>4, <1>5, <1>6 DEF WakesSleepers
<1>8. "visiting" \in PcStates \ Over /\ "visiting" \notin HoldsLock /\ pc[r] \notin Over \cup HoldsLock
  BY <1>1 DEF PcStates, Runnable, Running, Over, HoldsLock
<1>9. QED
  BY <1>1, <1>3, <1>7, <1>8, MoveKeepsInv

(* update looks at the next waiter: it stays in the vector, or leaves it   *)
(* and is woken if it sleeps.                                              *)
LEMMA VisitStep ==
  ASSUME IInv, NEW r \in Requests, Visit(r)
  PROVE  IInv'
<1> DEFINE w == Head(todo)
           q == w[1]
<1>1. /\ todo # <<>> /\ todo' = Tail(todo)
      /\ UNCHANGED <<feed, lock, pulls, setup>>
      /\ \/ /\ futures' = futures
            /\ IF w[2] THEN Goto(q, "woken") ELSE pc' = pc
         \/ futures' = Append(futures, w) /\ pc' = pc
  BY DEF Visit
<1>2. futures \in Seq(Waiters) /\ todo \in Seq(Waiters) /\ pc \in [Requests -> PcStates]
  BY DEF IInv, TypeOK
<1>3. /\ Tail(todo) \in Seq(Waiters) /\ Len(todo) \in Nat \ {0} /\ Len(Tail(todo)) = Len(todo) - 1
      /\ \A i \in 1..Len(Tail(todo)) : Tail(todo)[i] = todo[i + 1] /\ i + 1 \in 1..Len(todo)
  BY <1>1, <1>2, HeadTailProperties, EmptySeq
<1>4. w = todo[1] /\ w \in Waiters /\ q \in Requests /\ 1 \in 1..Len(todo)
  BY <1>1, <1>2, <1>3, ElementOfSeq DEF Waiters
<1>5. \A i \in 1..Len(futures) : futures[i] \in Waiters /\ futures[i][1] \in Requests
  BY <1>2, ElementOfSeq DEF Waiters
<1>6. \A i \in 1..Len(todo) : todo[i] \in Waiters /\ todo[i][1] \in Requests
  BY <1>2, ElementOfSeq DEF Waiters
<1>7. Once(todo)'
  BY <1>1, <1>3 DEF IInv, WakesSleepers, Once
<1>8. \A i \in 1..Len(todo') : todo'[i][2] => todo'[i][1] # q \/ ~w[2]
  <2> SUFFICES ASSUME NEW i \in 1..Len(todo'), todo'[i][2], w[2], todo'[i][1] = q PROVE FALSE
    OBVIOUS
  <2>1. todo'[i] = todo[i + 1] /\ i + 1 \in 1..Len(todo) /\ i \in Nat \ {0}
    BY <1>1, <1>3
  <2>2. i + 1 = 1
    BY <1>4, <2>1 DEF IInv, WakesSleepers, Once
  <2>3. QED
    BY <2>1, <2>2
<1>9. \A i \in 1..Len(futures) : futures[i][2] => futures[i][1] # q \/ ~w[2]
  BY <1>4 DEF IInv, WakesSleepers, Apart
<1>10. CASE futures' = futures /\ w[2] /\ Goto(q, "woken")
  <2>1. pc[q] = "sleeping"
    BY <1>4, <1>10 DEF IInv, WakesSleepers, Asleep
  <2>2. \A p \in Requests : pc[p] = "sleeping" /\ p # q => pc'[p] = "sleeping"
    BY <1>2, <1>10 DEF Goto
  <2>3. Asleep(futures)'
    BY <1>5, <1>9, <1>10, <2>2 DEF IInv, WakesSleepers, Asleep
  <2>4. Asleep(todo)'
    BY <1>1, <1>3, <1>6, <1>8, <1>10, <2>2 DEF IInv, WakesSleepers, Asleep
  <2>5. Once(futures)' /\ Apart(futures, todo)'
    BY <1>1, <1>3, <1>10 DEF IInv, WakesSleepers, Once, Apart
  <2>6. WakesSleepers'
    BY <1>7, <2>3, <2>4, <2>5 DEF WakesSleepers
  <2>7. "woken" \in PcStates \ Over /\ "woken" \notin HoldsLock /\ pc[q] \notin Over \cup HoldsLock
    BY <2>1 DEF PcStates, Runnable, Running, Over, HoldsLock
  <2>8. futures' \in Seq(Waiters) /\ todo' \in Seq(Waiters)
    BY <1>1, <1>2, <1>3, <1>10
  <2>9. QED
    BY <1>1, <1>4, <1>10, <2>6, <2>7, <2>8, MoveKeepsInv
<1>11. CASE pc' = pc
  <2>1. Asleep(todo)'
    BY <1>1, <1>3, <1>11 DEF IInv, WakesSleepers, Asleep
  <2>2. CASE futures' = futures
    <3>1. Asleep(futures)' /\ Once(futures)'
      BY <1>11, <2>2 DEF IInv, WakesSleepers, Asleep, Once
    <3>2. Apart(futures, todo)'
      BY <1>1, <1>3, <2>2 DEF IInv, WakesSleepers, Apart
    <3>3. QED
      BY <1>1, <1>2, <1>3, <1>7, <1>11, <2>1, <2>2, <3>1, <3>2, RestKept DEF WakesSleepers
  <2>3. CASE futures' = Append(futures, w)
    <3>1. /\ futures' \in Seq(Waiters) /\ Len(futures') = Len(futures) + 1 /\ Len(futures) \in Nat
          /\ futures'[Len(futures) + 1] = w
          /\ \A i \in 1..Len(futures) : futures'[i] = futures[i]
      BY <1>2, <1>4, <2>3
    <3>2. Asleep(futures)'
      BY <1>4, <1>11, <3>1 DEF IInv, WakesSleepers, Asleep
    <3>3. Once(futures)'
      BY <1>9, <3>1 DEF IInv, WakesSleepers, Once
    <3>4. Apart(futures, todo)'
      <4>1. ASSUME NEW i \in 1..Len(futures), NEW j \in 1..Len(todo'), futures[i][2], todo'[j][2]
            PROVE  futures[i][1] # todo'[j][1]
        BY <1>1, <1>3, <4>1 DEF IInv, WakesSleepers, Apart
      <4>2. QED
        BY <1>8, <3>1, <4>1 DEF Apart
    <3>5. QED
      BY <1>1, <1>3, <1>7, <1>11, <2>1, <3>1, <3>2, <3>3, <3>4, RestKept DEF WakesSleepers
  <2>4. QED
    BY <1>1, <2>2, <2>3
<1>12. QED
  BY <1>1, <1>10, <1>11

-----------------------------------------------------------------------------
(* The steps that touch the map.                                           *)

LEMMA EndKeepsSleepers ==
  ASSUME IInv, NEW r \in Requests, NEW s \in PcStates, Goto(r, s), pc[r] # "sleeping",
         UNCHANGED <<futures, todo>>
  PROVE  WakesSleepers'
<1>1. \A q \in Requests : pc[q] = "sleeping" => pc'[q] = "sleeping"
  BY DEF Goto, IInv, TypeOK
<1>2. \A i \in 1..Len(futures) : futures[i][1] \in Requests
  BY ElementOfSeq DEF Waiters, IInv, TypeOK
<1>3. \A i \in 1..Len(todo) : todo[i][1] \in Requests
  BY ElementOfSeq DEF Waiters, IInv, TypeOK
<1>4. Asleep(futures)' /\ Asleep(todo)'
  BY <1>1, <1>2, <1>3 DEF IInv, WakesSleepers, Asleep
<1>5. QED
  BY <1>4 DEF IInv, WakesSleepers, Once, Apart

(* The mutex is free, or the request that ends is its holder.              *)
LEMMA EndKeepsLock ==
  ASSUME IInv, NEW r \in Requests, NEW s \in Over, Goto(r, s),
         lock' = Nobody, lock = Nobody \/ lock = r
  PROVE  FillerHasLock' /\ RoomIsKept'
<1>1. pc' = [pc EXCEPT ![r] = s] /\ pc \in [Requests -> PcStates] /\ s \notin HoldsLock
  BY DEF Goto, Over, HoldsLock, IInv, TypeOK
<1>2. \A q \in Requests : q # r => pc[q] \notin HoldsLock
  BY NobodyAssumption DEF IInv, FillerHasLock
<1>3. FillerHasLock'
  BY <1>1, <1>2, NobodyAssumption DEF FillerHasLock
<1>4. QED
  BY <1>3 DEF RoomIsKept

LEMMA HitStep ==
  ASSUME IInv, NEW r \in Requests, Hit(r)
  PROVE  IInv'
<1> DEFINE f == FrameOf(r)
<1>1. /\ pc[r] = "enter" /\ lock = Nobody /\ f \in Resident /\ Goto(r, "done")
      /\ feed' = IF feed[f] = 1 THEN [g \in Resident \ {f} |-> feed[g]]
                 ELSE [feed EXCEPT ![f] = @ - 1]
      /\ UNCHANGED <<lock, futures, todo, pulls, setup>>
  BY DEF Hit, Yield
<1>2. /\ pc \in [Requests -> PcStates] /\ "done" \in PcStates \cap Over
      /\ Resident \subseteq Frames /\ feed \in [Resident -> Nat]
      /\ f \in Frames /\ r[1] \in Consumers /\ r = <<r[1], f>>
      /\ pc[r] \notin Over
  BY <1>1, RequestParts DEF PcStates, Over, Runnable, Running, IInv, TypeOK
<1>3. \A g \in Frames : StillToCome(g)' = IF g = f THEN StillToCome(f) \ {r[1]} ELSE StillToCome(g)
  BY <1>1, <1>2, NeedsAfterMove
<1>4. r[1] \in StillToCome(f)
  BY <1>2 DEF StillToCome
<1>5. /\ IsFiniteSet(StillToCome(f)) /\ Cardinality(StillToCome(f)) \in Nat \ {0}
      /\ Cardinality(StillToCome(f)') = Cardinality(StillToCome(f)) - 1
  <2>1. IsFiniteSet(StillToCome(f)) /\ Cardinality(StillToCome(f)) \in Nat
    BY <1>2, Finite
  <2>2. Cardinality(StillToCome(f)) # 0
    BY <1>4, <2>1, FS_EmptySet
  <2>3. Cardinality(StillToCome(f) \ {r[1]}) = Cardinality(StillToCome(f)) - 1
    BY <1>4, <2>1, FS_RemoveElement
  <2>4. QED
    BY <1>2, <1>3, <2>1, <2>2, <2>3
<1>6. feed[f] >= Cardinality(StillToCome(f)) /\ feed[f] \in Nat \ {0}
  BY <1>1, <1>2, <1>5 DEF IInv, KeptForTheRest
<1>7. WakesSleepers' /\ FillerHasLock' /\ RoomIsKept'
  BY <1>1, <1>2, EndKeepsSleepers, EndKeepsLock
<1>8. pc' \in [Requests -> PcStates]
  BY <1>1, <1>2 DEF Goto
<1>9. CASE feed[f] = 1
  <2>1. feed' = [g \in Resident \ {f} |-> feed[g]] /\ Resident' = Resident \ {f}
    BY <1>1, <1>9 DEF Resident
  <2>2. TypeOK'
    BY <1>1, <1>2, <1>8, <2>1 DEF IInv, TypeOK
  <2>3. WithinCapacity'
    <3>1. Cardinality(Resident \ {f}) = Cardinality(Resident) - 1 /\ Cardinality(Resident) \in Nat
      BY <1>1, Finite, FS_RemoveElement
    <3>2. QED
      BY <2>1, <3>1, CacheAssumption DEF IInv, WithinCapacity
  <2>4. StillToCome(f)' = {}
    <3>1. Cardinality(StillToCome(f)) = 1
      BY <1>5, <1>6, <1>9
    <3>2. PICK c : StillToCome(f) = {c}
      BY <1>5, <3>1, FS_Singleton
    <3>3. QED
      BY <1>2, <1>3, <1>4, <3>2
  <2>5. KeptForTheRest'
    <3>1. \A g \in Resident' : g # f /\ g \in Resident /\ feed'[g] = feed[g] /\ g \in Frames
      BY <1>2, <2>1
    <3>2. QED
      BY <1>1, <1>3, <3>1 DEF IInv, KeptForTheRest
  <2>6. DeliveredOnce'
    BY <1>1, <1>2, <1>3, <2>1, <2>4 DEF IInv, DeliveredOnce
  <2>7. QED
    BY <1>7, <2>2, <2>3, <2>5, <2>6 DEF IInv
<1>10. CASE feed[f] # 1
  <2>1. feed' = [feed EXCEPT ![f] = feed[f] - 1] /\ Resident' = Resident
    BY <1>1, <1>2, <1>10 DEF Resident
  <2>2. TypeOK'
    BY <1>1, <1>2, <1>6, <1>8, <2>1 DEF IInv, TypeOK
  <2>3. WithinCapacity'
    BY <2>1 DEF IInv, WithinCapacity
  <2>4. KeptForTheRest'
    <3>1. ASSUME NEW g \in Resident, g # f
          PROVE  g \in Frames /\ feed'[g] = feed[g] /\ StillToCome(g)' = StillToCome(g)
      BY <1>2, <1>3, <2>1, <3>1
    <3>2. feed'[f] = feed[f] - 1
      BY <1>1, <1>2, <2>1
    <3>3. feed'[f] >= Cardinality(StillToCome(f)')
      BY <1>5, <1>6, <3>2
    <3>4. ~setup.fails /\ NodesToFeed > 1 =>
            feed'[f] = Cardinality(StillToCome(f)') /\ feed'[f] > 0
      <4>1. ~setup.fails /\ NodesToFeed > 1 => feed[f] = Cardinality(StillToCome(f))
        BY <1>1 DEF IInv, KeptForTheRest
      <4>2. feed[f] > 1
        BY <1>6, <1>10
      <4>3. QED
        BY <1>5, <1>6, <3>2, <4>1, <4>2
    <3>5. QED
      BY <1>1, <2>1, <3>1, <3>3, <3>4 DEF IInv, KeptForTheRest
  <2>5. DeliveredOnce'
    BY <1>1, <1>2, <1>3, <2>1 DEF IInv, DeliveredOnce
  <2>6. QED
    BY <1>7, <2>2, <2>3, <2>4, <2>5 DEF IInv
<1>11. QED
  BY <1>9, <1>10

(* The input has delivered frame f for r: nobody can have had it before,   *)
(* since r itself still needs it.                                          *)
LEMMA InsertKeepsInv ==
  ASSUME IInv, NEW r \in Requests, Insert(FrameOf(r)), Goto(r, "done"),
         pc[r] \notin Over \cup {"sleeping"}, FrameOf(r) \notin Resident, HasRoom,
         lock' = Nobody, lock = Nobody \/ lock = r,
         UNCHANGED <<futures, todo, setup>>
  PROVE  IInv'
<1> DEFINE f == FrameOf(r)
<1>1. /\ pc \in [Requests -> PcStates] /\ "done" \in PcStates /\ "done" \in Over
      /\ Resident \subseteq Frames /\ feed \in [Resident -> Nat] /\ pulls \in [Frames -> Nat]
      /\ f \in Frames /\ r[1] \in Consumers /\ r = <<r[1], f>>
  BY RequestParts DEF PcStates, Over, Runnable, Running, IInv, TypeOK
<1>2. /\ Resident' = Resident \cup {f}
      /\ \A g \in Resident' : feed'[g] = IF g = f THEN NodesToFeed - 1 ELSE feed[g]
      /\ feed' \in [Resident' -> {NodesToFeed - 1} \cup Nat]
      /\ pulls' = [pulls EXCEPT ![f] = pulls[f] + 1]
  BY <1>1 DEF Insert, Resident
<1>3. \A g \in Frames : StillToCome(g)' = IF g = f THEN StillToCome(f) \ {r[1]} ELSE StillToCome(g)
  BY <1>1, NeedsAfterMove
<1>4. r[1] \in StillToCome(f) /\ StillToCome(f) \subseteq Consumers
  BY <1>1 DEF StillToCome
<1>5. pulls[f] = 0
  BY <1>1, <1>4 DEF IInv, DeliveredOnce
<1>6. /\ NodesToFeed - 1 \in Nat
      /\ Cardinality(StillToCome(f)') <= NodesToFeed - 1
      /\ StillToCome(f) = Consumers => Cardinality(StillToCome(f)') = NodesToFeed - 1
  <2>1. IsFiniteSet(Consumers) /\ IsFiniteSet(Consumers \ {r[1]}) /\ NodesToFeed \in Nat
    BY CacheAssumption, FS_RemoveElement, Finite
  <2>2. Cardinality(Consumers \ {r[1]}) = NodesToFeed - 1 /\ Cardinality(Consumers \ {r[1]}) \in Nat
    BY <1>1, <2>1, FS_RemoveElement, FS_CardinalityType DEF NodesToFeed
  <2>3. Cardinality(StillToCome(f) \ {r[1]}) <= Cardinality(Consumers \ {r[1]})
    BY <1>4, <2>1, FS_Subset
  <2>4. QED
    BY <1>1, <1>3, <2>2, <2>3
<1>7. WakesSleepers' /\ FillerHasLock' /\ RoomIsKept'
  BY <1>1, EndKeepsSleepers, EndKeepsLock
<1>8. TypeOK'
  <2>1. pc' \in [Requests -> PcStates]
    BY <1>1 DEF Goto
  <2>2. pulls' \in [Frames -> Nat] /\ Resident' \subseteq Frames
    BY <1>1, <1>2
  <2>3. feed' \in [Resident' -> Nat]
    BY <1>2, <1>6
  <2>4. QED
    BY <2>1, <2>2, <2>3 DEF IInv, TypeOK
<1>9. WithinCapacity'
  <2>1. Cardinality(Resident \cup {f}) = Cardinality(Resident) + 1 /\ Cardinality(Resident) \in Nat
    BY Finite, FS_AddElement
  <2>2. QED
    BY <1>2, <2>1, CacheAssumption DEF WithinCapacity, HasRoom
<1>10. DeliveredOnce'
  <2>1. pulls'[f] = 1 /\ f \in Resident'
    BY <1>1, <1>2, <1>5
  <2>2. ASSUME NEW g \in Frames, g # f
        PROVE  pulls'[g] = pulls[g] /\ (g \in Resident' <=> g \in Resident)
               /\ StillToCome(g)' = StillToCome(g)
    BY <1>1, <1>2, <1>3, <2>2
  <2>3. QED
    BY <1>1, <2>1, <2>2 DEF IInv, DeliveredOnce
<1>11. KeptForTheRest'
  <2>1. feed'[f] = NodesToFeed - 1
    BY <1>2
  <2>2. feed'[f] >= Cardinality(StillToCome(f)')
    BY <1>6, <2>1, Finite
  <2>3. ~setup.fails /\ NodesToFeed > 1 => feed'[f] = Cardinality(StillToCome(f)') /\ feed'[f] > 0
    <3>1. ~setup.fails => StillToCome(f) = Consumers
      BY <1>1, <1>5 DEF IInv, DeliveredOnce
    <3>2. QED
      BY <1>6, <2>1, <3>1, Finite
  <2>4. ASSUME NEW g \in Resident', g # f
        PROVE  g \in Resident /\ feed'[g] = feed[g] /\ StillToCome(g)' = StillToCome(g)
    BY <1>1, <1>2, <1>3, <2>4
  <2>5. QED
    BY <2>2, <2>3, <2>4 DEF IInv, KeptForTheRest
<1>12. QED
  BY <1>7, <1>8, <1>9, <1>10, <1>11 DEF IInv

(* The input failed: the request is over, and the map as it was.           *)
LEMMA FailKeepsInv ==
  ASSUME IInv, NEW r \in Requests, setup.fails, Goto(r, "failed"),
         pc[r] \notin Over \cup {"sleeping"},
         lock' = Nobody, lock = Nobody \/ lock = r,
         UNCHANGED <<feed, pulls, futures, todo, setup>>
  PROVE  IInv'
<1> DEFINE f == FrameOf(r)
<1>1. /\ pc \in [Requests -> PcStates] /\ "failed" \in PcStates /\ "failed" \in Over
      /\ Resident' = Resident /\ Resident \subseteq Frames /\ feed \in [Resident -> Nat]
      /\ f \in Frames
  BY RequestParts DEF PcStates, Over, Runnable, Running, IInv, TypeOK, Resident
<1>2. \A g \in Frames : StillToCome(g)' = IF g = f THEN StillToCome(f) \ {r[1]} ELSE StillToCome(g)
  BY <1>1, NeedsAfterMove
<1>3. WakesSleepers' /\ FillerHasLock' /\ RoomIsKept'
  BY <1>1, EndKeepsSleepers, EndKeepsLock
<1>4. TypeOK' /\ WithinCapacity'
  <2>1. pc' \in [Requests -> PcStates]
    BY <1>1 DEF Goto
  <2>2. QED
    BY <1>1, <2>1 DEF IInv, TypeOK, WithinCapacity
<1>5. \A g \in Frames :
          /\ Cardinality(StillToCome(g)') <= Cardinality(StillToCome(g))
          /\ Cardinality(StillToCome(g)) \in Nat /\ Cardinality(StillToCome(g)') \in Nat
          /\ StillToCome(g)' \subseteq StillToCome(g)
  <2> SUFFICES ASSUME NEW g \in Frames
               PROVE  /\ Cardinality(StillToCome(g)') <= Cardinality(StillToCome(g))
                      /\ Cardinality(StillToCome(g)) \in Nat /\ Cardinality(StillToCome(g)') \in Nat
                      /\ StillToCome(g)' \subseteq StillToCome(g)
    OBVIOUS
  <2>1. IsFiniteSet(StillToCome(g)) /\ StillToCome(g)' \subseteq StillToCome(g)
    BY <1>2, Finite
  <2>2. QED
    BY <2>1, FS_Subset, FS_CardinalityType
<1>6. KeptForTheRest'
  <2>1. \A g \in Resident : g \in Frames /\ feed[g] \in Nat
    BY <1>1
  <2>2. \A g \in Resident : feed[g] >= Cardinality(StillToCome(g))
    BY DEF IInv, KeptForTheRest
  <2>3. \A g \in Resident : feed[g] >= Cardinality(StillToCome(g)')
    BY <1>5, <2>1, <2>2
  <2>4. QED
    BY <1>1, <2>3 DEF KeptForTheRest
<1>7. DeliveredOnce'
  BY <1>1, <1>5 DEF IInv, DeliveredOnce
<1>8. QED
  BY <1>3, <1>4, <1>6, <1>7 DEF IInv

LEMMA FillSteps ==
  ASSUME IInv, NEW r \in Requests, FillNow(r) \/ FillEnd(r)
  PROVE  IInv'
<1>1. CASE FillNow(r)
  <2>1. /\ pc[r] = "enter" /\ lock = Nobody /\ lock' = Nobody
        /\ FrameOf(r) \notin Resident /\ HasRoom
        /\ UNCHANGED <<futures, todo, setup>>
        /\ \/ Insert(FrameOf(r)) /\ Goto(r, "done")
           \/ setup.fails /\ Goto(r, "failed") /\ UNCHANGED <<feed, pulls>>
    BY <1>1 DEF FillNow, Yield
  <2>2. pc[r] \notin Over \cup {"sleeping"}
    BY <2>1 DEF Over
  <2>3. QED
    BY <2>1, <2>2, InsertKeepsInv, FailKeepsInv
<1>2. CASE FillEnd(r)
  <2>1. /\ pc[r] = "insert" /\ lock' = Nobody
        /\ UNCHANGED <<futures, todo, setup>>
        /\ \/ Insert(FrameOf(r)) /\ Goto(r, "done")
           \/ setup.fails /\ Goto(r, "failed") /\ UNCHANGED <<feed, pulls>>
    BY <1>2 DEF FillEnd, Yield
  <2>2. lock = r /\ pc[r] \notin Over \cup {"sleeping"}
    BY <2>1 DEF HoldsLock, IInv, FillerHasLock, Over
  <2>3. FrameOf(r) \notin Resident /\ HasRoom
    BY <2>2, NobodyAssumption DEF IInv, RoomIsKept
  <2>4. QED
    BY <2>1, <2>2, <2>3, InsertKeepsInv, FailKeepsInv
<1>3. QED
  BY <1>1, <1>2

(* The request takes the mutex with it into the await.                     *)
LEMMA FillBeginStep ==
  ASSUME IInv, NEW r \in Requests, FillBegin(r)
  PROVE  IInv'
<1>1. /\ pc[r] = "enter" /\ lock = Nobody /\ FrameOf(r) \notin Resident /\ HasRoom
      /\ lock' = r /\ Goto(r, "filling")
      /\ UNCHANGED <<feed, futures, todo, pulls, setup>>
  BY DEF FillBegin, Yield
<1>2. /\ pc \in [Requests -> PcStates] /\ "filling" \in PcStates /\ "filling" \notin Over
      /\ pc[r] \notin Over \cup {"sleeping"} /\ pc' = [pc EXCEPT ![r] = "filling"]
      /\ Resident' = Resident /\ Resident \subseteq Frames
  BY <1>1 DEF Goto, PcStates, Over, Runnable, Running, IInv, TypeOK, Resident
<1>3. TypeOK'
  BY <1>1, <1>2 DEF IInv, TypeOK
<1>4. FillerHasLock'
  <2>1. \A q \in Requests : pc[q] \notin HoldsLock
    BY <1>1, NobodyAssumption DEF IInv, FillerHasLock
  <2>2. "filling" \in HoldsLock
    BY DEF HoldsLock
  <2>3. QED
    BY <1>1, <1>2, <2>1, <2>2 DEF FillerHasLock
<1>5. RoomIsKept' /\ WithinCapacity'
  BY <1>1, <1>2 DEF IInv, RoomIsKept, WithinCapacity, HasRoom
<1>6. WakesSleepers'
  BY <1>1, <1>2, EndKeepsSleepers
<1>7. \A g \in Frames : StillToCome(g)' = StillToCome(g)
  BY <1>1, <1>2, NeedsAfterMove
<1>8. KeptForTheRest' /\ DeliveredOnce'
  BY <1>1, <1>2, <1>7 DEF IInv, KeptForTheRest, DeliveredOnce
<1>9. QED
  BY <1>3, <1>4, <1>5, <1>6, <1>8 DEF IInv

-----------------------------------------------------------------------------
LEMMA InitIInv == Init => IInv
<1> SUFFICES ASSUME Init PROVE IInv
  OBVIOUS
<1>1. /\ pc = [r \in Requests |-> "new"] /\ feed = [f \in {} |-> 0] /\ Resident = {}
      /\ lock = Nobody /\ futures = <<>> /\ todo = <<>> /\ pulls = [f \in Frames |-> 0]
      /\ setup \in Setups /\ Len(futures) = 0 /\ Len(todo) = 0
  BY EmptySeq DEF Init, Resident
<1>2. "new" \in PcStates /\ "new" \notin HoldsLock \cup Over
  BY DEF PcStates, HoldsLock, Over
<1>3. TypeOK
  <2>1. futures \in Seq(Waiters) /\ todo \in Seq(Waiters)
    BY <1>1, EmptySeq
  <2>2. feed \in [Resident -> Nat] /\ pulls \in [Frames -> Nat] /\ pc \in [Requests -> PcStates]
    BY <1>1, <1>2
  <2>3. QED
    BY <1>1, <2>1, <2>2 DEF TypeOK
<1>4. FillerHasLock /\ RoomIsKept
  BY <1>1, <1>2, NobodyAssumption DEF FillerHasLock, RoomIsKept
<1>5. WakesSleepers
  <2>1. \A i \in 1..Len(futures) : FALSE
    BY <1>1
  <2>2. \A i \in 1..Len(todo) : FALSE
    BY <1>1
  <2>3. QED
    BY <2>1, <2>2 DEF WakesSleepers, Asleep, Once, Apart
<1>6. WithinCapacity
  BY <1>1, FS_EmptySet, CacheAssumption DEF WithinCapacity
<1>7. KeptForTheRest /\ DeliveredOnce
  <2>1. \A f \in Frames : StillToCome(f) = Consumers
    BY <1>1, <1>2 DEF StillToCome, Requests
  <2>2. \A f \in Frames : pulls[f] = 0
    BY <1>1
  <2>3. QED
    BY <1>1, <2>1, <2>2 DEF KeptForTheRest, DeliveredOnce
<1>8. QED
  BY <1>3, <1>4, <1>5, <1>6, <1>7 DEF IInv

LEMMA StepIInv == IInv /\ [Next]_vars => IInv'
<1> SUFFICES ASSUME IInv, [Next]_vars PROVE IInv'
  OBVIOUS
<1>1. ASSUME NEW c \in Consumers, NEW f \in Frames, Spawn(c, f) PROVE IInv'
  <2>1. <<c, f>> \in Requests
    BY DEF Requests
  <2>2. QED
    BY <1>1, <2>1, PlainSteps
<1>2. ASSUME NEW r \in Requests, RequestStep(r) PROVE IInv'
  BY <1>2, PlainSteps, WaitStep, UpdateBeginStep, VisitStep, HitStep, FillSteps, FillBeginStep
     DEF RequestStep
<1>3. CASE UNCHANGED vars
  <2>1. UNCHANGED <<pc, feed, lock, pulls, setup>> /\ futures' = futures /\ todo' = todo
    BY <1>3 DEF vars
  <2>2. WakesSleepers' /\ futures' \in Seq(Waiters) /\ todo' \in Seq(Waiters)
    BY <2>1 DEF IInv, TypeOK, WakesSleepers, Asleep, Once, Apart
  <2>3. QED
    BY <2>1, <2>2, RestKept
<1>4. QED
  BY <1>1, <1>2, <1>3 DEF Next

LEMMA IInvAlways == SafeSpec => []IInv
BY InitIInv, StepIInv, PTL DEF SafeSpec

(* The capacity holds although it is checked before the input is awaited.  *)
THEOREM CapacityIsKept == SafeSpec => []WithinCapacity
<1>1. IInv => WithinCapacity
  BY DEF IInv
<1>2. QED
  BY IInvAlways, <1>1, PTL

(* The input delivers no frame twice, so that it may be one that cannot go *)
(* back.                                                                   *)
THEOREM InputIsPulledOnce == SafeSpec => []PulledOnce
<1>1. IInv => PulledOnce
  BY DEF IInv, DeliveredOnce, PulledOnce
<1>2. QED
  BY IInvAlways, <1>1, PTL

(* No consumer finds an entry gone, or its counter at zero, before it has  *)
(* had the frame.                                                          *)
THEOREM EntriesAreKept == SafeSpec => []KeptForTheRest
<1>1. IInv => KeptForTheRest
  BY DEF IInv
<1>2. QED
  BY IInvAlways, <1>1, PTL
=============================================================================
