---------------------- MODULE PrioritizedReactorProofs ----------------------
(***************************************************************************)
(* Proofs about PrioritizedReactor, for any finite sets of workers,        *)
(* clients and tasks, any keys and any bound on the number of polls, and,  *)
(* at the end, about the keys of OutputScheduling: that packing keeps the  *)
(* order of outputs and frames, the same for a shift by 56 bits or any     *)
(* other.                                                                  *)
(*                                                                         *)
(* NoStrandedWork is inductive once the type is known.  OneHolder needs    *)
(* HandsFull: a thread in the schedule closure holds a task, a worker that *)
(* has popped one is in no schedule closure.  IInv is their conjunction.   *)
(***************************************************************************)
EXTENDS OutputScheduling, FiniteSetTheorems, TLAPS

LEMMA InitIInv == Init => IInv
<1> SUFFICES ASSUME Init PROVE IInv
  OBVIOUS
<1> USE ReactorAssumption DEF Init
<1>1. TypeOK
  BY DEF TypeOK, WorkerStates, TaskStates
<1>2. HandsFull
  BY DEF HandsFull, Actors
<1>3. OneHolder
  BY DEF OneHolder, RunnableHolders, PollersOf, AtMostOne, Actors
<1>4. NoStrandedWork
  BY DEF NoStrandedWork, WorkersAt
<1>5. QED
  BY <1>1, <1>2, <1>3, <1>4 DEF IInv

(* The type and HandsFull are preserved together: the pushed task must be  *)
(* one for the heap to stay a set of tasks.                                *)
LEMMA TypeStep ==
    ASSUME TypeOK, HandsFull, [Next]_vars
    PROVE  TypeOK' /\ HandsFull'
<1> USE ReactorAssumption DEF TypeOK, HandsFull, WorkerStates, TaskStates, Actors
<1>1. ASSUME NEW a \in Actors, NEW t \in Tasks, Spawn(a, t) PROVE TypeOK' /\ HandsFull'
  BY <1>1 DEF Spawn, Schedule, MayCall
<1>2. ASSUME NEW a \in Actors, NEW t \in Tasks, WakeIdle(a, t) PROVE TypeOK' /\ HandsFull'
  BY <1>2 DEF WakeIdle, Schedule, MayCall
<1>3. ASSUME NEW a \in Actors, NEW t \in Tasks, WakeRunning(a, t) PROVE TypeOK' /\ HandsFull'
  BY <1>3 DEF WakeRunning
<1>4. ASSUME NEW a \in Actors, NEW t \in Tasks, DropHandle(a, t) PROVE TypeOK' /\ HandsFull'
  BY <1>4 DEF DropHandle, Schedule, MayCall
<1>5. ASSUME NEW a \in Actors, Push(a) PROVE TypeOK' /\ HandsFull'
  BY <1>5 DEF Push
<1>6. ASSUME NEW a \in Actors, Notify(a) PROVE TypeOK' /\ HandsFull'
  BY <1>6 DEF Notify, WorkersAt
<1>7. ASSUME NEW w \in Workers, Start(w) PROVE TypeOK' /\ HandsFull'
  BY <1>7 DEF Start
<1>8. ASSUME NEW w \in Workers, Pop(w) PROVE TypeOK' /\ HandsFull'
  BY <1>8 DEF Pop
<1>9. ASSUME NEW w \in Workers, Wait(w) PROVE TypeOK' /\ HandsFull'
  BY <1>9 DEF Wait
<1>10. ASSUME NEW w \in Workers, SpuriousWakeup(w) PROVE TypeOK' /\ HandsFull'
  BY <1>10 DEF SpuriousWakeup
<1>11. ASSUME NEW w \in Workers, BeginPoll(w) PROVE TypeOK' /\ HandsFull'
  BY <1>11 DEF BeginPoll
<1>12. ASSUME NEW w \in Workers, FreeClosed(w) PROVE TypeOK' /\ HandsFull'
  BY <1>12 DEF FreeClosed, Release
<1>13. ASSUME NEW w \in Workers, PollReady(w) PROVE TypeOK' /\ HandsFull'
  BY <1>13 DEF PollReady, Release
<1>14. ASSUME NEW w \in Workers, PollPending(w) PROVE TypeOK' /\ HandsFull'
  BY <1>14 DEF PollPending, Schedule, Release
<1>15. CASE UNCHANGED vars
  BY <1>15 DEF vars
<1>16. QED
  BY <1>1, <1>2, <1>3, <1>4, <1>5, <1>6, <1>7, <1>8, <1>9, <1>10, <1>11, <1>12, <1>13, <1>14, <1>15
  DEF Next, ClientStep, ScheduleStep, WorkerStep

LEMMA OneHolderStep ==
    ASSUME TypeOK, HandsFull, OneHolder, [Next]_vars
    PROVE  OneHolder'
<1> USE ReactorAssumption DEF TypeOK, HandsFull, OneHolder, RunnableHolders, PollersOf, AtMostOne, WorkerStates, TaskStates, Actors
<1>1. ASSUME NEW a \in Actors, NEW t \in Tasks, Spawn(a, t) PROVE OneHolder'
  BY <1>1 DEF Spawn, Schedule, MayCall
<1>2. ASSUME NEW a \in Actors, NEW t \in Tasks, WakeIdle(a, t) PROVE OneHolder'
  BY <1>2 DEF WakeIdle, Schedule, MayCall
<1>3. ASSUME NEW a \in Actors, NEW t \in Tasks, WakeRunning(a, t) PROVE OneHolder'
  BY <1>3 DEF WakeRunning
<1>4. ASSUME NEW a \in Actors, NEW t \in Tasks, DropHandle(a, t) PROVE OneHolder'
  BY <1>4 DEF DropHandle, Schedule, MayCall
<1>5. ASSUME NEW a \in Actors, Push(a) PROVE OneHolder'
  BY <1>5 DEF Push
<1>6. ASSUME NEW a \in Actors, Notify(a) PROVE OneHolder'
  BY <1>6 DEF Notify, WorkersAt
<1>7. ASSUME NEW w \in Workers, Start(w) PROVE OneHolder'
  BY <1>7 DEF Start
<1>8. ASSUME NEW w \in Workers, Pop(w) PROVE OneHolder'
  BY <1>8 DEF Pop
<1>9. ASSUME NEW w \in Workers, Wait(w) PROVE OneHolder'
  BY <1>9 DEF Wait
<1>10. ASSUME NEW w \in Workers, SpuriousWakeup(w) PROVE OneHolder'
  BY <1>10 DEF SpuriousWakeup
<1>11. ASSUME NEW w \in Workers, BeginPoll(w) PROVE OneHolder'
  BY <1>11 DEF BeginPoll
<1>12. ASSUME NEW w \in Workers, FreeClosed(w) PROVE OneHolder'
  BY <1>12 DEF FreeClosed, Release
<1>13. ASSUME NEW w \in Workers, PollReady(w) PROVE OneHolder'
  BY <1>13 DEF PollReady, Release
<1>14. ASSUME NEW w \in Workers, PollPending(w) PROVE OneHolder'
  BY <1>14 DEF PollPending, Schedule, Release
<1>15. CASE UNCHANGED vars
  BY <1>15 DEF vars
<1>16. QED
  BY <1>1, <1>2, <1>3, <1>4, <1>5, <1>6, <1>7, <1>8, <1>9, <1>10, <1>11, <1>12, <1>13, <1>14, <1>15
  DEF Next, ClientStep, ScheduleStep, WorkerStep

LEMMA FiniteParts ==
    ASSUME TypeOK
    PROVE  /\ IsFiniteSet(queue) /\ Cardinality(queue) \in Nat
           /\ \A s : IsFiniteSet(WorkersAt(s)) /\ Cardinality(WorkersAt(s)) \in Nat
           /\ \A c : IsFiniteSet(ActorsAt(c)) /\ Cardinality(ActorsAt(c)) \in Nat
<1>1. IsFiniteSet(Actors)
  BY FS_Union, ReactorAssumption DEF Actors
<1>2. IsFiniteSet(queue)
  BY FS_Subset, ReactorAssumption DEF TypeOK
<1>3. \A s : IsFiniteSet(WorkersAt(s))
  BY FS_Subset, ReactorAssumption DEF WorkersAt
<1>4. \A c : IsFiniteSet(ActorsAt(c))
  BY FS_Subset, <1>1 DEF ActorsAt
<1>5. QED
  BY <1>2, <1>3, <1>4, FS_CardinalityType

(* NoStrandedWork: a push adds a runnable and a notification; a notify     *)
(* turns its notification into a looking worker; a pop takes one of each;  *)
(* and the first worker to wait found the heap empty.                      *)
LEMMA StrandedStep ==
    ASSUME TypeOK, TypeOK', HandsFull, NoStrandedWork, [Next]_vars
    PROVE  NoStrandedWork'
<1> USE ReactorAssumption
<1> DEFINE Q == Cardinality(queue)
           L == Cardinality(WorkersAt("looking"))
           N == Cardinality(ActorsAt("notify"))
<1>1. Q \in Nat /\ L \in Nat /\ N \in Nat /\ IsFiniteSet(queue)
      /\ IsFiniteSet(WorkersAt("looking")) /\ IsFiniteSet(ActorsAt("notify"))
  BY FiniteParts
<1>2. ASSUME queue' = queue, WorkersAt("waiting")' = WorkersAt("waiting"),
             WorkersAt("looking") \subseteq WorkersAt("looking")',
             ActorsAt("notify")' = ActorsAt("notify")
      PROVE  NoStrandedWork'
  <2>1. IsFiniteSet(WorkersAt("looking"))' /\ L' \in Nat
    BY FS_Subset, FS_CardinalityType, ReactorAssumption DEF WorkersAt
  <2>2. L <= L'
    BY <1>2, <2>1, FS_Subset
  <2>3. QED
    BY <1>1, <1>2, <2>1, <2>2 DEF NoStrandedWork
<1>3. ASSUME NEW a \in Actors, NEW t \in Tasks, ClientStep(a, t) PROVE NoStrandedWork'
  <2>1. queue' = queue /\ worker' = worker /\ ActorsAt("notify")' = ActorsAt("notify")
    BY <1>3 DEF ClientStep, Spawn, WakeIdle, WakeRunning, DropHandle, Schedule, MayCall, ActorsAt, TypeOK
  <2>2. QED
    BY <1>2, <2>1 DEF WorkersAt
<1>4. ASSUME NEW a \in Actors, Push(a) PROVE NoStrandedWork'
  <2>1. ActorsAt("notify")' = ActorsAt("notify") \cup {a} /\ a \notin ActorsAt("notify")
    BY <1>4 DEF Push, ActorsAt, TypeOK
  <2>2. N' = N + 1
    BY <1>1, <2>1, FS_AddElement
  <2>3. Q' <= Q + 1 /\ Q' \in Nat
    <3>1. queue' = queue \cup {job[a]}
      BY <1>4 DEF Push
    <3>2. Q' = IF job[a] \in queue THEN Q ELSE Q + 1
      BY <1>1, <3>1, FS_AddElement
    <3>3. QED
      BY <1>1, <3>2
  <2>4. WorkersAt("waiting")' = WorkersAt("waiting") /\ WorkersAt("looking")' = WorkersAt("looking")
    BY <1>4 DEF Push, WorkersAt
  <2>5. QED
    BY <1>1, <2>2, <2>3, <2>4 DEF NoStrandedWork
<1>5. ASSUME NEW a \in Actors, Notify(a) PROVE NoStrandedWork'
  <2>1. CASE WorkersAt("waiting") = {} /\ UNCHANGED worker
    BY <2>1 DEF NoStrandedWork, WorkersAt
  <2>2. ASSUME NEW w \in WorkersAt("waiting"),
               worker' = [worker EXCEPT ![w] = "looking"]
        PROVE  NoStrandedWork'
    <3>1. ActorsAt("notify")' = ActorsAt("notify") \ {a} /\ a \in ActorsAt("notify")
      BY <1>5 DEF Notify, ActorsAt, TypeOK
    <3>2. N' = N - 1
      BY <1>1, <3>1, FS_RemoveElement
    <3>3. WorkersAt("looking")' = WorkersAt("looking") \cup {w} /\ w \notin WorkersAt("looking")
      BY <2>2 DEF WorkersAt, TypeOK
    <3>4. L' = L + 1
      BY <1>1, <3>3, FS_AddElement
    <3>5. queue' = queue
      BY <1>5 DEF Notify
    <3>6. QED
      BY <1>1, <2>2, <3>2, <3>4, <3>5 DEF NoStrandedWork
  <2>3. QED
    BY <1>5, <2>1, <2>2 DEF Notify
<1>6. ASSUME NEW w \in Workers, Pop(w) PROVE NoStrandedWork'
  <2>1. PICK t \in queue : queue' = queue \ {t}
    BY <1>6 DEF Pop
  <2>2. Q' = Q - 1
    BY <1>1, <2>1, FS_RemoveElement
  <2>3. WorkersAt("looking")' = WorkersAt("looking") \ {w} /\ w \in WorkersAt("looking")
    BY <1>6 DEF Pop, WorkersAt, TypeOK
  <2>4. L' = L - 1
    BY <1>1, <2>3, FS_RemoveElement
  <2>5. WorkersAt("waiting")' = WorkersAt("waiting") /\ ActorsAt("notify")' = ActorsAt("notify")
    BY <1>6 DEF Pop, WorkersAt, ActorsAt, TypeOK
  <2>6. QED
    BY <1>1, <2>2, <2>4, <2>5 DEF NoStrandedWork
<1>7. ASSUME NEW w \in Workers, Wait(w) PROVE NoStrandedWork'
  <2>1. queue' = {} /\ Q' = 0
    BY <1>7, FS_EmptySet DEF Wait
  <2>2. L' \in Nat /\ N' \in Nat
    <3>1. ActorsAt("notify")' = ActorsAt("notify")
      BY <1>7 DEF Wait, ActorsAt
    <3>2. IsFiniteSet(WorkersAt("looking")')
      BY FS_Subset DEF WorkersAt
    <3>3. QED
      BY <1>1, <3>1, <3>2, FS_CardinalityType
  <2>3. QED
    BY <2>1, <2>2 DEF NoStrandedWork
<1>8. ASSUME NEW w \in Workers, SpuriousWakeup(w) PROVE NoStrandedWork'
  <2>1. WorkersAt("looking")' = WorkersAt("looking") \cup {w} /\ w \in WorkersAt("waiting")
        /\ w \notin WorkersAt("looking")
    BY <1>8 DEF SpuriousWakeup, WorkersAt, TypeOK
  <2>2. L' = L + 1
    BY <1>1, <2>1, FS_AddElement
  <2>3. queue' = queue /\ ActorsAt("notify")' = ActorsAt("notify")
    BY <1>8 DEF SpuriousWakeup, ActorsAt
  <2>4. QED
    BY <1>1, <2>1, <2>2, <2>3 DEF NoStrandedWork
<1>9. ASSUME NEW w \in Workers,
             Start(w) \/ BeginPoll(w) \/ FreeClosed(w) \/ PollReady(w) \/ PollPending(w)
      PROVE  NoStrandedWork'
  <2>1. queue' = queue /\ ActorsAt("notify")' = ActorsAt("notify")
    BY <1>9 DEF Start, BeginPoll, FreeClosed, PollReady, PollPending, Schedule, Release, ActorsAt, Actors, TypeOK
  <2>2. WorkersAt("waiting")' = WorkersAt("waiting")
        /\ WorkersAt("looking") \subseteq WorkersAt("looking")'
    BY <1>9 DEF Start, BeginPoll, FreeClosed, PollReady, PollPending, Release, WorkersAt, TypeOK
  <2>3. QED
    BY <1>2, <2>1, <2>2
<1>10. CASE UNCHANGED vars
  BY <1>2, <1>10 DEF vars, WorkersAt, ActorsAt
<1>11. QED
  BY <1>3, <1>4, <1>5, <1>6, <1>7, <1>8, <1>9, <1>10 DEF Next, ScheduleStep, WorkerStep

(* Every state of the reactor satisfies IInv.                              *)
THEOREM Invariance == SafeSpec => []IInv
<1>1. IInv /\ [Next]_vars => IInv'
  BY TypeStep, OneHolderStep, StrandedStep DEF IInv
<1>2. QED
  BY InitIInv, <1>1, PTL DEF SafeSpec

(* The queue, the worker table and the tasks' state words keep their types. *)
THEOREM ReactorTypeCorrect == SafeSpec => []TypeOK
<1>1. IInv => TypeOK
  BY DEF IInv
<1>2. QED
  BY Invariance, <1>1, PTL

(* No wake-up is ever lost between the heap and the condition variable:    *)
(* however many workers sleep, every queued runnable has somebody coming   *)
(* for it.                                                                 *)
THEOREM NoLostWakeup == SafeSpec => []NoStrandedWork
<1>1. IInv => NoStrandedWork
  BY DEF IInv
<1>2. QED
  BY Invariance, <1>1, PTL

(* No future is polled by two threads at once, queued twice, or forgotten. *)
THEOREM ExactlyOneHolder == SafeSpec => []OneHolder
<1>1. IInv => OneHolder
  BY DEF IInv
<1>2. QED
  BY Invariance, <1>1, PTL

(* The heap respects the keys: a runnable never leaves it ahead of one     *)
(* with a smaller key.                                                     *)
NoOvertaking ==
    [][\A t \in queue \ queue', u \in queue \cap queue' : Key[t] <= Key[u]]_vars

LEMMA HeapOrder == SafeSpec => NoOvertaking
<1>1. TypeOK /\ [Next]_vars
        => [\A t \in queue \ queue', u \in queue \cap queue' : Key[t] <= Key[u]]_vars
  <2> SUFFICES ASSUME TypeOK, [Next]_vars, NEW t \in queue \ queue', NEW u \in queue \cap queue'
               PROVE  Key[t] <= Key[u]
    OBVIOUS
  <2>1. PICK w \in Workers : Pop(w)
    BY DEF Next, ClientStep, ScheduleStep, WorkerStep, vars, Spawn, WakeIdle, WakeRunning,
           DropHandle, Push, Notify, Start, Wait, SpuriousWakeup, BeginPoll, FreeClosed,
           PollReady, PollPending
  <2>2. QED
    BY <2>1 DEF Pop
<1>2. QED
  BY <1>1, ReactorTypeCorrect, PTL DEF SafeSpec, NoOvertaking

-----------------------------------------------------------------------------
(* While a worker that has popped a task is not polling, fewer tasks are   *)
(* polled than there are workers: each polled task has a poller, and no    *)
(* two have the same one.                                                  *)
LEMMA RoomForOneMore ==
    ASSUME IInv, NEW w \in Workers, worker[w] = "popped"
    PROVE  Cardinality({t \in Tasks : state[t] \in {"running", "woken"}}) < Cardinality(Workers)
<1> DEFINE P == {t \in Tasks : state[t] \in {"running", "woken"}}
           others == Workers \ {w}
           poller == [t \in P |-> CHOOSE v \in Workers : worker[v] = "polling" /\ current[v] = t]
<1>1. ASSUME NEW t \in P
      PROVE  poller[t] \in others /\ current[poller[t]] = t
  <2>1. \E v \in Workers : worker[v] = "polling" /\ current[v] = t
    BY DEF IInv, OneHolder, PollersOf
  <2>2. poller[t] \in Workers /\ worker[poller[t]] = "polling" /\ current[poller[t]] = t
    BY <2>1
  <2>3. QED
    BY <2>2
<1>2. poller \in Injection(P, others)
  <2>1. poller \in [P -> others]
    BY <1>1
  <2>2. \A s, t \in P : poller[s] = poller[t] => s = t
    <3> HIDE DEF poller, P
    <3>1. QED
      BY <1>1
  <2>3. QED
    BY <2>1, <2>2 DEF Injection, IsInjective
<1>3. IsFiniteSet(others) /\ Cardinality(others) = Cardinality(Workers) - 1
  BY FS_RemoveElement, ReactorAssumption
<1>4. Cardinality(P) <= Cardinality(others)
  BY <1>2, <1>3, FS_Injection
<1>5. IsFiniteSet(P)
  BY FS_Subset, ReactorAssumption
<1>6. Cardinality(P) \in Nat /\ Cardinality(Workers) \in Nat
  BY <1>5, FS_CardinalityType, ReactorAssumption
<1>7. QED
  BY <1>3, <1>4, <1>6

(* The mapping sends each state word to a phase of the pool.               *)
LEMMA PhaseOfState ==
    ASSUME NEW t \in Tasks
    PROVE  PhaseOf[t] = CASE state[t] = "scheduled" -> "ready"
                          [] state[t] = "running"   -> "polled"
                          [] state[t] = "woken"     -> "polledAgain"
                          [] OTHER                  -> state[t]
BY DEF PhaseOf

(* A step that leaves the state words alone is a stutter of the pool, and  *)
(* one that moves a single task moves that task in the pool.               *)
LEMMA OneTaskMoves ==
    ASSUME TypeOK, NEW t \in Tasks, NEW s \in TaskStates,
           state' = [state EXCEPT ![t] = s]
    PROVE  PhaseOf' = [PhaseOf EXCEPT ![t] =
                          CASE s = "scheduled" -> "ready"
                            [] s = "running"   -> "polled"
                            [] s = "woken"     -> "polledAgain"
                            [] OTHER           -> s]
BY DEF PhaseOf, TypeOK, TaskStates

LEMMA StateUnchanged ==
    ASSUME UNCHANGED state
    PROVE  UNCHANGED PhaseOf
BY DEF PhaseOf

(* TaskPool counts as this module does.                                    *)
LEMMA SameCardinality ==
    ASSUME NEW S
    PROVE  Pool!Cardinality(S) = Cardinality(S)
BY DEF Cardinality, Pool!Cardinality

LEMMA PoolStep ==
    ASSUME IInv, [Next]_vars
    PROVE  [Pool!PoolNext]_PhaseOf
<1> USE DEF TaskStates
<1>0. TypeOK /\ HandsFull /\ OneHolder
  BY DEF IInv
<1>1. ASSUME NEW a \in Actors, NEW t \in Tasks, Schedule(a, t), state[t] \in {"new", "idle"}
      PROVE  Pool!MakeReady(t)
  BY <1>0, <1>1, PhaseOfState, OneTaskMoves DEF Schedule, Pool!MakeReady, Pool!Goto
<1>2. ASSUME NEW a \in Actors, NEW t \in Tasks, WakeRunning(a, t)
      PROVE  Pool!Remember(t)
  BY <1>0, <1>2, PhaseOfState, OneTaskMoves DEF WakeRunning, Pool!Remember, Pool!Goto
<1>3. ASSUME NEW a \in Actors, NEW t \in Tasks, ClientStep(a, t)
      PROVE  [Pool!PoolNext]_PhaseOf
  <2>1. CASE state' = state
    BY <2>1, StateUnchanged
  <2>2. CASE WakeRunning(a, t)
    BY <2>2, <1>2 DEF Pool!PoolNext
  <2>3. CASE Schedule(a, t) /\ state[t] \in {"new", "idle"}
    BY <2>3, <1>1 DEF Pool!PoolNext
  <2>4. QED
    BY <1>3, <2>1, <2>2, <2>3 DEF ClientStep, Spawn, WakeIdle, DropHandle
<1>4. ASSUME NEW w \in Workers, BeginPoll(w)
      PROVE  \E t \in Tasks : Pool!Begin(t)
  <2>1. current[w] \in Tasks /\ state[current[w]] = "scheduled"
    BY <1>0, <1>4 DEF BeginPoll, HandsFull, OneHolder, RunnableHolders
  <2>2. PhaseOf[current[w]] = "ready"
    BY <2>1, PhaseOfState
  <2>3. PhaseOf' = [PhaseOf EXCEPT ![current[w]] = "polled"]
    BY <1>0, <1>4, <2>1, OneTaskMoves DEF BeginPoll
  <2>4. Pool!Polled = {t \in Tasks : state[t] \in {"running", "woken"}}
    BY <1>0, PhaseOfState DEF Pool!Polled, TypeOK
  <2>5. Cardinality(Pool!Polled) < Cardinality(Workers)
    BY <1>4, <2>4, RoomForOneMore DEF BeginPoll
  <2>6. QED
    BY <2>1, <2>2, <2>3, <2>5, SameCardinality DEF Pool!Begin, Pool!Goto
<1>5. ASSUME NEW w \in Workers, FreeClosed(w)
      PROVE  \E t \in Tasks : Pool!Free(t)
  <2>1. current[w] \in Tasks /\ state[current[w]] = "scheduled"
    BY <1>0, <1>5 DEF FreeClosed, HandsFull, OneHolder, RunnableHolders
  <2>2. QED
    BY <1>0, <1>5, <2>1, PhaseOfState, OneTaskMoves DEF FreeClosed, Pool!Free, Pool!Goto
<1>6. ASSUME NEW w \in Workers, PollReady(w) \/ PollPending(w)
      PROVE  \E t \in Tasks : Pool!End(t)
  <2>1. current[w] \in Tasks /\ state[current[w]] \in {"running", "woken"}
    BY <1>0, <1>6 DEF PollReady, PollPending, HandsFull, OneHolder, PollersOf
  <2>2. PhaseOf[current[w]] = IF state[current[w]] = "running" THEN "polled" ELSE "polledAgain"
    BY <2>1, PhaseOfState
  <2>3. \/ state' = [state EXCEPT ![current[w]] = "done"]
        \/ state' = [state EXCEPT ![current[w]] = "idle"] /\ state[current[w]] = "running"
        \/ state' = [state EXCEPT ![current[w]] = "scheduled"] /\ state[current[w]] = "woken"
    BY <1>6 DEF PollReady, PollPending, Schedule
  <2>4. Pool!End(current[w])
    BY <1>0, <2>1, <2>2, <2>3, OneTaskMoves DEF Pool!End, Pool!Goto
  <2>5. QED
    BY <2>1, <2>4
<1>7. CASE UNCHANGED state
  BY <1>7, StateUnchanged
<1>8. QED
  BY <1>3, <1>4, <1>5, <1>6, <1>7
  DEF Next, vars, ScheduleStep, WorkerStep, Push, Notify, Start, Pop, Wait, SpuriousWakeup,
      Pool!PoolNext, Pool!Serve

(* The reactor is the pool of threads that ProcessingContext::spawn relies *)
(* on: every step of it is a step of TaskPool or changes nothing there.    *)
THEOREM ReactorImplementsPool == SafeSpec => Pool!PoolSafeSpec
<1>1. Init => Pool!PoolInit
  BY DEF Init, Pool!PoolInit, PhaseOf
<1>2. QED
  BY <1>1, PoolStep, Invariance, PTL DEF SafeSpec, Pool!PoolSafeSpec

-----------------------------------------------------------------------------
(* Priority::new keeps the order of its two parts, as long as frame        *)
(* numbers stay below the shift.                                           *)
LEMMA NewKeepsOrder ==
    ASSUME NEW v \in Nat \X (0..(FrameSpan - 1)),
           NEW w \in Nat \X (0..(FrameSpan - 1)),
           Before(v, w)
    PROVE  New(v[1], v[2]) < New(w[1], w[2])
<1> USE KeyAssumption
<1> DEFINE o == v[1]  p == w[1]  f == v[2]  g == w[2]
<1>1. o \in Nat /\ p \in Nat /\ f \in 0..(FrameSpan - 1) /\ g \in 0..(FrameSpan - 1)
  OBVIOUS
<1>2. CASE o < p
  <2>1. PICK d \in Nat : p = o + 1 + d
    <3>1. p - (o + 1) \in Nat
      BY <1>1, <1>2
    <3> QED  BY <3>1, <1>1
  <2>2. p * FrameSpan = o * FrameSpan + FrameSpan + d * FrameSpan
    BY <2>1, <1>1
  <2>3. d * FrameSpan \in Nat /\ o * FrameSpan \in Nat
    BY <1>1
  <2>4. o * FrameSpan + f < p * FrameSpan + g
    BY <1>1, <2>2, <2>3
  <2> QED  BY <2>4 DEF New
<1>3. CASE o = p /\ f < g
  <2>1. o * FrameSpan \in Nat
    BY <1>1
  <2> QED  BY <1>1, <1>3, <2>1 DEF New
<1> QED  BY <1>2, <1>3 DEF Before

(* OutputThenFrame: the reactor never serves a request while the heap      *)
(* holds one of an output of smaller priority, or an older frame of the    *)
(* same output.                                                            *)
THEOREM OutputsAndFramesInOrder == SafeSpec => OutputThenFrame
<1>1. [\A t \in queue \ queue', u \in queue \cap queue' : Key[t] <= Key[u]]_vars /\ TypeOK
        => [\A t \in queue \ queue', u \in queue \cap queue' :
                ~Before(Wanted[u], Wanted[t])]_vars
  <2> SUFFICES ASSUME TypeOK,
                      \A t \in queue \ queue', u \in queue \cap queue' : Key[t] <= Key[u],
                      NEW t \in queue \ queue', NEW u \in queue \cap queue',
                      Before(Wanted[u], Wanted[t])
               PROVE  FALSE
    OBVIOUS
  <2>1. t \in Tasks /\ u \in Tasks
    BY DEF TypeOK
  <2>2. Wanted[t] \in Nat \X (0..(FrameSpan - 1)) /\ Wanted[u] \in Nat \X (0..(FrameSpan - 1))
    BY <2>1, WantedAssumption
  <2>3. New(Wanted[u][1], Wanted[u][2]) < New(Wanted[t][1], Wanted[t][2])
    BY <2>2, NewKeepsOrder
  <2>4. Key[u] < Key[t]
    BY <2>1, <2>3, WantedAssumption
  <2>5. Key[t] \in Nat /\ Key[u] \in Nat /\ Key[t] <= Key[u]
    BY <2>1, ReactorAssumption
  <2> QED  BY <2>4, <2>5
<1> QED  BY <1>1, HeapOrder, ReactorTypeCorrect, PTL DEF OutputThenFrame, NoOvertaking
=============================================================================
