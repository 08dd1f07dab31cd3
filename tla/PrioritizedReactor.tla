------------------------- MODULE PrioritizedReactor -------------------------
(***************************************************************************)
(* The executor of axiom-recorder (pipeline_processing/                    *)
(* prioritized_executor.rs): a binary heap of runnables behind a mutex, a  *)
(* condition variable, and num_threads worker threads that pop the         *)
(* runnable with the smallest key and poll it outside the lock.            *)
(*                                                                         *)
(* Runnables come from the async_task crate (not under src/), modelled     *)
(* from how the code uses it: per task it keeps a state word whose         *)
(* scheduled / running / closed bits make sure that at most one Runnable   *)
(* of a task exists, and it calls the `schedule` closure whenever the      *)
(* scheduled bit goes up on a task that is not running.  That closure      *)
(* (lines 65-72) locks, pushes, unlocks and only then notifies, on         *)
(* whichever thread spawned, woke or dropped the task.                     *)
(*                                                                         *)
(* Each critical section of the queue's mutex is one step: nothing but     *)
(* the queue is touched inside it.                                         *)
(***************************************************************************)
EXTENDS Naturals, FiniteSets

CONSTANTS
    Workers,     \* the num_threads worker threads
    Clients,     \* threads outside the pool: main, pull_ordered's thread, ...
    Tasks,       \* the futures handed to spawn_with_priority
    Key,         \* Key[t]: the priority t is spawned with; smaller runs first
    NoTask,      \* stands for "no task"
    MaxPolls     \* bound: polls of one task that return Pending

Actors == Workers \cup Clients

ASSUME ReactorAssumption ==
    /\ IsFiniteSet(Workers) /\ IsFiniteSet(Clients) /\ IsFiniteSet(Tasks)
    /\ Workers \cap Clients = {}
    /\ NoTask \notin Tasks
    /\ Key \in [Tasks -> Nat]
    /\ MaxPolls \in Nat

VARIABLES
    queue,       \* the tasks whose Runnable is in the BinaryHeap
    worker,      \* worker[w]: where the thread is in its loop
    current,     \* current[w]: the task whose Runnable w has popped
    call,        \* call[a]: how far a is in the schedule closure
    job,         \* job[a]: the task a is about to push
    state,       \* state[t]: async_task's state word, without the closed bit
    closed,      \* closed[t]: the owner dropped the Task handle
    polls        \* polls[t]: how many polls of t returned Pending

vars == <<queue, worker, current, call, job, state, closed, polls>>

WorkerStates == {"unstarted", "looking", "waiting", "popped", "polling"}
TaskStates == {"new", "idle", "scheduled", "running", "woken", "done"}

TypeOK ==
    /\ queue \subseteq Tasks
    /\ worker \in [Workers -> WorkerStates]
    /\ current \in [Workers -> Tasks \cup {NoTask}]
    /\ call \in [Actors -> {"none", "push", "notify"}]
    /\ job \in [Actors -> Tasks \cup {NoTask}]
    /\ state \in [Tasks -> TaskStates]
    /\ closed \in [Tasks -> BOOLEAN]
    /\ polls \in [Tasks -> 0..MaxPolls]

WorkersAt(s) == {w \in Workers : worker[w] = s}
ActorsAt(c) == {a \in Actors : call[a] = c}

-----------------------------------------------------------------------------
(* PrioritizedReactor::new: an empty heap, no thread started yet.          *)
Init ==
    /\ queue = {}
    /\ worker = [w \in Workers |-> "unstarted"]
    /\ current = [w \in Workers |-> NoTask]
    /\ call = [a \in Actors |-> "none"]
    /\ job = [a \in Actors |-> NoTask]
    /\ state = [t \in Tasks |-> "new"]
    /\ closed = [t \in Tasks |-> FALSE]
    /\ polls = [t \in Tasks |-> 0]

(* start_inner: thread::spawn of one worker.                               *)
Start(w) ==
    /\ worker[w] = "unstarted"
    /\ worker' = [worker EXCEPT ![w] = "looking"]
    /\ UNCHANGED <<queue, current, call, job, state, closed, polls>>

(* Code runs on a client thread, or on a worker inside a poll.             *)
MayCall(a) ==
    /\ call[a] = "none"
    /\ a \in Workers => worker[a] = "polling"

(* The scheduled bit of t goes up and a enters the schedule closure.       *)
Schedule(a, t) ==
    /\ state' = [state EXCEPT ![t] = "scheduled"]
    /\ call' = [call EXCEPT ![a] = "push"]
    /\ job' = [job EXCEPT ![a] = t]

(* spawn_with_priority: async_task::spawn and runnable.schedule().         *)
Spawn(a, t) ==
    /\ MayCall(a)
    /\ state[t] = "new"
    /\ Schedule(a, t)
    /\ UNCHANGED <<queue, worker, current, closed, polls>>

(* Waker::wake of a task that waits: its Runnable is scheduled again.      *)
WakeIdle(a, t) ==
    /\ MayCall(a)
    /\ state[t] = "idle"
    /\ Schedule(a, t)
    /\ UNCHANGED <<queue, worker, current, closed, polls>>

(* Waker::wake of a task that is being polled (by another worker, or a     *)
(* future waking itself): only the scheduled bit is set.  In every other   *)
(* state wake does nothing.                                                *)
WakeRunning(a, t) ==
    /\ MayCall(a)
    /\ state[t] = "running"
    /\ ~closed[t]
    /\ state' = [state EXCEPT ![t] = "woken"]
    /\ UNCHANGED <<queue, worker, current, call, job, closed, polls>>

(* The owner drops the Task handle (a puller that stops early drops its    *)
(* FuturesOrdered / FuturesUnordered): the task is closed, and a waiting   *)
(* one is scheduled once more so that a worker frees its future.           *)
DropHandle(a, t) ==
    /\ MayCall(a)
    /\ state[t] \notin {"new", "done"}
    /\ ~closed[t]
    /\ closed' = [closed EXCEPT ![t] = TRUE]
    /\ IF state[t] = "idle"
       THEN Schedule(a, t)
       ELSE UNCHANGED <<state, call, job>>
    /\ UNCHANGED <<queue, worker, current, polls>>

(* The schedule closure, first statement: lock, push, unlock.              *)
Push(a) ==
    /\ call[a] = "push"
    /\ queue' = queue \cup {job[a]}
    /\ call' = [call EXCEPT ![a] = "notify"]
    /\ job' = [job EXCEPT ![a] = NoTask]
    /\ UNCHANGED <<worker, current, state, closed, polls>>

(* Variation: only the push into an empty heap notifies.                   *)
NotifyIfFirst(a) ==
    /\ call[a] = "notify"
    /\ call' = [call EXCEPT ![a] = "none"]
    /\ \/ /\ WorkersAt("waiting") = {} \/ Cardinality(queue) # 1
          /\ UNCHANGED worker
       \/ \E w \in WorkersAt("waiting") :
             /\ Cardinality(queue) = 1
             /\ worker' = [worker EXCEPT ![w] = "looking"]
    /\ UNCHANGED <<queue, current, job, state, closed, polls>>

(* Variation: the closure does not notify.                                 *)
NotifyNobody(a) ==
    /\ call[a] = "notify"
    /\ call' = [call EXCEPT ![a] = "none"]
    /\ UNCHANGED <<queue, worker, current, job, state, closed, polls>>

(* The schedule closure, second statement: notify_one wakes any one of the *)
(* threads in cvar.wait, or nobody when there is none.                     *)
Notify(a) ==
    /\ call[a] = "notify"
    /\ call' = [call EXCEPT ![a] = "none"]
    /\ \/ /\ WorkersAt("waiting") = {}
          /\ UNCHANGED worker
       \/ \E w \in WorkersAt("waiting") :
             worker' = [worker EXCEPT ![w] = "looking"]
    /\ UNCHANGED <<queue, current, job, state, closed, polls>>

(* Variation: the worker peeks and leaves the runnable in the heap.        *)
Peek(w) ==
    /\ worker[w] = "looking"
    /\ call[w] = "none"
    /\ \E t \in queue :
        /\ \A u \in queue : Key[t] <= Key[u]
        /\ current' = [current EXCEPT ![w] = t]
    /\ worker' = [worker EXCEPT ![w] = "popped"]
    /\ UNCHANGED <<queue, call, job, state, closed, polls>>

(* queue.lock(), queue.pop() = Some(v): the heap holds Reverse(key), so v  *)
(* is a runnable of the smallest key, any one of them if several tie.      *)
Pop(w) ==
    /\ worker[w] = "looking"
    /\ call[w] = "none"
    /\ \E t \in queue :
        /\ \A u \in queue : Key[t] <= Key[u]
        /\ queue' = queue \ {t}
        /\ current' = [current EXCEPT ![w] = t]
    /\ worker' = [worker EXCEPT ![w] = "popped"]
    /\ UNCHANGED <<call, job, state, closed, polls>>

(* queue.lock(), queue.pop() = None: cvar.wait releases the lock and       *)
(* blocks in one step.                                                     *)
Wait(w) ==
    /\ worker[w] = "looking"
    /\ call[w] = "none"
    /\ queue = {}
    /\ worker' = [worker EXCEPT ![w] = "waiting"]
    /\ UNCHANGED <<queue, current, call, job, state, closed, polls>>

(* A Condvar may wake without a notification; the inner loop looks again.  *)
SpuriousWakeup(w) ==
    /\ worker[w] = "waiting"
    /\ worker' = [worker EXCEPT ![w] = "looking"]
    /\ UNCHANGED <<queue, current, call, job, state, closed, polls>>

(* Runnable::run of a task that is not closed starts polling its future.   *)
BeginPoll(w) ==
    /\ worker[w] = "popped"
    /\ ~closed[current[w]]
    /\ state' = [state EXCEPT ![current[w]] = "running"]
    /\ worker' = [worker EXCEPT ![w] = "polling"]
    /\ UNCHANGED <<queue, current, call, job, closed, polls>>

(* The worker is done with the task it popped and goes back to the queue.  *)
Release(w) ==
    /\ worker' = [worker EXCEPT ![w] = "looking"]
    /\ current' = [current EXCEPT ![w] = NoTask]

(* Runnable::run of a closed task only drops the future.                   *)
FreeClosed(w) ==
    /\ worker[w] = "popped"
    /\ closed[current[w]]
    /\ state' = [state EXCEPT ![current[w]] = "done"]
    /\ Release(w)
    /\ UNCHANGED <<queue, call, job, closed, polls>>

(* The poll returns Ready.                                                 *)
PollReady(w) ==
    /\ worker[w] = "polling"
    /\ call[w] = "none"
    /\ state' = [state EXCEPT ![current[w]] = "done"]
    /\ Release(w)
    /\ UNCHANGED <<queue, call, job, closed, polls>>

(* The poll returns Pending: a closed task is freed, a task woken in the   *)
(* meantime is scheduled again by this worker, any other one waits.        *)
PollPending(w) ==
    LET t == current[w] IN
    /\ worker[w] = "polling"
    /\ call[w] = "none"
    /\ polls[t] < MaxPolls
    /\ polls' = [polls EXCEPT ![t] = @ + 1]
    /\ \/ /\ closed[t]
          /\ state' = [state EXCEPT ![t] = "done"]
          /\ UNCHANGED <<call, job>>
       \/ /\ ~closed[t] /\ state[t] = "woken"
          /\ Schedule(w, t)
       \/ /\ ~closed[t] /\ state[t] = "running"
          /\ state' = [state EXCEPT ![t] = "idle"]
          /\ UNCHANGED <<call, job>>
    /\ Release(w)
    /\ UNCHANGED <<queue, closed>>

-----------------------------------------------------------------------------
ClientStep(a, t) ==
    Spawn(a, t) \/ WakeIdle(a, t) \/ WakeRunning(a, t) \/ DropHandle(a, t)

ScheduleStep(a) == Push(a) \/ Notify(a)

(* What a worker thread does by itself, whatever the tasks are.            *)
WorkerStep(w) ==
    \/ Start(w) \/ Pop(w) \/ Wait(w)
    \/ BeginPoll(w) \/ FreeClosed(w) \/ PollReady(w) \/ PollPending(w)

Next ==
    \/ \E a \in Actors, t \in Tasks : ClientStep(a, t)
    \/ \E a \in Actors : ScheduleStep(a)
    \/ \E w \in Workers : WorkerStep(w) \/ SpuriousWakeup(w)

(* Threads are scheduled by the operating system, so a thread that can     *)
(* continue does; that includes polls, which return in the end (a poll     *)
(* that blocks its thread is the subject of the Cache model).  Nothing     *)
(* forces anybody to spawn, wake or drop, or a thread to wake spuriously.  *)
Fairness ==
    /\ \A w \in Workers : WF_vars(WorkerStep(w))
    /\ \A a \in Actors : WF_vars(ScheduleStep(a))

SafeSpec == Init /\ [][Next]_vars
Spec == SafeSpec /\ Fairness

-----------------------------------------------------------------------------
(* No lost wake-up.  As soon as some worker sleeps in cvar.wait, every     *)
(* runnable in the heap has a thread of its own coming for it: a worker    *)
(* that is about to look, or a notification not yet delivered.  It is what *)
(* makes notify_one after the unlock (line 71) and the wait under the lock *)
(* (line 43) enough: work never sits in the heap behind a sleeping pool.   *)
NoStrandedWork ==
    WorkersAt("waiting") # {} =>
        Cardinality(queue)
            <= Cardinality(WorkersAt("looking")) + Cardinality(ActorsAt("notify"))

(* The threads that have the Runnable of t in their hands: about to push   *)
(* it, or popped and not polled yet.  And the workers that poll t.         *)
RunnableHolders(t) ==
    {a \in Actors : call[a] = "push" /\ job[a] = t}
        \cup {w \in Workers : worker[w] = "popped" /\ current[w] = t}
PollersOf(t) == {w \in Workers : worker[w] = "polling" /\ current[w] = t}

AtMostOne(S) == \A x, y \in S : x = y

(* A scheduled task has exactly one Runnable, in exactly one place: the    *)
(* heap or one thread's hands; a task being polled is polled by exactly    *)
(* one worker and has no Runnable; any other task has neither.  Were it    *)
(* otherwise a future would be polled by two threads or be forgotten.      *)
OneHolder ==
    \A t \in Tasks :
        /\ state[t] = "scheduled" <=> (t \in queue \/ RunnableHolders(t) # {})
        /\ t \in queue => RunnableHolders(t) = {}
        /\ AtMostOne(RunnableHolders(t))
        /\ state[t] \in {"running", "woken"} <=> PollersOf(t) # {}
        /\ AtMostOne(PollersOf(t))

(* Threads inside the schedule closure, or between pop and release, hold a *)
(* task; and a worker that has just popped is in no schedule closure.      *)
HandsFull ==
    /\ \A a \in Actors : call[a] = "push" => job[a] \in Tasks
    /\ \A w \in Workers : worker[w] \in {"popped", "polling"} => current[w] \in Tasks
    /\ \A w \in Workers : worker[w] \in {"unstarted", "waiting", "popped"} => call[w] = "none"

(* The inductive invariant behind the safety properties.                   *)
IInv == TypeOK /\ HandsFull /\ OneHolder /\ NoStrandedWork

(* A spawned, woken or dropped task is visited by a worker in the end, and *)
(* a wake-up that arrives during a poll leads to another poll, unless the  *)
(* task finishes.  (Every task is polled a bounded number of times here: a *)
(* future that wakes itself forever starves all of larger keys, as the     *)
(* strict priority order of the heap implies.)                             *)
WakeupsAreServed ==
    \A t \in Tasks :
        state[t] \in {"scheduled", "woken"} ~> state[t] \in {"running", "done"}

(* The pool's view of a task: see TaskPool.                                *)
PhaseOf ==
    [t \in Tasks |->
        CASE state[t] = "scheduled" -> "ready"
          [] state[t] = "running"   -> "polled"
          [] state[t] = "woken"     -> "polledAgain"
          [] OTHER                  -> state[t]]

Pool == INSTANCE TaskPool WITH Threads <- Cardinality(Workers), phase <- PhaseOf
ImplementsTaskPool == Pool!PoolSpec
=============================================================================
