------------------------------ MODULE TaskPool ------------------------------
(***************************************************************************)
(* What the rest of axiom-recorder relies on when it calls                 *)
(* ProcessingContext::spawn: a pool of at most `Threads` threads that      *)
(* polls every task it was told about, one thread per task at a time, and  *)
(* does not lose a wake-up.  Nothing here says how: there is no queue, no  *)
(* lock and no condition variable.  PrioritizedReactor implements it.      *)
(***************************************************************************)
EXTENDS Naturals, FiniteSets

CONSTANTS Tasks,     \* the futures that may be handed to the pool
          Threads    \* the most tasks that are polled at one time

VARIABLE phase       \* phase[t]: where task t is in its life

Phases == {"new", "idle", "ready", "polled", "polledAgain", "done"}

PoolTypeOK == phase \in [Tasks -> Phases]

Polled == {t \in Tasks : phase[t] \in {"polled", "polledAgain"}}

PoolInit == phase = [t \in Tasks |-> "new"]

Goto(t, p) == phase' = [phase EXCEPT ![t] = p]

(* A task becomes ready when it is spawned, woken, or dropped by its owner *)
(* (a dropped task is visited once more so that its future is freed).      *)
MakeReady(t) ==
    /\ phase[t] \in {"new", "idle"}
    /\ Goto(t, "ready")

(* A wake-up that arrives while the task is being polled is remembered.    *)
Remember(t) ==
    /\ phase[t] = "polled"
    /\ Goto(t, "polledAgain")

Begin(t) ==
    /\ phase[t] = "ready"
    /\ Cardinality(Polled) < Threads
    /\ Goto(t, "polled")

(* A ready task whose owner dropped it is freed without being polled.      *)
Free(t) ==
    /\ phase[t] = "ready"
    /\ Goto(t, "done")

(* A poll ends: the task is finished, waits for a wake-up, or - when a     *)
(* wake-up came in the meantime - is ready again.                          *)
End(t) ==
    \/ phase[t] \in {"polled", "polledAgain"} /\ Goto(t, "done")
    \/ phase[t] = "polled" /\ Goto(t, "idle")
    \/ phase[t] = "polledAgain" /\ Goto(t, "ready")

Serve(t) == Begin(t) \/ Free(t)

PoolNext ==
    \E t \in Tasks : MakeReady(t) \/ Remember(t) \/ Serve(t) \/ End(t)

PoolSafeSpec == PoolInit /\ [][PoolNext]_phase

(* The pool is work-conserving: while a task is ready and a thread is      *)
(* free, some ready task is taken up in the end.                           *)
PoolSpec ==
    /\ PoolSafeSpec
    /\ WF_phase(\E t \in Tasks : Serve(t))
    /\ WF_phase(\E t \in Tasks : End(t))
=============================================================================
