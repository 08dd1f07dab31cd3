---------------------------- MODULE PullUnordered ----------------------------
(***************************************************************************)
(* pull_unordered (puller.rs 22-94): the sink's own future keeps up to     *)
(* num_threads tasks in a FuturesUnordered and awaits any of them.  Each   *)
(* task pulls a frame, hands the payload to the sink's on_payload (which   *)
(* writes a file of its own), raises latest_frame, and tells the progress  *)
(* bar what latest_frame was before; tasks interleave between these.  A    *)
(* task that meets the end of the file raises should_stop, which the loop  *)
(* looks at only after it has spawned another task.                        *)
(***************************************************************************)
EXTENDS PullSource, FiniteSets

CONSTANT MayFailToWrite   \* may on_payload return an error?

VARIABLES
    pc,           \* where the loop is
    next,         \* range.start
    inFlight,     \* futures_unordered
    task,         \* task[f]: how far the spawned task of f is
    answered,     \* the pulls that have returned
    written,      \* the frames on_payload has completed
    shouldStop,   \* should_stop
    latest,       \* latest_frame, the AtomicU64
    seen,         \* seen[f]: what fetch_max returned to the task of f
    shown         \* where the progress bar stands

progress == <<latest, seen, shown>>
vars == <<source, pc, next, inFlight, task, answered, written, shouldStop, progress>>

PcStates == {"top", "push", "check", "returnedOk", "returnedErr"}
TaskStates == {"none", "pulling", "writing", "raising", "showing", "ending",
               "finished", "failed", "dropped"}

TypeOK ==
    /\ access \in Access /\ outcome \in [Frames -> Outcomes]
    /\ pc \in PcStates
    /\ next \in 0..RangeEnd
    /\ inFlight \in SUBSET Frames
    /\ task \in [Frames -> TaskStates]
    /\ answered \in SUBSET Frames
    /\ written \in SUBSET Frames
    /\ shouldStop \in BOOLEAN
    /\ latest \in Frames \cup {0}
    /\ seen \in [Frames -> Frames \cup {0}]
    /\ shown \in Frames \cup {0}

Init ==
    /\ SourceInit
    /\ pc = "top"
    /\ next = 0
    /\ inFlight = {}
    /\ task = [f \in Frames |-> "none"]
    /\ answered = {}
    /\ written = {}
    /\ shouldStop = FALSE
    /\ latest = 0
    /\ seen = [f \in Frames |-> 0]
    /\ shown = 0

RangeIsEmpty == next = RangeEnd
(* Variation: nothing is awaited once the range is empty.                  *)
MustAwaitWhenFull == Cardinality(inFlight) >= NumThreads

MustAwait == RangeIsEmpty \/ Cardinality(inFlight) >= NumThreads
Returned == pc \in {"returnedOk", "returnedErr"}

-----------------------------------------------------------------------------
(* Variation: the tasks still in flight are forgotten.                     *)
FinishWithTasks ==
    /\ pc = "top"
    /\ RangeIsEmpty
    /\ pc' = "returnedOk"
    /\ UNCHANGED <<source, next, inFlight, task, answered, written, shouldStop, progress>>

(* Line 44: nothing left to request and nothing in flight.                 *)
Finish ==
    /\ pc = "top"
    /\ RangeIsEmpty /\ inFlight = {}
    /\ pc' = "returnedOk"
    /\ UNCHANGED <<source, next, inFlight, task, answered, written, shouldStop, progress>>

(* Line 47: fewer tasks in flight than threads and frames left.            *)
SkipAwait ==
    /\ pc = "top"
    /\ ~MustAwait
    /\ pc' = "push"
    /\ UNCHANGED <<source, next, inFlight, task, answered, written, shouldStop, progress>>

(* Variation: the result of the awaited task is ignored.                   *)
AwaitAnyResult ==
    /\ pc = "top"
    /\ MustAwait
    /\ \E f \in inFlight :
        /\ task[f] \in {"finished", "failed"}
        /\ inFlight' = inFlight \ {f}
        /\ pc' = "push"
    /\ UNCHANGED <<source, next, task, answered, written, shouldStop, progress>>

(* Lines 48-49: any task that is over; the error of a failed one is        *)
(* returned, which drops all the others.                                   *)
AwaitAny ==
    /\ pc = "top"
    /\ MustAwait
    /\ \E f \in inFlight :
        \/ /\ task[f] = "finished"
           /\ inFlight' = inFlight \ {f}
           /\ pc' = "push"
        \/ /\ task[f] = "failed"
           /\ inFlight' = {}
           /\ pc' = "returnedErr"
    /\ UNCHANGED <<source, next, task, answered, written, shouldStop, progress>>

(* Lines 52-83: the next frame, if there is one, is spawned.               *)
SpawnNext ==
    /\ pc = "push"
    /\ IF RangeIsEmpty
       THEN /\ pc' = "top"
            /\ UNCHANGED <<next, inFlight, task>>
       ELSE /\ pc' = "check"
            /\ next' = next + 1
            /\ inFlight' = inFlight \cup {next}
            /\ task' = [task EXCEPT ![next] = "pulling"]
    /\ UNCHANGED <<source, answered, written, shouldStop, progress>>

(* Variation: the loop never looks at should_stop.                         *)
CheckNothing ==
    /\ pc = "check"
    /\ pc' = "top"
    /\ UNCHANGED <<source, next, inFlight, task, answered, written, shouldStop, progress>>

(* Lines 85-87: should_stop leaves the loop, dropping what is in flight.   *)
CheckStop ==
    /\ pc = "check"
    /\ IF shouldStop
       THEN /\ pc' = "returnedOk"
            /\ inFlight' = {}
       ELSE /\ pc' = "top"
            /\ UNCHANGED inFlight
    /\ UNCHANGED <<source, next, task, answered, written, shouldStop, progress>>

-----------------------------------------------------------------------------
Goto(f, s) == task' = [task EXCEPT ![f] = s]

(* Variation: any error raises should_stop.                                *)
AnswerStoppingOnError(f) ==
    /\ task[f] = "pulling"
    /\ MayAnswer(f, answered)
    /\ answered' = answered \cup {f}
    /\ Goto(f, IF outcome[f] = "ok" THEN "writing" ELSE "raising")
    /\ shouldStop' = (shouldStop \/ outcome[f] # "ok")
    /\ UNCHANGED <<source, pc, next, inFlight, written, progress>>

(* Variation: latest_frame is raised as soon as the pull has returned.     *)
AnswerAndRaise(f) ==
    /\ task[f] = "pulling"
    /\ MayAnswer(f, answered)
    /\ answered' = answered \cup {f}
    /\ Goto(f, IF outcome[f] = "ok" THEN "writing" ELSE "raising")
    /\ shouldStop' = (shouldStop \/ outcome[f] = "eof")
    /\ latest' = IF f > latest THEN f ELSE latest
    /\ UNCHANGED <<source, pc, next, inFlight, written, seen, shown>>

(* Lines 61-76: the pull returns; the end of the file raises should_stop.  *)
Answer(f) ==
    /\ task[f] = "pulling"
    /\ MayAnswer(f, answered)
    /\ answered' = answered \cup {f}
    /\ Goto(f, IF outcome[f] = "ok" THEN "writing" ELSE "raising")
    /\ shouldStop' = (shouldStop \/ outcome[f] = "eof")
    /\ UNCHANGED <<source, pc, next, inFlight, written, progress>>

(* Line 62: on_payload.                                                    *)
Write(f) ==
    /\ task[f] = "writing"
    /\ written' = written \cup {f}
    /\ Goto(f, "raising")
    /\ UNCHANGED <<source, pc, next, inFlight, answered, shouldStop, progress>>

(* Line 62: its error ends the task without a progress report.             *)
FailToWrite(f) ==
    /\ MayFailToWrite
    /\ task[f] = "writing"
    /\ Goto(f, "failed")
    /\ UNCHANGED <<source, pc, next, inFlight, answered, written, shouldStop, progress>>

(* Line 78: fetch_max, which returns the maximum before this frame.        *)
RaiseLatest(f) ==
    /\ task[f] = "raising"
    /\ seen' = [seen EXCEPT ![f] = latest]
    /\ latest' = IF f > latest THEN f ELSE latest
    /\ Goto(f, "showing")
    /\ UNCHANGED <<source, pc, next, inFlight, answered, written, shouldStop, shown>>

(* Line 79: progress_callback sets the position of the progress bar.       *)
ShowProgress(f) ==
    /\ task[f] = "showing"
    /\ shown' = seen[f]
    /\ Goto(f, "ending")
    /\ UNCHANGED <<source, pc, next, inFlight, answered, written, shouldStop, latest, seen>>

(* Line 81: the task's result is there for the loop.                       *)
EndTask(f) ==
    /\ task[f] = "ending"
    /\ Goto(f, "finished")
    /\ UNCHANGED <<source, pc, next, inFlight, answered, written, shouldStop, progress>>

(* A task whose handle was dropped is freed where it waits: at the pull,   *)
(* its only await.  One that is past it runs to its end.                   *)
FreeDropped(f) ==
    /\ Returned
    /\ task[f] = "pulling"
    /\ Goto(f, "dropped")
    /\ UNCHANGED <<source, pc, next, inFlight, answered, written, shouldStop, progress>>

-----------------------------------------------------------------------------
LoopStep == Finish \/ SkipAwait \/ AwaitAny \/ SpawnNext \/ CheckStop
TaskStep(f) ==
    \/ Answer(f) \/ Write(f) \/ FailToWrite(f)
    \/ RaiseLatest(f) \/ ShowProgress(f) \/ EndTask(f) \/ FreeDropped(f)

Next == LoopStep \/ \E f \in Frames : TaskStep(f)

(* The loop runs in block_on on the main thread, the tasks on the reactor  *)
(* (see TaskPool; the node is assumed to answer what it can).              *)
Fairness ==
    /\ WF_vars(LoopStep)
    /\ \A f \in Frames : WF_vars(TaskStep(f))

SafeSpec == Init /\ [][Next]_vars
Spec == SafeSpec /\ Fairness

-----------------------------------------------------------------------------
(* The frames that can be written at all: pulled before any end of file.   *)
Writable ==
    {f \in Frames : outcome[f] = "ok" /\ \A g \in 0..f : outcome[g] # "eof"}

(* When the puller says it is done although no file ended, every frame the *)
(* node could deliver has been written, whatever order the tasks took and  *)
(* whichever pulls failed.                                                 *)
NothingForgotten ==
    pc = "returnedOk" /\ ~shouldStop => Writable \subseteq written

(* When it stops at the end of a file it leaves behind what is in flight:  *)
(* frames that were pulled but whose files are not complete, and that are  *)
(* lost when the process exits.  They are fewer than num_threads, and with *)
(* one thread there is none.                                               *)
BoundedLoss ==
    pc = "returnedOk" => Cardinality(Writable \ written) < NumThreads

(* However the tasks' updates race, and although the bar may go back: it   *)
(* only ever stands at a frame that needs nothing any more, one whose file *)
(* is complete or that could not be pulled, and never at one whose write   *)
(* failed.                                                                 *)
Handled == {f \in answered : outcome[f] = "ok" => f \in written}
ProgressIsEarned == shown \in Handled \cup {0}

(* When the puller says it is done although no file ended, no write has    *)
(* failed: the error of one task is not lost among the others.  (At the    *)
(* end of a file it may be: the tasks in flight are dropped unawaited.)    *)
FailureIsReported ==
    pc = "returnedOk" /\ ~shouldStop => \A f \in Frames : task[f] # "failed"

(* An end of file ends the puller: "end of file, exiting" (line 67).  It   *)
(* does when the range goes on for long enough; when it ends within        *)
(* num_threads frames of the end of the file, the loop spawns no further   *)
(* task, never looks at should_stop, and awaits a pull that never returns. *)
StopsAtEof == shouldStop ~> Returned

(* Without an end of file the puller always gets to its end.               *)
Terminates == (\A f \in Frames : outcome[f] # "eof") ~> Returned
-----------------------------------------------------------------------------
(* Why the safety properties hold.  Tasks exist for the requested frames;  *)
(* while the loop runs, those it no longer waits for have finished.        *)
RequestedHaveTasks == \A f \in Frames : task[f] = "none" <=> f >= next
AwaitedOrFinished ==
    /\ inFlight \subseteq 0..(next - 1)
    /\ ~Returned => \A f \in Frames : f < next => f \in inFlight \/ task[f] = "finished"

(* What a task has behind it at each place.                                *)
WrittenByThen ==
    \A f \in Frames :
        /\ task[f] \in {"writing", "failed"} => outcome[f] = "ok" /\ f \in answered
        /\ task[f] \in {"raising", "showing", "ending", "finished"} => f \in Handled

(* should_stop is raised by the end of a file that was asked for.          *)
StopHasReason == shouldStop => \E f \in Frames : f < next /\ outcome[f] = "eof"

(* How full futures_unordered is at each place of the loop.                *)
WindowIsKept ==
    /\ pc \in {"top", "check"} => Cardinality(inFlight) <= NumThreads
    /\ pc = "push" => RangeIsEmpty \/ Cardinality(inFlight) < NumThreads
    /\ pc = "push" => Cardinality(inFlight) <= NumThreads
    /\ pc = "check" => next - 1 \in inFlight

(* Without an end of file the loop returns Ok only when all have finished. *)
AllHaveFinished ==
    pc = "returnedOk" /\ ~shouldStop => \A f \in Frames : task[f] = "finished"

(* So is every frame on its way to the bar.                                *)
LatestIsEarned ==
    /\ latest \in Handled \cup {0}
    /\ \A f \in Frames : seen[f] \in Handled \cup {0}

IInv ==
    /\ TypeOK /\ RequestedHaveTasks /\ AwaitedOrFinished /\ WrittenByThen /\ StopHasReason
    /\ WindowIsKept /\ AllHaveFinished /\ BoundedLoss /\ LatestIsEarned /\ ProgressIsEarned
=============================================================================
