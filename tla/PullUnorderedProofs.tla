------------------------- MODULE PullUnorderedProofs -------------------------
(***************************************************************************)
(* Proofs about PullUnordered for every range of frames, number of threads *)
(* and way the pulls and writes may end.                                   *)
(*                                                                         *)
(* BoundedLoss is the one that needs an argument.  The loop stops at the   *)
(* end of a file right after it has spawned a frame, which lies behind     *)
(* that end; it is in flight, with at most num_threads - 1 others, and     *)
(* everything that is not in flight has finished.                          *)
(***************************************************************************)
EXTENDS PullUnordered, FiniteSetTheorems, TLAPS

LEMMA RangeFacts ==
  /\ RangeEnd \in Nat
  /\ IsFiniteSet(Frames) /\ Frames \subseteq Nat
  /\ \A n \in Nat : n \in Frames <=> n < RangeEnd
<1>1. RangeEnd \in Nat
  BY SourceAssumption DEF RangeEnd
<1>2. QED
  BY <1>1, FS_Interval DEF Frames

(* Sets of frames and their sizes.                                         *)
LEMMA FrameSets ==
  ASSUME NEW S \in SUBSET Frames
  PROVE  /\ IsFiniteSet(S) /\ Cardinality(S) \in Nat
         /\ Cardinality({}) = 0
         /\ \A T \in SUBSET S : Cardinality(T) <= Cardinality(S)
         /\ \A f \in S : Cardinality(S \ {f}) = Cardinality(S) - 1
         /\ \A f \in Frames \ S : Cardinality(S \cup {f}) = Cardinality(S) + 1
<1>1. IsFiniteSet(S)
  BY RangeFacts, FS_Subset
<1>2. QED
  BY <1>1, FS_CardinalityType, FS_EmptySet, FS_Subset, FS_RemoveElement, FS_AddElement

LEMMA InitIInv == Init => IInv
<1> SUFFICES ASSUME Init PROVE IInv
  OBVIOUS
<1>0. next \in 0..RangeEnd
  <2>1. next = 0
    BY DEF Init
  <2>2. QED
    BY <2>1, RangeFacts
<1> USE RangeFacts DEF Init
<1>1. TypeOK
  <2>1. /\ access \in Access /\ outcome \in [Frames -> Outcomes]
        /\ task \in [Frames -> TaskStates] /\ seen \in [Frames -> Frames \cup {0}]
    BY DEF SourceInit, TaskStates
  <2>2. next \in 0..RangeEnd
    BY <1>0
  <2>3. pc \in PcStates /\ shouldStop \in BOOLEAN /\ latest \in Frames \cup {0} /\ shown \in Frames \cup {0}
    BY DEF PcStates
  <2>4. QED
    BY <2>1, <2>2, <2>3 DEF TypeOK
<1>2. RequestedHaveTasks /\ WrittenByThen
  BY DEF RequestedHaveTasks, WrittenByThen
<1>3. AwaitedOrFinished /\ StopHasReason /\ AllHaveFinished /\ BoundedLoss
  BY DEF AwaitedOrFinished, StopHasReason, AllHaveFinished, BoundedLoss
<1>4. WindowIsKept
  BY FS_EmptySet, SourceAssumption DEF WindowIsKept
<1>5. LatestIsEarned /\ ProgressIsEarned
  BY DEF LatestIsEarned, ProgressIsEarned
<1>6. QED
  BY <1>1, <1>2, <1>3, <1>4, <1>5 DEF IInv

-----------------------------------------------------------------------------
LEMMA LoopKeepsTypes ==
  ASSUME TypeOK, LoopStep
  PROVE  TypeOK'
<1> USE RangeFacts DEF TypeOK, PcStates, source, progress
<1>1. CASE Finish \/ SkipAwait \/ AwaitAny \/ CheckStop
  BY <1>1 DEF Finish, SkipAwait, AwaitAny, CheckStop
<1>2. CASE SpawnNext
  <2>1. CASE RangeIsEmpty
    BY <1>2, <2>1 DEF SpawnNext
  <2>2. CASE ~RangeIsEmpty
    <3>1. next \in Frames /\ next + 1 \in 0..RangeEnd
      BY <2>2 DEF RangeIsEmpty
    <3>2. task' = [task EXCEPT ![next] = "pulling"] /\ inFlight' = inFlight \cup {next} /\ next' = next + 1
      BY <1>2, <2>2 DEF SpawnNext
    <3>3. task' \in [Frames -> TaskStates] /\ inFlight' \in SUBSET Frames
      BY <3>1, <3>2 DEF TaskStates
    <3>4. QED
      BY <1>2, <2>2, <3>1, <3>2, <3>3 DEF SpawnNext
  <2>3. QED
    BY <2>1, <2>2
<1>3. QED
  BY <1>1, <1>2 DEF LoopStep

LEMMA TaskKeepsTypes ==
  ASSUME TypeOK, NEW f \in Frames, TaskStep(f)
  PROVE  TypeOK'
BY DEF TypeOK, TaskStates, source, progress, TaskStep, Goto, Answer, Write, FailToWrite, RaiseLatest, ShowProgress,
       EndTask, FreeDropped

(* What the loop does to the tasks: nothing, but that SpawnNext makes one. *)
LEMMA LoopStepCases ==
  ASSUME TypeOK, LoopStep
  PROVE  /\ UNCHANGED <<source, answered, written, shouldStop, progress>>
         /\ \/ UNCHANGED <<next, task>> /\ inFlight' \subseteq inFlight
            \/ /\ ~RangeIsEmpty /\ next' = next + 1
               /\ inFlight' = inFlight \cup {next}
               /\ task' = [task EXCEPT ![next] = "pulling"]
BY DEF LoopStep, Finish, SkipAwait, AwaitAny, SpawnNext, CheckStop

(* Everything that has been requested and is neither awaited nor written   *)
(* could not be written.                                                   *)
LEMMA LostIsInFlight ==
  ASSUME IInv, ~Returned, NEW f \in Writable, f < next, f \notin inFlight
  PROVE  f \in written
BY DEF IInv, AwaitedOrFinished, WrittenByThen, Handled, Writable

(* Behind an end of file nothing can be written.                           *)
LEMMA NothingBehindTheEnd ==
  ASSUME IInv, shouldStop, NEW f \in Frames, f >= next - 1
  PROVE  f \notin Writable
<1>1. PICK g \in Frames : g < next /\ outcome[g] = "eof"
  BY DEF IInv, StopHasReason
<1>2. g \in 0..f
  BY <1>1, RangeFacts DEF IInv, TypeOK
<1>3. QED
  BY <1>1, <1>2 DEF Writable

LEMMA LoopKeepsWindow ==
  ASSUME IInv, LoopStep
  PROVE  WindowIsKept'
<1> USE RangeFacts DEF IInv, WindowIsKept
<1>1. inFlight \in SUBSET Frames /\ next \in 0..RangeEnd
  BY DEF TypeOK
<1>2. NumThreads \in Nat \ {0} /\ Cardinality(inFlight) \in Nat
  BY <1>1, FrameSets, SourceAssumption
<1>3. CASE Finish
  BY <1>3 DEF Finish
<1>4. CASE SkipAwait
  BY <1>4, <1>2 DEF SkipAwait, MustAwait
<1>5. CASE AwaitAny
  <2>1. PICK f \in inFlight : \/ inFlight' = inFlight \ {f} /\ pc' = "push"
                              \/ inFlight' = {} /\ pc' = "returnedErr"
    BY <1>5 DEF AwaitAny
  <2>2. Cardinality(inFlight \ {f}) = Cardinality(inFlight) - 1
    BY <1>1, FrameSets
  <2>3. pc = "top" /\ next' = next
    BY <1>5 DEF AwaitAny
  <2>4. QED
    BY <2>1, <2>2, <2>3, <1>2
<1>6. CASE SpawnNext
  <2>1. CASE RangeIsEmpty
    BY <1>6, <2>1 DEF SpawnNext
  <2>2. CASE ~RangeIsEmpty
    <3>1. pc = "push" /\ pc' = "check" /\ next' = next + 1 /\ inFlight' = inFlight \cup {next}
      BY <1>6, <2>2 DEF SpawnNext
    <3>2. next \in Frames \ inFlight
      BY <1>1, <2>2 DEF RangeIsEmpty, AwaitedOrFinished
    <3>3. Cardinality(inFlight \cup {next}) = Cardinality(inFlight) + 1
      BY <1>1, <3>2, FrameSets
    <3>4. Cardinality(inFlight) < NumThreads
      BY <3>1, <2>2
    <3>5. (next + 1) - 1 = next
      BY <1>1
    <3>6. QED
      BY <3>1, <3>3, <3>4, <3>5, <1>2
  <2>3. QED
    BY <2>1, <2>2
<1>7. CASE CheckStop
  BY <1>7 DEF CheckStop
<1>8. QED
  BY <1>3, <1>4, <1>5, <1>6, <1>7 DEF LoopStep

(* What is lost when the loop returns Ok.                                  *)
LEMMA LoopBoundsLoss ==
  ASSUME IInv, LoopStep
  PROVE  BoundedLoss'
<1> SUFFICES ASSUME pc' = "returnedOk"
             PROVE  Cardinality(Writable \ written) < NumThreads
  BY DEF LoopStep, Finish, SkipAwait, AwaitAny, SpawnNext, CheckStop, source, Writable, BoundedLoss
<1>1. inFlight \in SUBSET Frames /\ next \in 0..RangeEnd /\ NumThreads \in Nat \ {0}
  BY SourceAssumption DEF IInv, TypeOK
<1>2. CASE Finish
  <2>1. \A f \in Writable : f \in written
    BY <1>2, LostIsInFlight, RangeFacts DEF Finish, RangeIsEmpty, Returned, Writable
  <2>2. Writable \ written = {}
    BY <2>1
  <2>3. QED
    BY <2>2, <1>1, FS_EmptySet
<1>3. CASE CheckStop
  <2>1. pc = "check" /\ shouldStop
    BY <1>3 DEF CheckStop
  <2>2. next - 1 \in inFlight /\ Cardinality(inFlight) <= NumThreads
    BY <2>1 DEF IInv, WindowIsKept
  <2>3. ASSUME NEW f \in Writable \ written PROVE f \in inFlight \ {next - 1}
    <3>1. f \in Frames /\ f \in Nat /\ next - 1 \in Frames
      BY <1>1, <2>2, RangeFacts DEF Writable
    <3>2. f < next - 1
      BY <1>1, <2>1, <3>1, NothingBehindTheEnd
    <3>3. f < next /\ f # next - 1
      BY <3>1, <3>2, <1>1
    <3>4. QED
      BY <2>1, <3>3, LostIsInFlight DEF Returned
  <2>4. Writable \ written \subseteq inFlight \ {next - 1}
    BY <2>3
  <2>5. Cardinality(Writable \ written) <= Cardinality(inFlight \ {next - 1})
    BY <1>1, <2>4, FrameSets
  <2>6. Cardinality(inFlight \ {next - 1}) = Cardinality(inFlight) - 1 /\ Cardinality(inFlight) \in Nat
    BY <1>1, <2>2, FrameSets
  <2>7. Cardinality(Writable \ written) \in Nat
    BY FrameSets DEF Writable
  <2>8. QED
    BY <2>2, <2>5, <2>6, <2>7, <1>1
<1>4. QED
  BY <1>2, <1>3 DEF LoopStep, SkipAwait, AwaitAny, SpawnNext

LEMMA LoopKeepsIInv ==
  ASSUME IInv, LoopStep
  PROVE  IInv'
<1>1. TypeOK /\ TypeOK'
  BY LoopKeepsTypes DEF IInv
<1>2. next \in 0..RangeEnd /\ next' \in 0..RangeEnd /\ inFlight \in SUBSET Frames
  BY <1>1 DEF TypeOK
<1> DEFINE Same == UNCHANGED <<next, task>> /\ inFlight' \subseteq inFlight
           Spawned == /\ ~RangeIsEmpty /\ next' = next + 1
                      /\ inFlight' = inFlight \cup {next}
                      /\ task' = [task EXCEPT ![next] = "pulling"]
<1>3. /\ UNCHANGED <<source, answered, written, shouldStop, progress>>
      /\ Same \/ Spawned
  BY <1>1, LoopStepCases
<1>4. Spawned => next \in Frames /\ task[next] = "none"
  BY <1>2, RangeFacts DEF RangeIsEmpty, IInv, RequestedHaveTasks
<1>5. \A f \in Frames : task'[f] = IF Spawned /\ f = next THEN "pulling" ELSE task[f]
  BY <1>1, <1>3, <1>4 DEF TypeOK
<1>6. RequestedHaveTasks'
  <2> SUFFICES ASSUME NEW f \in Frames PROVE task'[f] = "none" <=> f >= next'
    BY DEF RequestedHaveTasks, Frames
  <2>1. f \in Nat /\ (task[f] = "none" <=> f >= next)
    BY RangeFacts DEF IInv, RequestedHaveTasks
  <2>2. QED
    BY <1>2, <1>3, <1>5, <2>1
<1>7. AwaitedOrFinished'
  <2>1. inFlight' \subseteq 0..(next' - 1)
    <3>1. inFlight \subseteq 0..(next - 1)
      BY DEF IInv, AwaitedOrFinished
    <3>2. CASE Same
      BY <3>1, <3>2
    <3>3. CASE Spawned
      BY <1>2, <3>1, <3>3
    <3>4. QED
      BY <1>3, <3>2, <3>3
  <2>2. ASSUME ~Returned', NEW f \in Frames, f < next'
        PROVE  f \in inFlight' \/ task'[f] = "finished"
    <3>1. ~Returned
      BY <2>2 DEF Returned, LoopStep, Finish, SkipAwait, AwaitAny, SpawnNext, CheckStop
    <3>2. f \in Nat
      BY RangeFacts
    <3>3. CASE Spawned /\ f = next
      BY <3>3
    <3>4. CASE ~(Spawned /\ f = next)
      <4>1. f < next /\ task'[f] = task[f]
        BY <1>2, <1>3, <1>5, <2>2, <3>2, <3>4
      <4>2. f \in inFlight \/ task[f] = "finished"
        BY <3>1, <4>1 DEF IInv, AwaitedOrFinished
      <4>3. f \in inFlight => f \in inFlight' \/ task[f] = "finished"
        BY <1>3, <2>2 DEF Returned, LoopStep, Finish, SkipAwait, AwaitAny, SpawnNext, CheckStop
      <4>4. QED
        BY <4>1, <4>2, <4>3
    <3>5. QED
      BY <3>3, <3>4
  <2>3. QED
    BY <2>1, <2>2 DEF AwaitedOrFinished, Frames
<1>8. WrittenByThen'
  BY <1>3, <1>5 DEF IInv, WrittenByThen, Handled, source, Frames
<1>9. StopHasReason'
  <2>1. \A f \in Frames : f < next => f < next'
    BY <1>2, <1>3, RangeFacts
  <2>2. QED
    BY <1>3, <2>1 DEF IInv, StopHasReason, source, Frames
<1>10. AllHaveFinished'
  <2> SUFFICES ASSUME pc' = "returnedOk", ~shouldStop, NEW f \in Frames
               PROVE  task'[f] = "finished"
    BY <1>3 DEF AllHaveFinished, Frames
  <2>1. Finish
    BY DEF LoopStep, Finish, SkipAwait, AwaitAny, SpawnNext, CheckStop
  <2>2. f < next
    BY <2>1, RangeFacts DEF Finish, RangeIsEmpty
  <2>3. task[f] = "finished"
    BY <2>1, <2>2 DEF Finish, Returned, IInv, AwaitedOrFinished
  <2>4. QED
    BY <2>1, <2>3 DEF Finish
<1>11. LatestIsEarned' /\ ProgressIsEarned'
  BY <1>3 DEF IInv, LatestIsEarned, ProgressIsEarned, Handled, progress, source, Frames
<1>12. QED
  BY <1>1, <1>6, <1>7, <1>8, <1>9, <1>10, <1>11, LoopKeepsWindow, LoopBoundsLoss DEF IInv

-----------------------------------------------------------------------------
(* What a task step leaves alone, and where it takes its task.             *)
LEMMA TaskStepCases ==
  ASSUME TypeOK, NEW f \in Frames, TaskStep(f)
  PROVE  /\ UNCHANGED <<source, pc, next, inFlight>>
         /\ task[f] \notin {"none", "finished", "failed"}
         /\ task'[f] # "none"
         /\ \A g \in Frames : g # f => task'[g] = task[g]
         /\ written \subseteq written' /\ answered \subseteq answered'
BY DEF TypeOK, TaskStep, Goto, Answer, Write, FailToWrite, RaiseLatest, ShowProgress, EndTask, FreeDropped

LEMMA TaskKeepsIInv ==
  ASSUME IInv, NEW f \in Frames, TaskStep(f)
  PROVE  IInv'
<1>1. TypeOK /\ TypeOK'
  BY TaskKeepsTypes DEF IInv
<1>2. /\ UNCHANGED <<source, pc, next, inFlight>>
      /\ task[f] \notin {"none", "finished", "failed"}
      /\ task'[f] # "none"
      /\ \A g \in Frames : g # f => task'[g] = task[g]
      /\ written \subseteq written' /\ answered \subseteq answered'
  BY <1>1, TaskStepCases
<1>3. \A g \in Frames : task[g] = "finished" => task'[g] = "finished"
  BY <1>2
<1>4. RequestedHaveTasks'
  BY <1>2 DEF IInv, RequestedHaveTasks, Frames
<1>5. AwaitedOrFinished'
  BY <1>2, <1>3 DEF IInv, AwaitedOrFinished, Returned, Frames
<1>6. WrittenByThen'
  <2>1. CASE Answer(f)
    BY <1>1, <2>1 DEF Answer, Goto, TypeOK, IInv, WrittenByThen, Handled, progress, source, Frames
  <2>2. CASE Write(f)
    BY <1>1, <2>2 DEF Write, Goto, TypeOK, IInv, WrittenByThen, Handled, progress, source, Frames
  <2>3. CASE FailToWrite(f) \/ FreeDropped(f)
    BY <1>1, <2>3 DEF FailToWrite, FreeDropped, Goto, TypeOK, IInv, WrittenByThen, Handled, progress, source, Frames
  <2>4. CASE RaiseLatest(f) \/ ShowProgress(f) \/ EndTask(f)
    BY <1>1, <2>4 DEF RaiseLatest, ShowProgress, EndTask, Goto, TypeOK, IInv, WrittenByThen, Handled, progress, source, Frames
  <2>5. QED
    BY <2>1, <2>2, <2>3, <2>4 DEF TaskStep
<1>7. StopHasReason'
  <2>1. shouldStop' => shouldStop \/ outcome[f] = "eof"
    BY DEF TaskStep, Answer, Write, FailToWrite, RaiseLatest, ShowProgress, EndTask, FreeDropped
  <2>2. f < next
    BY <1>1, <1>2, RangeFacts DEF TypeOK, IInv, RequestedHaveTasks
  <2>3. QED
    BY <1>2, <2>1, <2>2 DEF IInv, StopHasReason, source, Frames
<1>8. WindowIsKept'
  BY <1>2 DEF IInv, WindowIsKept, RangeIsEmpty
<1>9. AllHaveFinished'
  <2>1. shouldStop => shouldStop'
    BY DEF TaskStep, Answer, Write, FailToWrite, RaiseLatest, ShowProgress, EndTask, FreeDropped
  <2>2. QED
    BY <1>2, <1>3, <2>1 DEF IInv, AllHaveFinished, Frames
<1>10. BoundedLoss'
  <2>1. Writable' = Writable
    BY <1>2 DEF Writable, source, Frames
  <2>2. Writable \in SUBSET Frames
    BY DEF Writable
  <2>3. /\ Cardinality(Writable \ written') <= Cardinality(Writable \ written)
        /\ Cardinality(Writable \ written') \in Nat /\ Cardinality(Writable \ written) \in Nat
    BY <1>2, <2>2, FrameSets
  <2>4. QED
    BY <1>2, <2>1, <2>3, SourceAssumption DEF IInv, BoundedLoss
<1>11. LatestIsEarned' /\ ProgressIsEarned'
  <2>1. Handled \subseteq Handled'
    BY <1>2 DEF Handled, source
  <2>2. latest' \in Handled' \cup {0}
    <3>1. latest \in Handled \cup {0}
      BY DEF IInv, LatestIsEarned
    <3>2. CASE RaiseLatest(f)
      <4>1. f \in Handled /\ latest' \in {f, latest}
        BY <3>2 DEF RaiseLatest, IInv, WrittenByThen
      <4>2. QED
        BY <2>1, <3>1, <4>1
    <3>3. CASE ~RaiseLatest(f)
      <4>1. latest' = latest
        BY <3>3 DEF TaskStep, Answer, Write, FailToWrite, ShowProgress, EndTask, FreeDropped, progress
      <4>2. QED
        BY <2>1, <3>1, <4>1
    <3>4. QED
      BY <3>2, <3>3
  <2>3. ASSUME NEW g \in Frames PROVE seen'[g] \in Handled' \cup {0}
    <3>1. seen[g] \in Handled \cup {0} /\ latest \in Handled \cup {0}
      BY DEF IInv, LatestIsEarned
    <3>2. seen'[g] \in {seen[g], latest}
      BY <1>1 DEF TypeOK, TaskStep, Answer, Write, FailToWrite, RaiseLatest, ShowProgress, EndTask,
                  FreeDropped, progress
    <3>3. QED
      BY <2>1, <3>1, <3>2
  <2>4. shown' \in Handled' \cup {0}
    <3>1. shown \in Handled \cup {0} /\ seen[f] \in Handled \cup {0}
      BY DEF IInv, LatestIsEarned, ProgressIsEarned
    <3>2. shown' \in {shown, seen[f]}
      BY DEF TaskStep, Answer, Write, FailToWrite, RaiseLatest, ShowProgress, EndTask, FreeDropped,
             progress
    <3>3. QED
      BY <2>1, <3>1, <3>2
  <2>5. QED
    BY <2>2, <2>3, <2>4 DEF LatestIsEarned, ProgressIsEarned, Frames
<1>12. QED
  BY <1>1, <1>4, <1>5, <1>6, <1>7, <1>8, <1>9, <1>10, <1>11 DEF IInv

LEMMA NextIInv == IInv /\ [Next]_vars => IInv'
<1>1. IInv /\ UNCHANGED vars => IInv'
  BY DEF vars, source, IInv, TypeOK, RequestedHaveTasks, AwaitedOrFinished, WrittenByThen,
         StopHasReason, WindowIsKept, RangeIsEmpty, AllHaveFinished, BoundedLoss, Writable,
         LatestIsEarned, ProgressIsEarned, Handled, progress, Returned, Frames
<1>2. QED
  BY <1>1, LoopKeepsIInv, TaskKeepsIInv DEF Next

(* Every requested frame of pull_unordered has a task that is awaited or   *)
(* has finished, and no more are awaited than there are threads.           *)
THEOREM PullUnorderedInvariance == SafeSpec => []IInv
BY InitIInv, NextIInv, PTL DEF SafeSpec

-----------------------------------------------------------------------------
(* Without an end of file, what can be delivered has been written when the *)
(* puller says that it is done.                                            *)
THEOREM EverythingIsWritten == SafeSpec => []NothingForgotten
<1>1. IInv => NothingForgotten
  BY DEF IInv, AllHaveFinished, WrittenByThen, Handled, NothingForgotten, Writable
<1>2. QED
  BY PullUnorderedInvariance, <1>1, PTL

(* Without an end of file, Ok means that no write has failed.              *)
THEOREM WriteErrorsAreReported == SafeSpec => []FailureIsReported
<1>1. IInv => FailureIsReported
  BY DEF IInv, AllHaveFinished, FailureIsReported
<1>2. QED
  BY PullUnorderedInvariance, <1>1, PTL

(* The end of a file costs fewer than num_threads frames.                  *)
THEOREM LossIsBounded == SafeSpec => []BoundedLoss
<1>1. IInv => BoundedLoss
  BY DEF IInv
<1>2. QED
  BY PullUnorderedInvariance, <1>1, PTL

(* However the updates race, the bar stands only at frames that need       *)
(* nothing any more.                                                       *)
THEOREM ProgressIsTrue == SafeSpec => []ProgressIsEarned
<1>1. IInv => ProgressIsEarned
  BY DEF IInv
<1>2. QED
  BY PullUnorderedInvariance, <1>1, PTL
=============================================================================
