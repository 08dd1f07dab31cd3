------------------------- MODULE AveragedSourceProofs -------------------------
(***************************************************************************)
(* Proofs about AsyncNotifier, for any waits, values and predicates, and   *)
(* about a sequential reader and whatever pulls from it, for any           *)
(* consumers, streams, windows and averages.                               *)
(*                                                                         *)
(* The safety properties of the notifier hold together with two facts      *)
(* about the futures: a filled slot satisfies its predicate, and an        *)
(* awaiting future without a value is in the vector while its predicate    *)
(* is false (so no update can pass it by, not even between wait and the    *)
(* first poll).  They carry over: the reader calls wait and update, and    *)
(* nothing else touches the notifier.                                      *)
(***************************************************************************)
EXTENDS AveragedSource, FiniteSetTheorems, TLAPS

LEMMA InitIInv == Init => IInv
BY NotifierAssumption
   DEF Init, IInv, TypeOK, Phases, SleepersHaveReason, ResultSatisfiesPredicate,
       UnfilledIsWaiting, SlotsSatisfyPredicate

LEMMA NextIInv == IInv /\ [Next]_vars => IInv'
<1> SUFFICES ASSUME IInv, [Next]_vars PROVE IInv'
  OBVIOUS
<1> USE NotifierAssumption
    DEF IInv, TypeOK, Phases, SleepersHaveReason, ResultSatisfiesPredicate,
        UnfilledIsWaiting, SlotsSatisfyPredicate
<1>1. ASSUME NEW x \in Waits, Wait(x) PROVE IInv'
  BY <1>1 DEF Wait
<1>2. ASSUME NEW x \in Waits, Poll(x) PROVE IInv'
  BY <1>2 DEF Poll
<1>3. ASSUME NEW v \in Values, Update(v) PROVE IInv'
  <2>1. TypeOK'
    BY <1>3 DEF Update
  <2>2. SleepersHaveReason'
    BY <1>3 DEF Update
  <2>3. ResultSatisfiesPredicate' /\ UnfilledIsWaiting' /\ SlotsSatisfyPredicate'
    BY <1>3 DEF Update
  <2>4. QED
    BY <2>1, <2>2, <2>3
<1>4. ASSUME NEW x \in Waits, Cancel(x) PROVE IInv'
  BY <1>4 DEF Cancel
<1>5. CASE UNCHANGED vars
  BY <1>5 DEF vars
<1>6. QED
  BY <1>1, <1>2, <1>3, <1>4, <1>5 DEF Next

(* However wait, poll, update and cancellation interleave, the futures and *)
(* the vector of AsyncNotifier agree.                                      *)
THEOREM NotifierInvariance == SafeSpec => []IInv
BY InitIInv, NextIInv, PTL DEF SafeSpec

(* No wake-up is missed: a task sleeps in wait only while its predicate is *)
(* false and the notifier holds its waker.                                 *)
THEOREM NoMissedWakeup == SafeSpec => []SleepersHaveReason
<1>1. IInv => SleepersHaveReason
  BY DEF IInv
<1>2. QED
  BY NotifierInvariance, <1>1, PTL

(* wait never returns a value its predicate rejects.                       *)
THEOREM WaitReturnsAccepted == SafeSpec => []ResultSatisfiesPredicate
<1>1. IInv => ResultSatisfiesPredicate
  BY DEF IInv
<1>2. QED
  BY NotifierInvariance, <1>1, PTL

-----------------------------------------------------------------------------
(* Only the reader's own steps touch what the reader is made of.           *)
LEMMA OthersOnlyAsk ==
  ASSUME [SourceNext]_allVars
  PROVE  ReaderStep \/ UNCHANGED <<vars, kind, users, length, bad, read, blob, got>>
<1>1. ASSUME NEW c \in Consumers, PullerAsks(c)
      PROVE UNCHANGED <<vars, kind, users, length, bad, read, blob, got>>
  BY <1>1 DEF PullerAsks, AskFor
<1>2. ASSUME NEW f \in Frames, TakeResult(f)
      PROVE UNCHANGED <<vars, kind, users, length, bad, read, blob, got>>
  BY <1>2 DEF TakeResult, AskFor, readerVars
<1>3. ASSUME NEW f \in Frames, NEW k \in Chunks, AddToChunk(f, k)
      PROVE UNCHANGED <<vars, kind, users, length, bad, read, blob, got>>
  BY <1>3 DEF AddToChunk, readerVars
<1>4. ASSUME BeginAverage \/ FirstFails \/ FirstRefused \/ FirstAnswers \/ AnswerAverage
      PROVE UNCHANGED <<vars, kind, users, length, bad, read, blob, got>>
  BY <1>4 DEF BeginAverage, FirstFails, FirstRefused, FirstAnswers, AnswerAverage, AskFor, readerVars
<1>5. CASE UNCHANGED allVars
  BY <1>5 DEF allVars, readerVars
<1>6. QED
  BY <1>1, <1>2, <1>3, <1>4, <1>5 DEF SourceNext, AverageStep

LEMMA PullsAreWaits ==
  ASSUME ReaderTypeOK, NEW c \in users, NEW f \in Frames
  PROVE  PullOf(c, f) \in Waits /\ PullOf(c, f).frame = f /\ Mine(c, PullOf(c, f))
BY ReaderAssumption DEF ReaderTypeOK, PullOf, Pulls, Mine

LEMMA WaitsHaveFrames ==
  ASSUME NEW w \in Waits
  PROVE  w.frame \in Nat /\ w.frame + 1 \in Values
BY ReaderAssumption DEF Pulls

(* Each step of the reader is one of the notifier's, or leaves it alone.   *)
LEMMA ReaderUsesNotifier ==
  ASSUME ReaderTypeOK, ReaderStep
  PROVE  [Next]_vars
<1>1. ASSUME NEW c \in users, NEW f \in Frames, StartPull(c, f)
      PROVE [Next]_vars
  BY <1>1, PullsAreWaits DEF StartPull, Next
<1>2. ASSUME NEW w \in Waits, AwaitTurn(w)
      PROVE [Next]_vars
  BY <1>2 DEF AwaitTurn, Next
<1>3. ASSUME NEW w \in Waits, TakeBlob(w) \/ MeetEof(w)
      PROVE [Next]_vars
  BY <1>3 DEF TakeBlob, MeetEof
<1>4. ASSUME NEW w \in Waits, Answer(w)
      PROVE [Next]_vars
  BY <1>4, WaitsHaveFrames DEF Answer, Next
<1>5. QED
  BY <1>1, <1>2, <1>3, <1>4 DEF ReaderStep

LEMMA ReaderKeepsTypes ==
  ASSUME ReaderTypeOK, ReaderStep
  PROVE  ReaderTypeOK'
<1> USE ReaderAssumption DEF ReaderTypeOK
<1>1. ASSUME NEW c \in users, NEW f \in Frames, StartPull(c, f)
      PROVE ReaderTypeOK'
  BY <1>1 DEF StartPull, readerVars
<1>2. ASSUME NEW w \in Waits, AwaitTurn(w)
      PROVE ReaderTypeOK'
  BY <1>2 DEF AwaitTurn, readerVars
<1>3. ASSUME NEW w \in Waits, TakeBlob(w)
      PROVE ReaderTypeOK'
  BY <1>3 DEF TakeBlob
<1>4. ASSUME NEW w \in Waits, MeetEof(w)
      PROVE ReaderTypeOK'
  BY <1>4 DEF MeetEof
<1>5. ASSUME NEW w \in Waits, Answer(w)
      PROVE ReaderTypeOK'
  <2>1. blob[w] \in Nat \cup {Failed}
    BY <1>5 DEF Answer
  <2>2. QED
    BY <1>5, <2>1 DEF Answer
<1>6. QED
  BY <1>1, <1>2, <1>3, <1>4, <1>5 DEF ReaderStep

(* The readers call wait and update as the notifier expects, so that what  *)
(* holds of the notifier holds in them.                                    *)
THEOREM SourceUsesNotifier == SourceSpec => [](IInv /\ ReaderTypeOK)
<1>1. SourceInit => IInv /\ ReaderTypeOK
  BY InitIInv DEF SourceInit, ReaderInit, ReaderTypeOK
<1>2. IInv /\ ReaderTypeOK /\ [SourceNext]_allVars => (IInv /\ ReaderTypeOK)'
  <2> SUFFICES ASSUME IInv, ReaderTypeOK, [SourceNext]_allVars
               PROVE (IInv /\ ReaderTypeOK)'
    OBVIOUS
  <2>1. CASE ReaderStep
    BY <2>1, ReaderUsesNotifier, ReaderKeepsTypes, NextIInv
  <2>2. CASE UNCHANGED <<vars, kind, users, length, bad, read, blob, got>>
    <3>1. UNCHANGED vars
      BY <2>2
    <3>2. ReaderTypeOK'
      BY <2>2 DEF ReaderTypeOK
    <3>3. QED
      BY <3>1, <3>2, NextIInv
  <2>3. QED
    BY <2>1, <2>2, OthersOnlyAsk
<1>3. QED
  BY <1>1, <1>2, PTL DEF SourceSpec

(* Nobody sleeps in wait while his predicate holds, in the real use of the *)
(* notifier: a reader with several consumers, one of which may be Average. *)
THEOREM ReadersMissNoWakeup == SourceSpec => []SleepersHaveReason
<1>1. IInv => SleepersHaveReason
  BY DEF IInv
<1>2. QED
  BY SourceUsesNotifier, <1>1, PTL

-----------------------------------------------------------------------------
(* A pull is admitted when the notifier has come to its frame, not before. *)
LEMMA AdmittedInTime ==
  ASSUME NEW w \in Waits, NEW v \in Accepts[w]
  PROVE  v \in Nat /\ w.frame <= v
BY ReaderAssumption DEF Admits, Pulls

(* The turns of a single consumer, as one formula.                         *)
Turns(c) ==
    /\ EarlierAreAnswered(c) /\ TakenInTurn(c) /\ StreamInTurn(c)
    /\ OnlyMine(c) /\ WokenEarlier

LEMMA ResolvedHasTurn ==
  ASSUME IInv, ReaderTypeOK, NEW c \in Consumers, Turns(c),
         NEW w \in Waits, phase[w] = "resolved"
  PROVE  /\ Mine(c, w) /\ w.frame <= data /\ data \in Nat
         /\ (blob[w] = Nothing \/ got[w] = Nothing) => w.frame = data
<1>1. result[w] \in Accepts[w]
  BY DEF IInv, ResultSatisfiesPredicate
<1>2. result[w] \in Nat /\ w.frame <= result[w]
  BY <1>1, AdmittedInTime
<1>3. result[w] <= data
  BY <1>2, ReaderAssumption DEF Turns, WokenEarlier
<1>4. data \in Nat /\ w.frame \in Nat
  BY ReaderAssumption, WaitsHaveFrames DEF IInv, TypeOK
<1>5. Mine(c, w)
  BY DEF Turns, OnlyMine
<1>6. w.frame < data => blob[w] # Nothing /\ got[w] # Nothing
  BY <1>5 DEF Turns, EarlierAreAnswered, Taken
<1>7. QED
  BY <1>2, <1>3, <1>4, <1>5, <1>6

(* Pulls of the same consumer for the same frame are the same pull.        *)
LEMMA MineByFrame ==
  ASSUME NEW c, NEW w \in Waits, NEW x \in Waits, Mine(c, w), Mine(c, x), w.frame = x.frame
  PROVE  w = x
BY DEF Mine

LEMMA StartKeepsTurns ==
  ASSUME IInv, ReaderTypeOK, NEW c \in Consumers, users = {c}, Turns(c),
         NEW f \in Frames, StartPull(c, f)
  PROVE  Turns(c)'
<1> DEFINE w == PullOf(c, f)
<1>1. w \in Waits /\ Mine(c, w)
  BY PullsAreWaits
<1>2. data \in Nat /\ slot \in [Waits -> Values \cup {Nothing}] /\ phase \in [Waits -> Phases]
  BY ReaderAssumption DEF IInv, TypeOK
<1>3. /\ UNCHANGED <<data, result, kind, read, blob, got>>
      /\ slot' = [slot EXCEPT ![w] = IF data \in Accepts[w] THEN data ELSE Nothing]
      /\ phase' = [phase EXCEPT ![w] = "awaiting"]
  BY DEF StartPull, Wait, readerVars
<1>4. (EarlierAreAnswered(c) /\ TakenInTurn(c) /\ StreamInTurn(c))'
  BY <1>3 DEF Turns, EarlierAreAnswered, TakenInTurn, StreamInTurn, Mine, PullOf, Taken
<1>5. OnlyMine(c)'
  BY <1>1, <1>2, <1>3 DEF Turns, OnlyMine, Mine, PullOf
<1>6. WokenEarlier'
  BY <1>2, <1>3 DEF Turns, WokenEarlier
<1>7. QED
  BY <1>4, <1>5, <1>6 DEF Turns

LEMMA AwaitKeepsTurns ==
  ASSUME IInv, ReaderTypeOK, NEW c \in Consumers, users = {c}, Turns(c),
         NEW w \in Waits, AwaitTurn(w)
  PROVE  Turns(c)'
<1>1. /\ slot \in [Waits -> Values \cup {Nothing}] /\ phase \in [Waits -> Phases]
      /\ result \in [Waits -> Values \cup {Nothing}]
  BY DEF IInv, TypeOK
<1>2. /\ UNCHANGED <<data, kind, read, blob, got>>
      /\ phase[w] = "awaiting"
      /\ slot' = [slot EXCEPT ![w] = Nothing]
      /\ \/ phase' = [phase EXCEPT ![w] = "resolved"] /\ result' = [result EXCEPT ![w] = slot[w]]
         \/ phase' = phase /\ result' = result
  BY DEF AwaitTurn, Poll, readerVars
<1>3. (EarlierAreAnswered(c) /\ TakenInTurn(c) /\ StreamInTurn(c))'
  BY <1>2 DEF Turns, EarlierAreAnswered, TakenInTurn, StreamInTurn, Mine, PullOf, Taken
<1>4. OnlyMine(c)'
  BY <1>1, <1>2 DEF Turns, OnlyMine, Mine, PullOf
<1>5. WokenEarlier'
  BY <1>1, <1>2 DEF Turns, WokenEarlier
<1>6. QED
  BY <1>3, <1>4, <1>5 DEF Turns

(* The blob that is taken is the next one, and it is this pull's turn.     *)
LEMMA TakeKeepsTurns ==
  ASSUME IInv, ReaderTypeOK, NEW c \in Consumers, users = {c}, Turns(c),
         NEW w \in Waits, TakeBlob(w)
  PROVE  Turns(c)'
<1>1. phase[w] = "resolved" /\ blob[w] = Nothing
  BY DEF TakeBlob
<1>2. Mine(c, w) /\ w.frame = data /\ data \in Nat
  BY <1>1, ResolvedHasTurn
<1>3. read = data
  <2>1. ASSUME NEW x \in Waits, x.frame = data, Taken(x) PROVE FALSE
    <3>1. Mine(c, x)
      BY <2>1 DEF Turns, TakenInTurn
    <3>2. x = w
      BY <1>2, <2>1, <3>1, MineByFrame
    <3>3. QED
      BY <1>1, <2>1, <3>2 DEF Taken
  <2>2. QED
    BY <2>1 DEF Turns, StreamInTurn
<1>4. /\ blob' = [blob EXCEPT ![w] = read] /\ read' = read + 1
      /\ UNCHANGED <<data, phase, slot, result, kind, got>>
  BY DEF TakeBlob, vars
<1>5. blob \in [Waits -> Nat \cup {Nothing}] /\ read \in Nat /\ Nothing \notin Nat
  BY ReaderAssumption DEF ReaderTypeOK
<1>6. blob'[w] = data /\ \A x \in Waits : x # w => blob'[x] = blob[x]
  BY <1>3, <1>4, <1>5
<1>7. EarlierAreAnswered(c)'
  BY <1>2, <1>4, <1>5, <1>6 DEF Turns, EarlierAreAnswered, Taken, Mine, PullOf
<1>8. TakenInTurn(c)'
  BY <1>2, <1>4, <1>6 DEF Turns, TakenInTurn, Taken, Mine, PullOf
<1>9. StreamInTurn(c)'
  <2>1. read' = data + 1 /\ data' = data
    BY <1>3, <1>4
  <2>2. w.frame = data' /\ Taken(w)'
    BY <1>2, <1>4, <1>5, <1>6 DEF Taken
  <2>3. QED
    BY <2>1, <2>2 DEF StreamInTurn
<1>10. OnlyMine(c)' /\ WokenEarlier'
  BY <1>4 DEF Turns, OnlyMine, WokenEarlier, Mine, PullOf
<1>11. QED
  BY <1>7, <1>8, <1>9, <1>10 DEF Turns

LEMMA EofKeepsTurns ==
  ASSUME ReaderTypeOK, NEW c \in Consumers, users = {c}, Turns(c),
         NEW w \in Waits, MeetEof(w)
  PROVE  Turns(c)'
<1>1. /\ got' = [got EXCEPT ![w] = Failed]
      /\ UNCHANGED <<data, phase, slot, result, kind, read, blob>>
  BY DEF MeetEof, vars
<1>2. got \in [Waits -> Nat \cup {Nothing, Failed}] /\ Failed # Nothing
  BY ReaderAssumption DEF ReaderTypeOK
<1>3. EarlierAreAnswered(c)'
  BY <1>1, <1>2 DEF Turns, EarlierAreAnswered, Taken, Mine, PullOf
<1>4. (TakenInTurn(c) /\ StreamInTurn(c) /\ OnlyMine(c) /\ WokenEarlier)'
  BY <1>1 DEF Turns, TakenInTurn, StreamInTurn, OnlyMine, WokenEarlier, Taken, Mine, PullOf
<1>5. QED
  BY <1>3, <1>4 DEF Turns

(* The turn passes to the next frame.                                      *)
LEMMA AnswerKeepsTurns ==
  ASSUME IInv, ReaderTypeOK, NEW c \in Consumers, users = {c}, Turns(c),
         NEW w \in Waits, Answer(w)
  PROVE  Turns(c)'
<1>1. Taken(w) /\ got[w] = Nothing
  BY DEF Answer, Taken
<1>2. data \in Nat /\ w.frame \in Nat
  BY ReaderAssumption, WaitsHaveFrames DEF IInv, TypeOK
<1>3. Mine(c, w) /\ w.frame = data
  <2>1. Mine(c, w) /\ w.frame <= data
    BY <1>1 DEF Turns, TakenInTurn
  <2>2. ~(w.frame < data)
    BY <1>1, <2>1 DEF Turns, EarlierAreAnswered
  <2>3. QED
    BY <1>2, <2>1, <2>2
<1>4. /\ data' = data + 1
      /\ \A x \in Waits : slot'[x] = data + 1 \/ slot'[x] = slot[x]
      /\ UNCHANGED <<phase, result, kind, read, blob>>
  BY <1>3 DEF Answer, Update
<1>5. /\ got'[w] # Nothing
      /\ \A x \in Waits : x # w => got'[x] = got[x]
  <2>1. got' = [got EXCEPT ![w] = IF blob[w] \in bad THEN Failed ELSE blob[w]]
    BY DEF Answer
  <2>2. got \in [Waits -> Nat \cup {Nothing, Failed}] /\ Failed # Nothing /\ blob[w] # Nothing
    BY <1>1, ReaderAssumption DEF ReaderTypeOK, Taken
  <2>3. QED
    BY <2>1, <2>2
<1>6. EarlierAreAnswered(c)'
  <2> SUFFICES ASSUME NEW x \in Waits, Mine(c, x), x.frame < data + 1
               PROVE  Taken(x) /\ got'[x] # Nothing
    BY <1>4 DEF EarlierAreAnswered, Mine, PullOf, Taken
  <2>1. x.frame \in Nat
    BY WaitsHaveFrames
  <2>2. CASE x.frame = data
    BY <1>1, <1>3, <1>5, <2>2, MineByFrame
  <2>3. CASE x.frame < data
    <3>1. Taken(x) /\ got[x] # Nothing
      BY <2>3 DEF Turns, EarlierAreAnswered
    <3>2. QED
      BY <1>5, <3>1
  <2>4. QED
    BY <1>2, <2>1, <2>2, <2>3
<1>7. TakenInTurn(c)'
  <2> SUFFICES ASSUME NEW x \in Waits, Taken(x)
               PROVE  Mine(c, x) /\ blob[x] = x.frame /\ x.frame <= data + 1
    BY <1>4 DEF TakenInTurn, Mine, PullOf, Taken
  <2>1. Mine(c, x) /\ blob[x] = x.frame /\ x.frame <= data
    BY DEF Turns, TakenInTurn
  <2>2. QED
    BY <1>2, <2>1, WaitsHaveFrames
<1>8. StreamInTurn(c)'
  <2>1. read = data + 1
    BY <1>1, <1>3 DEF Turns, StreamInTurn
  <2>2. ASSUME NEW x \in Waits, Taken(x) PROVE x.frame # data + 1
    <3>1. x.frame <= data
      BY <2>2 DEF Turns, TakenInTurn
    <3>2. QED
      BY <1>2, <3>1, WaitsHaveFrames
  <2>3. QED
    BY <1>4, <2>1, <2>2 DEF StreamInTurn, Taken
<1>9. OnlyMine(c)'
  BY <1>4 DEF Turns, OnlyMine, Mine, PullOf
<1>10. WokenEarlier'
  <2>1. /\ slot \in [Waits -> Values \cup {Nothing}]
        /\ result \in [Waits -> Values \cup {Nothing}]
        /\ Values \subseteq Nat
    BY ReaderAssumption DEF IInv, TypeOK
  <2> SUFFICES ASSUME NEW x \in Waits
               PROVE  /\ slot'[x] # Nothing => slot'[x] <= data + 1
                      /\ result[x] # Nothing => result[x] <= data + 1
    BY <1>4 DEF WokenEarlier
  <2>2. slot[x] # Nothing => slot[x] <= data
    BY DEF Turns, WokenEarlier
  <2>3. result[x] # Nothing => result[x] <= data
    BY DEF Turns, WokenEarlier
  <2>4. slot'[x] # Nothing => slot'[x] <= data + 1
    <3>1. slot[x] \in Nat \cup {Nothing}
      BY <2>1
    <3>2. slot'[x] = data + 1 \/ slot'[x] = slot[x]
      BY <1>4
    <3>3. QED
      BY <1>2, <2>2, <3>1, <3>2
  <2>5. result[x] # Nothing => result[x] <= data + 1
    <3>1. result[x] \in Nat \cup {Nothing}
      BY <2>1
    <3>2. QED
      BY <1>2, <2>3, <3>1
  <2>6. QED
    BY <2>4, <2>5
<1>11. QED
  BY <1>6, <1>7, <1>8, <1>9, <1>10 DEF Turns

-----------------------------------------------------------------------------
LEMMA InitTurns == SourceInit => TurnsInv
<1> SUFFICES ASSUME SourceInit PROVE TurnsInv
  OBVIOUS
<1>1. /\ data = 0 /\ read = 0
      /\ \A w \in Waits :
            /\ blob[w] = Nothing /\ slot[w] = Nothing /\ result[w] = Nothing
            /\ phase[w] = "idle"
  BY ReaderAssumption DEF SourceInit, ReaderInit, Init
<1>2. ReaderTypeOK
  BY DEF SourceInit, ReaderInit, ReaderTypeOK
<1>3. ASSUME NEW c \in Consumers PROVE Turns(c)
  <2>1. EarlierAreAnswered(c)
    BY <1>1, WaitsHaveFrames DEF EarlierAreAnswered
  <2>2. TakenInTurn(c) /\ StreamInTurn(c)
    BY <1>1 DEF TakenInTurn, StreamInTurn, Taken
  <2>3. OnlyMine(c) /\ WokenEarlier
    BY <1>1 DEF OnlyMine, WokenEarlier
  <2>4. QED
    BY <2>1, <2>2, <2>3 DEF Turns
<1>4. QED
  BY <1>2, <1>3 DEF TurnsInv, Turns

LEMMA StepTurns == IInv /\ TurnsInv /\ [SourceNext]_allVars => TurnsInv'
<1> SUFFICES ASSUME IInv, TurnsInv, [SourceNext]_allVars PROVE TurnsInv'
  OBVIOUS
<1>1. ReaderTypeOK
  BY DEF TurnsInv
<1>2. UNCHANGED users
  <2>1. ReaderStep => UNCHANGED users
    BY DEF ReaderStep, StartPull, AwaitTurn, TakeBlob, MeetEof, Answer, readerVars
  <2>2. QED
    BY <2>1, OthersOnlyAsk
<1>3. ReaderTypeOK'
  <2>1. CASE ReaderStep
    BY <1>1, <2>1, ReaderKeepsTypes
  <2>2. CASE UNCHANGED <<vars, kind, users, length, bad, read, blob, got>>
    BY <1>1, <2>2 DEF ReaderTypeOK
  <2>3. QED
    BY <2>1, <2>2, OthersOnlyAsk
<1>4. ASSUME NEW c \in Consumers, users = {c} PROVE Turns(c)'
  <2>1. Turns(c)
    BY <1>4 DEF TurnsInv, Turns
  <2>2. CASE ReaderStep
    <3>1. CASE \E f \in Frames : StartPull(c, f)
      BY <1>1, <1>4, <2>1, <3>1, StartKeepsTurns
    <3>2. CASE \E w \in Waits : AwaitTurn(w) \/ TakeBlob(w)
      BY <1>1, <1>4, <2>1, <3>2, AwaitKeepsTurns, TakeKeepsTurns
    <3>3. CASE \E w \in Waits : MeetEof(w) \/ Answer(w)
      BY <1>1, <1>4, <2>1, <3>3, EofKeepsTurns, AnswerKeepsTurns
    <3>4. QED
      BY <1>4, <2>2, <3>1, <3>2, <3>3 DEF ReaderStep
  <2>3. CASE UNCHANGED <<vars, kind, users, length, bad, read, blob, got>>
    BY <2>1, <2>3
       DEF vars, Turns, EarlierAreAnswered, TakenInTurn, StreamInTurn, OnlyMine, WokenEarlier,
           Mine, PullOf, Taken
  <2>4. QED
    BY <2>2, <2>3, OthersOnlyAsk
<1>5. QED
  BY <1>2, <1>3, <1>4 DEF TurnsInv, Turns

(* With a single consumer, frame f is the stream's blob f: for any length  *)
(* of the stream, any blobs that are empty, and any order its pulls are    *)
(* started, polled and answered in.                                        *)
THEOREM SingleConsumerInTurn == SourceSpec => []FramesMatchBlobs
<1>1. IInv /\ TurnsInv => FramesMatchBlobs
  <2> SUFFICES ASSUME TurnsInv, Cardinality(users) = 1, NEW w \in Waits, blob[w] # Nothing
               PROVE  blob[w] = w.frame
    BY DEF FramesMatchBlobs
  <2>1. users \subseteq Consumers /\ IsFiniteSet(users)
    BY ReaderAssumption, FS_Subset DEF TurnsInv, ReaderTypeOK
  <2>2. PICK c : users = {c}
    BY <2>1, FS_Singleton
  <2>3. QED
    BY <2>1, <2>2 DEF TurnsInv, TakenInTurn, Taken
<1>2. SourceSpec => []TurnsInv
  <2>1. IInv /\ ReaderTypeOK /\ TurnsInv /\ [SourceNext]_allVars => TurnsInv'
    BY StepTurns
  <2>2. QED
    BY <2>1, InitTurns, SourceUsesNotifier, PTL DEF SourceSpec
<1>3. QED
  BY <1>1, <1>2, SourceUsesNotifier, PTL

-----------------------------------------------------------------------------
(* Average.  A pull that has been answered stays answered as it was, so    *)
(* that the window can be followed by the answers alone.                   *)
LEMMA AnswersStay ==
  ASSUME ReaderTypeOK, averaging, Cardinality(users) = 1, [SourceNext]_allVars
  PROVE  \A f \in Frames : AnswerTo(f) # Nothing => AnswerTo(f)' = AnswerTo(f)
<1> SUFFICES ASSUME NEW f \in Frames, AnswerTo(f) # Nothing
             PROVE  AnswerTo(f)' = AnswerTo(f)
  OBVIOUS
<1>1. users \subseteq Consumers /\ IsFiniteSet(users)
  BY ReaderAssumption, FS_Subset DEF ReaderTypeOK
<1>2. PICK c : users = {c}
  BY <1>1, FS_Singleton
<1>3. TheConsumer = c
  BY <1>2 DEF TheConsumer
<1> DEFINE p == PullOf(c, f)
<1>4. p \in Waits
  BY <1>2, PullsAreWaits
<1>5. UNCHANGED <<kind, users>>
  <2>1. ReaderStep => UNCHANGED <<kind, users>>
    BY DEF ReaderStep, StartPull, AwaitTurn, TakeBlob, MeetEof, Answer, readerVars
  <2>2. QED
    BY <2>1, OthersOnlyAsk
<1>6. AnswerTo(f) = got[p] /\ AnswerTo(f)' = got'[p]
  BY <1>2, <1>3, <1>5 DEF AnswerTo, Answers, PullOf, TheConsumer
<1>7. got'[p] = got[p]
  <2>1. ASSUME NEW w \in Waits, MeetEof(w) \/ Answer(w) PROVE got'[p] = got[p]
    <3>1. w # p
      BY <1>6, <2>1 DEF MeetEof, Answer
    <3>2. QED
      BY <1>4, <2>1, <3>1 DEF MeetEof, Answer, ReaderTypeOK
  <2>2. ReaderStep => got'[p] = got[p]
    BY <2>1 DEF ReaderStep, StartPull, AwaitTurn, TakeBlob, readerVars
  <2>3. QED
    BY <2>2, OthersOnlyAsk
<1>8. QED
  BY <1>6, <1>7

(* The pulls a step of Average answers: none.                              *)
LEMMA AverageAnswersNothing ==
  ASSUME AverageStep
  PROVE  /\ UNCHANGED <<kind, users, got>>
         /\ \A f : AnswerTo(f)' = AnswerTo(f)
<1>1. ASSUME NEW f \in Frames, TakeResult(f) PROVE UNCHANGED <<kind, users, got>>
  BY <1>1 DEF TakeResult, AskFor, readerVars
<1>2. ASSUME NEW f \in Frames, NEW k \in Chunks, AddToChunk(f, k) PROVE UNCHANGED <<kind, users, got>>
  BY <1>2 DEF AddToChunk, readerVars
<1>3. ASSUME BeginAverage \/ FirstFails \/ FirstRefused \/ FirstAnswers \/ AnswerAverage
      PROVE UNCHANGED <<kind, users, got>>
  BY <1>3 DEF BeginAverage, FirstFails, FirstRefused, FirstAnswers, AnswerAverage, AskFor, readerVars
<1>4. UNCHANGED <<kind, users, got>>
  BY <1>1, <1>2, <1>3 DEF AverageStep
<1>5. QED
  BY <1>4 DEF AnswerTo, Answers, PullOf, TheConsumer

LEMMA InitAverageInv == SourceInit => AverageInv
<1> SUFFICES ASSUME SourceInit PROVE AverageInv
  OBVIOUS
<1>1. /\ averaging \in BOOLEAN /\ (averaging => Cardinality(users) = 1)
      /\ phaseOf = "waiting" /\ frame = 0 /\ n = 0 /\ limit = 0 /\ next = 0 /\ spawned = 0
      /\ offset = 0 /\ tasks = {} /\ added = [k \in Chunks |-> {}] /\ made = <<>>
  BY DEF SourceInit
<1>2. Len(made) = 0 /\ made \in Seq([Chunks -> SUBSET Nat])
  BY <1>1
<1>3. Floor = 0
  BY <1>1, SourceAssumption DEF Floor
<1>4. AverageTypeOK
  BY <1>1, <1>2, <1>3 DEF AverageTypeOK
<1>5. MadeInOrder /\ Settled /\ WindowIsFilled
  BY <1>1, <1>2, <1>3 DEF MadeInOrder, Settled, WindowIsFilled
<1>6. QED
  BY <1>4, <1>5 DEF AverageInv

(* Steps of the reader and of pullers only answer further pulls.           *)
LEMMA AnswersKeepAverageInv ==
  ASSUME AverageInv, ReaderTypeOK, [SourceNext]_allVars, UNCHANGED <<averageVars, users>>
  PROVE  AverageInv'
<1>1. UNCHANGED <<averaging, phaseOf, frame, n, limit, next, spawned, offset, tasks, added, made>>
  BY DEF averageVars
<1>2. Floor' = Floor /\ First' = First /\ Spawned' = Spawned
  BY <1>1 DEF Floor, First, Spawned
<1>3. AverageTypeOK' /\ MadeInOrder'
  BY <1>1, <1>2 DEF AverageInv, AverageTypeOK, MadeInOrder
<1>4. CASE averaging
  <2>1. \A f \in Frames : AnswerTo(f) # Nothing => AnswerTo(f)' = AnswerTo(f)
    BY <1>4, AnswersStay DEF AverageInv, AverageTypeOK
  <2>2. Settled'
    BY <1>1, <1>2, <2>1, ReaderAssumption DEF AverageInv, Settled
  <2>3. WindowIsFilled'
    <3> SUFFICES ASSUME phaseOf = "adding" PROVE WindowIsFilled'
      BY <1>1 DEF WindowIsFilled
    <3>1. \A f \in Spawned \ tasks : f \in Frames /\ AnswerTo(f) # Nothing
      BY DEF AverageInv, WindowIsFilled
    <3>2. Failures' = Failures
      BY <1>1, <1>2, <2>1, <3>1 DEF Failures
    <3>3. \A f \in Spawned \ tasks : AnswerTo(f)' = AnswerTo(f)
      BY <2>1, <3>1
    <3>4. \A k \in Chunks : \A f \in added[k] : IsFrame(AnswerTo(f)) => AnswerTo(f)' = AnswerTo(f)
      BY <2>1 DEF AverageInv, WindowIsFilled, IsFrame
    <3>5. QED
      BY <1>1, <1>2, <3>2, <3>3, <3>4 DEF AverageInv, WindowIsFilled, IsFrame
  <2>4. QED
    BY <1>3, <2>2, <2>3 DEF AverageInv
<1>5. CASE ~averaging
  <2>1. phaseOf = "waiting" /\ Floor = 0
    BY <1>5 DEF AverageInv, AverageTypeOK
  <2>2. QED
    BY <1>1, <1>2, <1>3, <2>1 DEF AverageInv, Settled, WindowIsFilled
<1>6. QED
  BY <1>4, <1>5

-----------------------------------------------------------------------------
LEMMA ChunksHaveFrames ==
  ASSUME AverageTypeOK
  PROVE  /\ 1 \in Chunks /\ Len(made) \in Nat
         /\ \A i \in 1..Len(made), k \in Chunks : made[i][k] \in SUBSET Nat
<1>1. 1 \in Chunks
  BY SourceAssumption DEF Chunks
<1>2. \A i \in 1..Len(made) : made[i] \in [Chunks -> SUBSET Nat]
  BY DEF AverageTypeOK
<1>3. QED
  BY <1>1, <1>2 DEF AverageTypeOK

(* One step of Average after the other.                                    *)
LEMMA BeginKeepsAverageInv ==
  ASSUME AverageInv, BeginAverage
  PROVE  AverageInv'
<1>1. /\ averaging /\ phaseOf = "waiting" /\ phaseOf' = "first"
      /\ n' = NumFrames * frame + offset /\ n' \in Frames
      /\ UNCHANGED <<averaging, frame, limit, next, spawned, offset, tasks, added, made, users>>
  BY DEF BeginAverage, AskFor
<1>2. Floor' = Floor /\ n' = Floor /\ n' \in Nat
  BY <1>1 DEF Floor, AverageInv, AverageTypeOK
<1>3. \A f : AnswerTo(f)' = AnswerTo(f)
  BY AverageAnswersNothing DEF AverageStep
<1>4. AverageTypeOK'
  BY <1>1, <1>2 DEF AverageInv, AverageTypeOK
<1>5. (MadeInOrder /\ Settled /\ WindowIsFilled)'
  BY <1>1, <1>2, <1>3 DEF AverageInv, MadeInOrder, Settled, WindowIsFilled
<1>6. QED
  BY <1>4, <1>5 DEF AverageInv

LEMMA FirstFailsKeepsAverageInv ==
  ASSUME AverageInv, FirstFails
  PROVE  AverageInv'
<1>1. /\ phaseOf = "first" /\ AnswerTo(n) = Failed /\ n' = n + 1 /\ n + 1 \in Frames
      /\ UNCHANGED <<averaging, phaseOf, frame, limit, next, spawned, offset, tasks, added, made,
                     users>>
  BY DEF FirstFails, AskFor
<1>2. Floor = n /\ Floor' = n + 1 /\ n \in Nat
  BY <1>1 DEF Floor, AverageInv, AverageTypeOK
<1>3. \A f : AnswerTo(f)' = AnswerTo(f)
  BY AverageAnswersNothing DEF AverageStep
<1>4. AverageTypeOK'
  BY <1>1, <1>2 DEF AverageInv, AverageTypeOK
<1>5. MadeInOrder'
  <2>1. \A i \in 1..Len(made) : \A a \in made[i][1] : a \in Nat /\ a < n
    BY <1>2, ChunksHaveFrames DEF AverageInv, MadeInOrder
  <2>2. \A i \in 1..Len(made) : \A a \in made[i][1] : a < n + 1
    BY <1>2, <2>1
  <2>3. QED
    BY <1>1, <1>2, <2>2 DEF AverageInv, MadeInOrder
<1>6. Settled'
  <2> SUFFICES ASSUME NEW f \in 0..n
               PROVE  f \in Frames /\ (AnswerTo(f) = Failed \/ \E j \in 1..Len(made) : f \in made[j][1])
    BY <1>1, <1>2, <1>3 DEF Settled
  <2>1. CASE f = n
    BY <1>1, <2>1 DEF AverageInv, AverageTypeOK
  <2>2. CASE f # n
    <3>1. f \in 0..(Floor - 1)
      BY <1>2, <2>2
    <3>2. QED
      BY <3>1 DEF AverageInv, Settled
  <2>3. QED
    BY <2>1, <2>2
<1>7. QED
  BY <1>1, <1>4, <1>5, <1>6 DEF AverageInv, WindowIsFilled

LEMMA FirstRefusedKeepsAverageInv ==
  ASSUME AverageInv, FirstRefused
  PROVE  AverageInv'
<1>1. /\ phaseOf = "first" /\ phaseOf' = "refused"
      /\ UNCHANGED <<averaging, frame, n, limit, next, spawned, offset, tasks, added, made, users>>
  BY DEF FirstRefused, readerVars
<1>2. Floor' = Floor
  BY <1>1 DEF Floor
<1>3. \A f : AnswerTo(f)' = AnswerTo(f)
  BY AverageAnswersNothing DEF AverageStep
<1>4. AverageTypeOK'
  BY <1>1, <1>2 DEF AverageInv, AverageTypeOK
<1>5. (MadeInOrder /\ Settled /\ WindowIsFilled)'
  BY <1>1, <1>2, <1>3 DEF AverageInv, MadeInOrder, Settled, WindowIsFilled
<1>6. QED
  BY <1>4, <1>5 DEF AverageInv

LEMMA FirstAnswersKeepsAverageInv ==
  ASSUME AverageInv, FirstAnswers
  PROVE  AverageInv'
<1>1. /\ phaseOf = "first" /\ IsFrame(AnswerTo(n)) /\ phaseOf' = "adding"
      /\ added' = [k \in Chunks |-> {n}]
      /\ tasks' = (n + 1)..(n + to_spawn - 1)
      /\ spawned' = to_spawn /\ limit' = NumFrames /\ next' = n + to_spawn
      /\ UNCHANGED <<averaging, frame, n, offset, made, users>>
  BY DEF FirstAnswers, AskFor
<1>2. n \in Nat /\ n \in Frames /\ NumFrames \in Nat \ {0} /\ Cpus \in Nat \ {0}
  BY <1>1, SourceAssumption DEF AverageInv, AverageTypeOK
<1>3. to_spawn \in Nat \ {0} /\ to_spawn <= NumFrames /\ (to_spawn < NumFrames => to_spawn > 1)
  BY <1>2 DEF to_spawn
<1>4. First' = n /\ Floor' = n /\ Floor = n
  BY <1>1, <1>2 DEF First, Floor
<1>5. Spawned' = n..(n + to_spawn - 1)
  <2>1. Spawned' = First'..(next' - 1)
    BY DEF Spawned, First
  <2>2. QED
    BY <1>1, <1>2, <1>3, <1>4, <2>1
<1>6. \A f : AnswerTo(f)' = AnswerTo(f)
  BY AverageAnswersNothing DEF AverageStep
<1>7. AverageTypeOK'
  <2>1. tasks' \in SUBSET Nat /\ added' \in [Chunks -> SUBSET Nat]
    BY <1>1, <1>2, <1>3
  <2>2. next' \in Nat /\ spawned' \in Nat /\ limit' \in Nat
    BY <1>1, <1>2, <1>3
  <2>3. QED
    BY <1>1, <1>2, <1>4, <2>1, <2>2 DEF AverageInv, AverageTypeOK
<1>8. MadeInOrder' /\ Settled'
  BY <1>1, <1>4, <1>6 DEF AverageInv, MadeInOrder, Settled
<1>9. WindowIsFilled'
  <2>1. \A f \in Spawned' \ tasks' : f = n
    BY <1>1, <1>2, <1>3, <1>5
  <2>2. Failures' = {}
    BY <1>1, <1>6, <2>1 DEF Failures, IsFrame
  <2>3. Cardinality(Failures') = limit' - NumFrames
    BY <1>1, <1>2, <2>2, FS_EmptySet
  <2>4. /\ next' = First' + spawned' /\ spawned' <= limit'
        /\ tasks' \subseteq (First' + 1)..(next' - 1)
    BY <1>1, <1>2, <1>3, <1>4
  <2>5. spawned' < limit' => n + 1 \in tasks'
    BY <1>1, <1>2, <1>3
  <2>6. n \in Spawned'
    BY <1>2, <1>3, <1>5
  <2>7. \A f \in Spawned' \ tasks' :
            /\ f \in Frames /\ AnswerTo(f)' # Nothing
            /\ \A k \in Chunks : f \in added'[k]
    BY <1>1, <1>2, <1>6, <2>1 DEF IsFrame
  <2>8. \A k \in Chunks : \A f \in added'[k] :
            f \in Spawned' /\ f \in Frames /\ AnswerTo(f)' \notin {Nothing, Failed}
    BY <1>1, <1>2, <1>6, <2>6 DEF IsFrame
  <2>9. QED
    BY <2>3, <2>4, <2>5, <2>7, <2>8 DEF WindowIsFilled, IsFrame, Chunks
<1>10. QED
  BY <1>7, <1>8, <1>9 DEF AverageInv

LEMMA AddKeepsAverageInv ==
  ASSUME AverageInv, NEW f \in Frames, NEW k \in Chunks, AddToChunk(f, k)
  PROVE  AverageInv'
<1>1. /\ f \in tasks /\ IsFrame(AnswerTo(f))
      /\ added' = [added EXCEPT ![k] = @ \cup {f}]
      /\ UNCHANGED <<averaging, phaseOf, frame, n, limit, next, spawned, offset, tasks, made, users>>
  BY DEF AddToChunk, readerVars
<1>2. added \in [Chunks -> SUBSET Nat] /\ tasks \subseteq Nat /\ phaseOf = "adding"
  BY <1>1 DEF AverageInv, AverageTypeOK
<1>3. Floor' = Floor /\ First' = First /\ Spawned' = Spawned
  BY <1>1 DEF Floor, First, Spawned
<1>4. \A g : AnswerTo(g)' = AnswerTo(g)
  BY AverageAnswersNothing DEF AverageStep
<1>5. \A j \in Chunks : added'[j] = IF j = k THEN added[j] \cup {f} ELSE added[j]
  BY <1>1, <1>2
<1>6. AverageTypeOK'
  <2>1. added' \in [Chunks -> SUBSET Nat]
    BY <1>1, <1>2
  <2>2. QED
    BY <1>1, <1>3, <2>1 DEF AverageInv, AverageTypeOK
<1>7. MadeInOrder' /\ Settled'
  BY <1>1, <1>3, <1>4 DEF AverageInv, MadeInOrder, Settled
<1>8. WindowIsFilled'
  <2>1. Failures' = Failures
    BY <1>1, <1>3, <1>4 DEF Failures
  <2>2. f \in Spawned
    <3>1. First \in Int /\ next \in Nat
      BY SourceAssumption DEF First, AverageInv, AverageTypeOK
    <3>2. f \in (First + 1)..(next - 1)
      BY <1>1, <1>2 DEF AverageInv, WindowIsFilled
    <3>3. QED
      BY <3>1, <3>2 DEF Spawned
  <2>3. \A j \in Chunks : \A g \in added'[j] :
            g \in Spawned /\ g \in Frames /\ IsFrame(AnswerTo(g))
    BY <1>1, <1>2, <1>5, <2>2 DEF AverageInv, WindowIsFilled
  <2>4. \A g \in Spawned \ tasks :
            /\ g \in Frames /\ AnswerTo(g) # Nothing
            /\ IsFrame(AnswerTo(g)) => \A j \in Chunks : g \in added'[j]
    BY <1>2, <1>5 DEF AverageInv, WindowIsFilled
  <2>5. QED
    BY <1>1, <1>2, <1>3, <1>4, <2>1, <2>3, <2>4
       DEF AverageInv, WindowIsFilled, IsFrame, Chunks
<1>9. QED
  BY <1>6, <1>7, <1>8 DEF AverageInv

LEMMA TakeResultKeepsAverageInv ==
  ASSUME AverageInv, ReaderTypeOK, NEW f \in Frames, TakeResult(f)
  PROVE  AverageInv'
<1> DEFINE failed == AnswerTo(f) = Failed
           limitNow == IF failed THEN limit + 1 ELSE limit
<1>1. /\ f \in tasks /\ Finished(f)
      /\ limit' = limitNow /\ n' = (IF failed THEN n + 1 ELSE n)
      /\ UNCHANGED <<averaging, phaseOf, frame, offset, added, made, users>>
  BY DEF TakeResult, AskFor, readerVars
<1>2. /\ n \in Nat /\ limit \in Nat /\ next \in Nat /\ spawned \in Nat /\ tasks \subseteq Nat
      /\ phaseOf = "adding" /\ NumFrames \in Nat \ {0}
      /\ n' \in Nat /\ limit' \in Nat
  BY <1>1, SourceAssumption DEF AverageInv, AverageTypeOK
<1>3. First' = First /\ First \in Nat
  <2>1. First \in Nat
    BY <1>2 DEF AverageInv, AverageTypeOK, Floor
  <2>2. First' = n' + NumFrames - limit'
    BY DEF First
  <2>3. QED
    BY <1>1, <1>2, <2>1, <2>2 DEF First
<1>4. Floor' = Floor
  BY <1>1, <1>2, <1>3 DEF Floor
<1>5. \A g : AnswerTo(g)' = AnswerTo(g)
  BY AverageAnswersNothing DEF AverageStep
<1>6. /\ next = First + spawned /\ spawned <= limit
      /\ tasks \subseteq (First + 1)..(next - 1)
  BY <1>2 DEF AverageInv, WindowIsFilled
<1>7. \/ /\ spawned < limitNow /\ spawned' = spawned + 1 /\ next' = next + 1
         /\ tasks' = (tasks \ {f}) \cup {next}
      \/ /\ ~(spawned < limitNow) /\ spawned' = spawned /\ next' = next
         /\ tasks' = tasks \ {f}
  BY DEF TakeResult
<1>8. spawned' \in Nat /\ next' \in Nat /\ tasks' \in SUBSET Nat
  <2>1. CASE spawned < limitNow
    <3>1. spawned' = spawned + 1 /\ next' = next + 1 /\ tasks' = (tasks \ {f}) \cup {next}
      BY <1>7, <2>1
    <3>2. spawned' \in Nat /\ next' \in Nat
      BY <1>2, <3>1
    <3>3. ASSUME NEW t \in tasks' PROVE t \in Nat
      <4>1. t \in tasks \/ t = next
        BY <3>1
      <4>2. QED
        BY <1>2, <4>1
    <3>4. QED
      BY <3>2, <3>3
  <2>2. CASE ~(spawned < limitNow)
    BY <1>2, <1>7, <2>2
  <2>3. QED
    BY <2>1, <2>2
<1>9. AverageTypeOK'
  BY <1>1, <1>2, <1>4, <1>8 DEF AverageInv, AverageTypeOK
<1>10. MadeInOrder' /\ Settled'
  BY <1>1, <1>4, <1>5 DEF AverageInv, MadeInOrder, Settled
<1>11. Spawned' \ tasks' = (Spawned \ tasks) \cup {f}
  <2>1. Spawned' = First..(next' - 1) /\ Spawned = First..(next - 1)
    BY <1>3 DEF Spawned
  <2>2. f \in (First + 1)..(next - 1)
    BY <1>1, <1>6
  <2>3. QED
    BY <1>1, <1>2, <1>3, <1>6, <1>7, <2>1, <2>2
<1>12. Cardinality(Failures)' = limit' - NumFrames
  <2>1. Failures' = Failures \cup (IF failed THEN {f} ELSE {})
    <3>1. Failures' = {g \in Spawned' \ tasks' : AnswerTo(g) = Failed}
      BY <1>5 DEF Failures
    <3>2. QED
      BY <1>11, <3>1 DEF Failures
  <2>2. f \notin Failures
    BY <1>1 DEF Failures
  <2>3. IsFiniteSet(Failures) /\ Cardinality(Failures) \in Nat
    <3>1. IsFiniteSet(Spawned)
      BY <1>2, <1>3, FS_Interval DEF Spawned
    <3>2. QED
      BY <3>1, FS_Subset, FS_CardinalityType DEF Failures
  <2>4. Cardinality(Failures) = limit - NumFrames
    BY <1>2 DEF AverageInv, WindowIsFilled
  <2>5. CASE failed
    <3>1. Cardinality(Failures \cup {f}) = Cardinality(Failures) + 1
      BY <2>2, <2>3, FS_AddElement
    <3>2. Failures' = Failures \cup {f}
      BY <2>1, <2>5
    <3>3. QED
      BY <1>1, <1>2, <2>4, <2>5, <3>1, <3>2
  <2>6. CASE ~failed
    BY <1>1, <2>1, <2>4, <2>6
  <2>7. QED
    BY <2>5, <2>6
<1>13. WindowIsFilled'
  <2>1. next' = First' + spawned' /\ spawned' <= limit'
    BY <1>1, <1>2, <1>3, <1>6, <1>7
  <2>2. tasks' \subseteq (First' + 1)..(next' - 1)
    <3>1. spawned > 0
      BY <1>1, <1>2, <1>3, <1>6
    <3>2. next \in (First + 1)..next
      BY <1>2, <1>3, <1>6, <3>1
    <3>3. CASE spawned < limitNow
      <4>1. next' = next + 1 /\ tasks' = (tasks \ {f}) \cup {next}
        BY <1>7, <3>3
      <4>2. ASSUME NEW t \in tasks' PROVE t \in (First + 1)..next
        <5>1. t = next \/ t \in (First + 1)..(next - 1)
          BY <1>6, <4>1
        <5>2. QED
          BY <1>2, <1>3, <3>2, <5>1
      <4>3. First' = First /\ next' - 1 = next
        BY <1>2, <1>3, <4>1
      <4>4. QED
        BY <4>2, <4>3
    <3>4. CASE ~(spawned < limitNow)
      BY <1>3, <1>6, <1>7, <3>4
    <3>5. QED
      BY <3>3, <3>4
  <2>3. spawned' < limit' => tasks' # {}
    BY <1>1, <1>7
  <2>4. \A g \in Spawned' \ tasks' :
            /\ g \in Frames /\ AnswerTo(g) # Nothing
            /\ IsFrame(AnswerTo(g)) => \A k \in Chunks : g \in added[k]
    <3>1. f \in Frames /\ AnswerTo(f) # Nothing
      BY <1>1, ReaderAssumption DEF Finished, IsFrame
    <3>2. IsFrame(AnswerTo(f)) => \A k \in Chunks : f \in added[k]
      BY <1>1 DEF Finished, IsFrame
    <3>3. QED
      BY <1>2, <1>11, <3>1, <3>2 DEF AverageInv, WindowIsFilled
  <2>5. \A k \in Chunks : \A g \in added[k] :
            g \in Spawned' /\ g \in Frames /\ IsFrame(AnswerTo(g))
    <3>1. Spawned \subseteq Spawned'
      <4>1. Spawned' = First..(next' - 1) /\ Spawned = First..(next - 1)
        BY <1>3 DEF Spawned
      <4>2. QED
        BY <1>2, <1>3, <1>7, <4>1
    <3>2. QED
      BY <1>2, <3>1 DEF AverageInv, WindowIsFilled
  <2>6. QED
    BY <1>1, <1>5, <1>12, <2>1, <2>2, <2>3, <2>4, <2>5 DEF WindowIsFilled, IsFrame, Chunks
<1>14. QED
  BY <1>9, <1>10, <1>13 DEF AverageInv

(* All tasks are through: what was spawned and did not fail is in every    *)
(* chunk, and that is NumFrames frames.                                    *)
LEMMA AverageIsFull ==
  ASSUME AverageInv, phaseOf = "adding", tasks = {}
  PROVE  /\ next = First + limit /\ First \in Nat
         /\ \A k \in Chunks : added[k] = Spawned \ Failures
         /\ Cardinality(Spawned \ Failures) = NumFrames
<1>1. /\ n \in Nat /\ limit \in Nat /\ next \in Nat /\ spawned \in Nat /\ NumFrames \in Nat
      /\ First \in Nat
  BY SourceAssumption DEF AverageInv, AverageTypeOK, Floor
<1>2. next = First + limit
  BY <1>1 DEF AverageInv, WindowIsFilled
<1>3. ASSUME NEW k \in Chunks PROVE added[k] = Spawned \ Failures
  <2>1. \A f \in Spawned : AnswerTo(f) # Nothing /\ (IsFrame(AnswerTo(f)) => f \in added[k])
    BY <1>3 DEF AverageInv, WindowIsFilled
  <2>2. \A f \in added[k] : f \in Spawned /\ IsFrame(AnswerTo(f))
    BY <1>3 DEF AverageInv, WindowIsFilled
  <2>3. \A f \in Spawned : f \in Failures <=> AnswerTo(f) = Failed
    BY DEF Failures
  <2>4. QED
    BY <2>1, <2>2, <2>3 DEF IsFrame
<1>4. IsFiniteSet(Spawned) /\ Cardinality(Spawned) = limit
  <2>1. next - 1 \in Int /\ First \in Int
    BY <1>1
  <2>2. Cardinality(Spawned) = IF First > next - 1 THEN 0 ELSE (next - 1) - First + 1
    BY <2>1, FS_Interval DEF Spawned
  <2>3. QED
    BY <1>1, <1>2, <2>1, <2>2, FS_Interval DEF Spawned
<1>5. Cardinality(Spawned \ Failures) = limit - (limit - NumFrames)
  <2>1. Spawned \cap Failures = Failures
    BY DEF Failures
  <2>2. Cardinality(Spawned \ Failures) = Cardinality(Spawned) - Cardinality(Spawned \cap Failures)
    BY <1>4, FS_Difference
  <2>3. Cardinality(Failures) = limit - NumFrames
    BY DEF AverageInv, WindowIsFilled
  <2>4. QED
    BY <1>4, <2>1, <2>2, <2>3
<1>6. QED
  BY <1>1, <1>2, <1>3, <1>5

LEMMA AnswerAverageKeepsAverageInv ==
  ASSUME AverageInv, AnswerAverage
  PROVE  AverageInv'
<1> DEFINE full == Spawned \ Failures
<1>1. /\ phaseOf = "adding" /\ tasks = {} /\ phaseOf' = "waiting"
      /\ made' = Append(made, added)
      /\ offset' = n - NumFrames * frame /\ frame' = frame + 1
      /\ UNCHANGED <<averaging, n, limit, next, spawned, tasks, added, users>>
  BY DEF AnswerAverage, readerVars
<1>2. /\ next = First + limit /\ First \in Nat
      /\ \A k \in Chunks : added[k] = full
      /\ Cardinality(full) = NumFrames
  BY <1>1, AverageIsFull
<1>3. /\ n \in Nat /\ limit \in Nat /\ next \in Nat /\ frame \in Nat
      /\ NumFrames \in Nat \ {0}
      /\ made \in Seq([Chunks -> SUBSET Nat]) /\ added \in [Chunks -> SUBSET Nat]
  BY SourceAssumption DEF AverageInv, AverageTypeOK
<1>4. Floor = First /\ Floor' = next /\ First <= next
  <2>1. Floor' = NumFrames * (frame + 1) + (n - NumFrames * frame)
    BY <1>1 DEF Floor
  <2>2. NumFrames * frame \in Nat /\ NumFrames * (frame + 1) = NumFrames * frame + NumFrames
    BY <1>3
  <2>3. Floor' = n + NumFrames
    BY <1>3, <2>1, <2>2
  <2>4. Floor = First
    BY <1>1 DEF Floor
  <2>5. QED
    BY <1>2, <1>3, <2>3, <2>4 DEF First
<1>5. \A f : AnswerTo(f)' = AnswerTo(f)
  BY AverageAnswersNothing DEF AverageStep
<1>6. /\ made' \in Seq([Chunks -> SUBSET Nat]) /\ Len(made') = Len(made) + 1
      /\ Len(made) \in Nat
      /\ made'[Len(made) + 1] = added
      /\ \A i \in 1..Len(made) : made'[i] = made[i]
  BY <1>1, <1>3
<1>7. 1 \in Chunks /\ \A i \in 1..Len(made) : made[i][1] \subseteq Nat
  BY ChunksHaveFrames DEF AverageInv
<1>8. \A f \in full : f \in Nat /\ First <= f /\ f < next
  BY <1>2, <1>3 DEF Spawned
<1>9. AverageTypeOK'
  <2>1. frame' \in Nat /\ offset' \in Int
    BY <1>1, <1>3
  <2>2. averaging
    BY <1>1 DEF AverageInv, AverageTypeOK
  <2>3. QED
    BY <1>1, <1>3, <1>4, <1>6, <2>1, <2>2 DEF AverageInv, AverageTypeOK
<1>10. MadeInOrder'
  <2> SUFFICES ASSUME NEW i \in 1..Len(made')
               PROVE  /\ \A k \in Chunks : made'[i][k] = made'[i][1]
                      /\ Cardinality(made'[i][1]) = NumFrames
                      /\ \A j \in 1..(i - 1) : \A a \in made'[j][1], b \in made'[i][1] : a < b
                      /\ \A a \in made'[i][1] : a < next
    BY <1>4 DEF MadeInOrder
  <2>1. CASE i = Len(made) + 1
    <3>1. made'[i] = added /\ made'[i][1] = full
      BY <1>2, <1>6, <1>7, <2>1
    <3>2. ASSUME NEW j \in 1..(i - 1), NEW a \in made'[j][1], NEW b \in full PROVE a < b
      <4>1. j \in 1..Len(made) /\ a \in made[j][1]
        BY <1>6, <2>1, <3>2
      <4>2. a < First /\ a \in Nat
        BY <1>4, <1>7, <4>1 DEF AverageInv, MadeInOrder
      <4>3. QED
        BY <1>2, <1>8, <4>2
    <3>3. QED
      BY <1>2, <1>8, <3>1, <3>2
  <2>2. CASE i # Len(made) + 1
    <3>1. i \in 1..Len(made) /\ made'[i] = made[i]
      BY <1>6, <2>2
    <3>2. \A j \in 1..(i - 1) : made'[j] = made[j]
      BY <1>6, <3>1
    <3>3. ASSUME NEW a \in made[i][1] PROVE a < next
      <4>1. a < First /\ a \in Nat
        BY <1>4, <1>7, <3>1 DEF AverageInv, MadeInOrder
      <4>2. QED
        BY <1>2, <1>3, <1>4, <4>1
    <3>4. QED
      BY <3>1, <3>2, <3>3 DEF AverageInv, MadeInOrder
  <2>3. QED
    BY <2>1, <2>2
<1>11. Settled'
  <2> SUFFICES ASSUME NEW f \in 0..(next - 1)
               PROVE  /\ f \in Frames
                      /\ AnswerTo(f) = Failed \/ \E j \in 1..Len(made') : f \in made'[j][1]
    BY <1>4, <1>5 DEF Settled
  <2>1. CASE f < First
    <3>1. f \in 0..(Floor - 1)
      BY <1>2, <1>4, <2>1
    <3>2. f \in Frames /\ (AnswerTo(f) = Failed \/ \E j \in 1..Len(made) : f \in made[j][1])
      BY <3>1 DEF AverageInv, Settled
    <3>3. QED
      BY <1>6, <3>2
  <2>2. CASE f >= First
    <3>1. f \in Spawned
      BY <1>2, <1>3, <2>2 DEF Spawned
    <3>2. f \in Frames
      BY <1>1, <3>1 DEF AverageInv, WindowIsFilled
    <3>3. AnswerTo(f) # Failed => f \in full
      BY <3>1 DEF Failures
    <3>4. made'[Len(made) + 1][1] = full /\ Len(made) + 1 \in 1..Len(made')
      BY <1>2, <1>6, <1>7
    <3>5. QED
      BY <3>2, <3>3, <3>4
  <2>3. QED
    BY <1>2, <2>1, <2>2
<1>12. WindowIsFilled'
  BY <1>1 DEF WindowIsFilled
<1>13. QED
  BY <1>9, <1>10, <1>11, <1>12 DEF AverageInv

LEMMA StepAverageInv == ReaderTypeOK /\ AverageInv /\ [SourceNext]_allVars => AverageInv'
<1> SUFFICES ASSUME ReaderTypeOK, AverageInv, [SourceNext]_allVars PROVE AverageInv'
  OBVIOUS
<1>1. CASE AverageStep
  <2>1. CASE BeginAverage \/ FirstFails \/ FirstRefused \/ FirstAnswers \/ AnswerAverage
    BY <2>1, BeginKeepsAverageInv, FirstFailsKeepsAverageInv, FirstRefusedKeepsAverageInv,
       FirstAnswersKeepsAverageInv, AnswerAverageKeepsAverageInv
  <2>2. CASE \E f \in Frames : TakeResult(f)
    BY <2>2, TakeResultKeepsAverageInv
  <2>3. CASE \E f \in Frames, k \in Chunks : AddToChunk(f, k)
    BY <2>3, AddKeepsAverageInv
  <2>4. QED
    BY <1>1, <2>1, <2>2, <2>3 DEF AverageStep
<1>2. CASE ReaderStep /\ UNCHANGED averageVars
  <2>1. UNCHANGED users
    BY <1>2 DEF ReaderStep, StartPull, AwaitTurn, TakeBlob, MeetEof, Answer, readerVars
  <2>2. QED
    BY <1>2, <2>1, AnswersKeepAverageInv
<1>3. CASE \E c \in Consumers : PullerAsks(c)
  BY <1>3, AnswersKeepAverageInv DEF PullerAsks, AskFor
<1>4. CASE UNCHANGED allVars
  BY <1>4, AnswersKeepAverageInv DEF allVars, readerVars
<1>5. QED
  BY <1>1, <1>2, <1>3, <1>4 DEF SourceNext

(* Average gives every frame that did not fail to exactly one average, in  *)
(* order, and NumFrames frames to each, the same in all chunks: for any    *)
(* NumFrames, any number of chunks and of cores, whichever frames fail,    *)
(* and in whatever order the tasks come through.                           *)
THEOREM AveragesShareOutTheInput == SourceSpec => []AveragesPartitionTheInput
<1>1. AverageInv => AveragesPartitionTheInput
  <2> SUFFICES ASSUME AverageInv, NEW i \in 1..Len(made), NEW b \in made[i][1], NEW f \in 0..b,
                      AnswerTo(f) # Failed
               PROVE  \E j \in 1..i : f \in made[j][1]
    BY DEF AverageInv, MadeInOrder, AveragesPartitionTheInput
  <2>1. /\ Len(made) \in Nat /\ b \in Nat /\ b < Floor /\ Floor \in Nat
        /\ \A j \in 1..Len(made) : made[j][1] \subseteq Nat
    BY ChunksHaveFrames DEF AverageInv, AverageTypeOK, MadeInOrder
  <2>2. f \in 0..(Floor - 1)
    BY <2>1
  <2>3. PICK j \in 1..Len(made) : f \in made[j][1]
    BY <2>2 DEF AverageInv, Settled
  <2>4. j <= i
    <3> SUFFICES ASSUME i < j PROVE FALSE
      BY <2>1
    <3>1. i \in 1..(j - 1)
      BY <2>1
    <3>2. b < f
      BY <2>3, <3>1 DEF AverageInv, MadeInOrder
    <3>3. QED
      BY <2>1, <3>2
  <2>5. QED
    BY <2>1, <2>3, <2>4
<1>2. QED
  BY <1>1, InitAverageInv, StepAverageInv, SourceUsesNotifier, PTL DEF SourceSpec
=============================================================================
