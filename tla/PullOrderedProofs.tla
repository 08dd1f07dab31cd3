-------------------------- MODULE PullOrderedProofs --------------------------
(***************************************************************************)
(* Proofs about PullOrdered for every number of threads, every range of    *)
(* frames and every way the pulls may end.                                 *)
(*                                                                         *)
(* PipelineInOrder is inductive once it is known that everything on its    *)
(* way to the sink was requested (is below next) and that a payload is in  *)
(* the puller's hand only while it sends.  BoundedMemory needs the slack   *)
(* the loop leaves: after an await fewer than num_threads pulls are in     *)
(* flight.                                                                 *)
(*                                                                         *)
(* That pull_ordered implements OrderedDelivery takes DeliveryInv: what    *)
(* was delivered can be delivered, and leaves nothing out that can.        *)
(***************************************************************************)
EXTENDS PullOrdered, SequenceTheorems, TLAPS

Below(s, n) == \A i \in 1..Len(s) : s[i] < n

(* Everything between the request and the sink has been requested.         *)
Requested ==
    /\ Below(received, next) /\ Below(channel, next)
    /\ Below(hand, next) /\ Below(inFlight, next)

(* How full each stage is at each place of the puller's loop.              *)
Fill ==
    /\ Len(hand) = (IF pc = "send" THEN 1 ELSE 0)
    /\ Len(inFlight) <= NumThreads
    /\ pc \in {"send", "push"} => Len(inFlight) < NumThreads
    /\ Len(channel) <= NumThreads

OrderInv == TypeOK /\ Fill /\ PipelineInOrder /\ Requested

LEMMA TailFacts ==
    ASSUME NEW S, NEW s \in Seq(S), s # <<>>
    PROVE  /\ Len(s) \in Nat \ {0} /\ Head(s) \in S /\ Head(s) = s[1]
           /\ Tail(s) \in Seq(S) /\ Len(Tail(s)) = Len(s) - 1
           /\ \A i \in 1..(Len(s) - 1) : Tail(s)[i] = s[i + 1]
BY EmptySeq, HeadTailProperties

LEMMA AppendFacts ==
    ASSUME NEW S, NEW s \in Seq(S), NEW e \in S
    PROVE  /\ Append(s, e) \in Seq(S) /\ Len(Append(s, e)) = Len(s) + 1
           /\ Len(s) \in Nat
           /\ \A i \in 1..(Len(s) + 1) : Append(s, e)[i] = IF i = Len(s) + 1 THEN e ELSE s[i]
OBVIOUS

LEMMA SingletonFacts ==
    ASSUME NEW S, NEW e \in S
    PROVE  <<e>> \in Seq(S) /\ Len(<<e>>) = 1 /\ <<e>>[1] = e
OBVIOUS

LEMMA RangeEndIsNat == RangeEnd \in Nat
BY SourceAssumption DEF RangeEnd

LEMMA InitOrderInv == Init => OrderInv
<1> SUFFICES ASSUME Init PROVE OrderInv
  OBVIOUS
<1> USE SourceAssumption, RangeEndIsNat DEF Init
<1>1. TypeOK
  BY DEF TypeOK, PcStates, TaskStates, SourceInit
<1>2. Fill
  BY DEF Fill
<1>3. PipelineInOrder
  BY DEF PipelineInOrder, Ascends, Precedes
<1>4. Requested
  BY DEF Requested, Below
<1>5. QED
  BY <1>1, <1>2, <1>3, <1>4 DEF OrderInv

(* What one step does to the four stages.                                  *)
LEMMA StageStep ==
    ASSUME TypeOK, Fill, [Next]_vars
    PROVE  \/ UNCHANGED <<received, channel, hand, inFlight, next>>
           \/ /\ inFlight' = <<>> /\ hand' = <<>>
              /\ UNCHANGED <<received, channel, next>>
           \/ /\ inFlight # <<>> /\ hand = <<>>
              /\ inFlight' = Tail(inFlight)
              /\ hand' \in {<<>>, <<Head(inFlight)>>}
              /\ UNCHANGED <<received, channel, next>>
           \/ /\ hand # <<>>
              /\ channel' = Append(channel, Head(hand)) /\ hand' = <<>>
              /\ UNCHANGED <<received, inFlight, next>>
           \/ /\ next \in Frames
              /\ inFlight' = Append(inFlight, next) /\ next' = next + 1
              /\ UNCHANGED <<received, channel, hand>>
           \/ /\ channel # <<>>
              /\ received' = Append(received, Head(channel)) /\ channel' = Tail(channel)
              /\ UNCHANGED <<hand, inFlight, next>>
           \/ /\ channel' = <<>>
              /\ UNCHANGED <<received, hand, inFlight, next>>
<1>0. (pc = "top" => hand = <<>>) /\ (pc = "send" => hand # <<>>)
  <2>1. \A s \in Seq(Frames) : Len(s) = 0 <=> s = <<>>
    BY EmptySeq
  <2>2. Len(hand) = 0 <=> hand = <<>>
    BY <2>1 DEF TypeOK
  <2>3. QED
    BY <2>2 DEF Fill
<1>1. CASE PullerStep
  <2>1. CASE SpawnNext
    BY <2>1, RangeEndIsNat DEF SpawnNext, RangeIsEmpty, TypeOK, Frames
  <2>2. QED
    BY <1>0, <1>1, <2>1
    DEF PullerStep, Finish, SkipAwait, AwaitOldest, Send, SendFails, Leave
<1>2. ASSUME NEW f \in Frames, TaskStep(f)
      PROVE  UNCHANGED <<received, channel, hand, inFlight, next>>
  BY <1>2 DEF TaskStep, Answer, Report, FreeDropped
<1>3. CASE SinkStep \/ HangUp \/ UNCHANGED vars
  BY <1>3 DEF SinkStep, Receive, ReceiveEnd, HangUp, vars
<1>4. QED
  BY <1>1, <1>2, <1>3 DEF Next

LEMMA TypeStep ==
    ASSUME TypeOK, Fill, [Next]_vars
    PROVE  TypeOK'
<1>1. /\ inFlight' \in Seq(Frames) /\ hand' \in Seq(Frames)
      /\ channel' \in Seq(Frames) /\ received' \in Seq(Frames)
  <2> USE DEF TypeOK
  <2>1. \A s \in Seq(Frames) : s # <<>> =>
            Head(s) \in Frames /\ Tail(s) \in Seq(Frames) /\ <<Head(s)>> \in Seq(Frames)
    BY TailFacts, SingletonFacts
  <2>2. \A s \in Seq(Frames), f \in Frames : Append(s, f) \in Seq(Frames)
    BY AppendFacts
  <2>3. <<>> \in Seq(Frames)
    BY EmptySeq
  <2>4. QED
    BY <2>1, <2>2, <2>3, StageStep
<1>2. next' \in 0..RangeEnd
  BY StageStep, RangeEndIsNat DEF TypeOK, Frames
<1>3. /\ access' \in Access /\ outcome' \in [Frames -> Outcomes] /\ pc' \in PcStates
      /\ task' \in [Frames -> TaskStates] /\ answered' \in SUBSET Frames
      /\ sink' \in {"receiving", "ended", "hungUp"}
  <2> USE RangeEndIsNat DEF TypeOK, PcStates, TaskStates, source
  <2>1. CASE PullerStep
    BY <2>1 DEF PullerStep, Finish, SkipAwait, AwaitOldest, Send, SendFails, SpawnNext, Leave
  <2>2. ASSUME NEW f \in Frames, TaskStep(f)
        PROVE  /\ access' = access /\ outcome' = outcome /\ pc' = pc /\ sink' = sink
               /\ task' \in [Frames -> TaskStates] /\ answered' \in SUBSET Frames
    BY <2>2 DEF TaskStep, Answer, Report, FreeDropped
  <2>3. CASE SinkStep \/ HangUp \/ UNCHANGED vars
    BY <2>3 DEF SinkStep, Receive, ReceiveEnd, HangUp, vars
  <2>4. QED
    BY <2>1, <2>2, <2>3 DEF Next
<1>4. QED
  BY <1>1, <1>2, <1>3 DEF TypeOK

LEMMA FillStep ==
    ASSUME TypeOK, Fill, [Next]_vars
    PROVE  Fill'
<1> USE SourceAssumption DEF TypeOK, Fill
<1>1. \A s \in Seq(Frames) : Len(s) \in Nat /\ (Len(s) = 0 <=> s = <<>>)
  BY EmptySeq
<1>2. \A s \in Seq(Frames) : s # <<>> => Len(Tail(s)) = Len(s) - 1
  BY TailFacts
<1>3. \A s \in Seq(Frames), f \in Frames : Len(Append(s, f)) = Len(s) + 1
  BY AppendFacts
<1>4. \A s \in Seq(Frames) : s # <<>> => Head(s) \in Frames
  BY TailFacts
<1>5. CASE Finish \/ SkipAwait \/ SendFails
  BY <1>1, <1>5 DEF Finish, SkipAwait, SendFails, MustAwait, Leave
<1>6. CASE AwaitOldest
  BY <1>1, <1>2, <1>6 DEF AwaitOldest, Leave
<1>7. CASE Send
  BY <1>1, <1>3, <1>4, <1>7 DEF Send
<1>8. CASE SpawnNext
  <2>1. next \in Frames \/ RangeIsEmpty
    BY RangeEndIsNat DEF RangeIsEmpty, Frames
  <2>2. Len(inFlight') <= NumThreads /\ UNCHANGED <<hand, channel>> /\ pc = "push" /\ pc' = "top"
    BY <1>1, <1>3, <1>8, <2>1 DEF SpawnNext
  <2>3. QED
    BY <2>2
<1>9. ASSUME NEW f \in Frames, TaskStep(f) PROVE Fill'
  BY <1>9 DEF TaskStep, Answer, Report, FreeDropped
<1>10. CASE SinkStep \/ HangUp
  BY <1>1, <1>2, <1>10 DEF SinkStep, Receive, ReceiveEnd, HangUp
<1>11. CASE UNCHANGED vars
  BY <1>11 DEF vars
<1>12. QED
  BY <1>5, <1>6, <1>7, <1>8, <1>9, <1>10, <1>11 DEF Next, PullerStep

-----------------------------------------------------------------------------
(* Taking the head off a stage, and putting an element behind it.          *)
LEMMA OrderOfTail ==
    ASSUME NEW s \in Seq(Frames), s # <<>>
    PROVE  /\ Ascends(s) => Ascends(Tail(s)) /\ Precedes(<<Head(s)>>, Tail(s))
           /\ \A n : Below(s, n) => Below(Tail(s), n) /\ Head(s) < n
           /\ \A t \in Seq(Frames) : Precedes(s, t) => Precedes(Tail(s), t) /\ Precedes(<<Head(s)>>, t)
           /\ \A t \in Seq(Frames) : Precedes(t, s) => Precedes(t, Tail(s)) /\ Below(t, Head(s))
<1> USE TailFacts, SingletonFacts DEF Ascends, Precedes, Below
<1>1. Len(s) \in Nat \ {0} /\ Head(s) \in Frames /\ Head(s) = s[1]
      /\ Len(Tail(s)) = Len(s) - 1
      /\ \A i \in 1..(Len(s) - 1) : Tail(s)[i] = s[i + 1]
  OBVIOUS
<1>2. Len(<<Head(s)>>) = 1 /\ <<Head(s)>>[1] = Head(s)
  BY <1>1
<1>3. Ascends(s) => Ascends(Tail(s)) /\ Precedes(<<Head(s)>>, Tail(s))
  BY <1>1, <1>2
<1>4. \A n : Below(s, n) => Below(Tail(s), n) /\ Head(s) < n
  BY <1>1
<1>5. \A t \in Seq(Frames) : Precedes(s, t) => Precedes(Tail(s), t) /\ Precedes(<<Head(s)>>, t)
  BY <1>1, <1>2
<1>6. \A t \in Seq(Frames) : Precedes(t, s) => Precedes(t, Tail(s)) /\ Below(t, Head(s))
  BY <1>1
<1>7. QED
  BY <1>3, <1>4, <1>5, <1>6

LEMMA OrderOfAppend ==
    ASSUME NEW s \in Seq(Frames), NEW e \in Frames
    PROVE  /\ Ascends(s) /\ Below(s, e) => Ascends(Append(s, e))
           /\ \A n : Below(s, n) /\ e < n => Below(Append(s, e), n)
           /\ \A t \in Seq(Frames) : Precedes(t, s) /\ Below(t, e) => Precedes(t, Append(s, e))
           /\ \A t \in Seq(Frames) :
                 Precedes(s, t) /\ Precedes(<<e>>, t) => Precedes(Append(s, e), t)
<1> USE DEF Ascends, Precedes, Below
<1>1. Len(s) \in Nat /\ Len(Append(s, e)) = Len(s) + 1
      /\ \A i \in 1..(Len(s) + 1) : Append(s, e)[i] = IF i = Len(s) + 1 THEN e ELSE s[i]
  BY AppendFacts
<1>2. Len(<<e>>) = 1 /\ <<e>>[1] = e
  BY SingletonFacts
<1>3. Ascends(s) /\ Below(s, e) => Ascends(Append(s, e))
  BY <1>1
<1>4. \A n : Below(s, n) /\ e < n => Below(Append(s, e), n)
  BY <1>1
<1>5. \A t \in Seq(Frames) : Precedes(t, s) /\ Below(t, e) => Precedes(t, Append(s, e))
  BY <1>1
<1>6. \A t \in Seq(Frames) : Precedes(s, t) /\ Precedes(<<e>>, t) => Precedes(Append(s, e), t)
  BY <1>1, <1>2
<1>7. QED
  BY <1>3, <1>4, <1>5, <1>6

LEMMA OrderOfEmpty ==
    /\ Ascends(<<>>) /\ \A n : Below(<<>>, n)
    /\ \A t : Precedes(<<>>, t) /\ Precedes(t, <<>>)
BY DEF Ascends, Precedes, Below

LEMMA OrderOfSingleton ==
    ASSUME NEW e \in Frames
    PROVE  /\ Ascends(<<e>>)
           /\ \A n : e < n => Below(<<e>>, n)
           /\ \A t : Below(t, e) => Precedes(t, <<e>>)
BY SingletonFacts DEF Ascends, Precedes, Below

LEMMA OrderOfRange ==
    ASSUME NEW s \in Seq(Frames), NEW n \in Nat
    PROVE  /\ Below(s, n) => Below(s, n + 1)
           /\ n \in Frames /\ Below(s, n) => Precedes(s, <<n>>)
<1>1. \A i \in 1..Len(s) : s[i] \in Int
  BY ElementOfSeq, RangeEndIsNat DEF Frames
<1>2. QED
  BY <1>1, SingletonFacts DEF Below, Precedes

LEMMA OrderStep ==
    ASSUME TypeOK, Fill, PipelineInOrder, Requested, [Next]_vars
    PROVE  PipelineInOrder' /\ Requested'
<1> USE DEF PipelineInOrder, Requested
<1>0. /\ received \in Seq(Frames) /\ channel \in Seq(Frames)
      /\ hand \in Seq(Frames) /\ inFlight \in Seq(Frames) /\ next \in Nat
  BY RangeEndIsNat DEF TypeOK
<1>1. CASE UNCHANGED <<received, channel, hand, inFlight, next>>
  BY <1>1
<1>2. CASE inFlight' = <<>> /\ hand' = <<>> /\ UNCHANGED <<received, channel, next>>
  BY <1>2, OrderOfEmpty
<1>3. CASE /\ inFlight # <<>> /\ hand = <<>>
           /\ inFlight' = Tail(inFlight)
           /\ hand' \in {<<>>, <<Head(inFlight)>>}
           /\ UNCHANGED <<received, channel, next>>
  <2>1. Head(inFlight) \in Frames
    BY <1>0, <1>3, TailFacts
  <2>2. CASE hand' = <<>>
    BY <1>0, <1>3, <2>2, OrderOfTail, OrderOfEmpty
  <2>3. CASE hand' = <<Head(inFlight)>>
    BY <1>0, <1>3, <2>1, <2>3, OrderOfTail, OrderOfSingleton
  <2>4. QED
    BY <1>3, <2>2, <2>3
<1>4. CASE /\ hand # <<>>
           /\ channel' = Append(channel, Head(hand)) /\ hand' = <<>>
           /\ UNCHANGED <<received, inFlight, next>>
  <2>1. Head(hand) \in Frames
    BY <1>0, <1>4, TailFacts
  <2>2. /\ Below(received, Head(hand)) /\ Below(channel, Head(hand)) /\ Head(hand) < next
        /\ Precedes(<<Head(hand)>>, inFlight)
    BY <1>0, <1>4, OrderOfTail
  <2>3. QED
    BY <1>0, <1>4, <2>1, <2>2, OrderOfAppend, OrderOfEmpty
<1>5. CASE /\ next \in Frames
           /\ inFlight' = Append(inFlight, next) /\ next' = next + 1
           /\ UNCHANGED <<received, channel, hand>>
  <2>1. next < next + 1
    BY <1>0
  <2>2. QED
    BY <1>0, <1>5, <2>1, OrderOfAppend, OrderOfRange
<1>6. CASE /\ channel # <<>>
           /\ received' = Append(received, Head(channel)) /\ channel' = Tail(channel)
           /\ UNCHANGED <<hand, inFlight, next>>
  <2>1. Head(channel) \in Frames /\ Tail(channel) \in Seq(Frames)
    BY <1>0, <1>6, TailFacts
  <2>2. /\ Below(received, Head(channel)) /\ Head(channel) < next
        /\ Precedes(<<Head(channel)>>, Tail(channel)) /\ Precedes(<<Head(channel)>>, hand)
        /\ Precedes(<<Head(channel)>>, inFlight)
    BY <1>0, <1>6, OrderOfTail
  <2>3. /\ Ascends(Tail(channel)) /\ Below(Tail(channel), next)
        /\ Precedes(received, Tail(channel)) /\ Precedes(Tail(channel), hand)
        /\ Precedes(Tail(channel), inFlight)
    BY <1>0, <1>6, OrderOfTail
  <2>4. QED
    BY <1>0, <1>6, <2>1, <2>2, <2>3, OrderOfAppend
<1>7. CASE channel' = <<>> /\ UNCHANGED <<received, hand, inFlight, next>>
  BY <1>7, OrderOfEmpty
<1>8. QED
  BY <1>1, <1>2, <1>3, <1>4, <1>5, <1>6, <1>7, StageStep

(* What pull_ordered holds was requested, is in order, and is as much as   *)
(* its loop allows at the place it has got to.                             *)
THEOREM OrderInvariance == SafeSpec => []OrderInv
<1>1. OrderInv /\ [Next]_vars => OrderInv'
  BY TypeStep, FillStep, OrderStep DEF OrderInv
<1>2. QED
  BY InitOrderInv, <1>1, PTL DEF SafeSpec

(* The puller's bookkeeping keeps its type.                                *)
THEOREM PullOrderedTypeCorrect == SafeSpec => []TypeOK
<1>1. OrderInv => TypeOK
  BY DEF OrderInv
<1>2. QED
  BY OrderInvariance, <1>1, PTL

(* The sink, and every stage before it, sees ascending frame numbers.      *)
THEOREM SinkSeesAscendingFrames == SafeSpec => []PipelineInOrder
<1>1. OrderInv => PipelineInOrder
  BY DEF OrderInv
<1>2. QED
  BY OrderInvariance, <1>1, PTL

(* Back-pressure: at most 2 * num_threads frames are alive between the     *)
(* requests and the sink.                                                  *)
THEOREM BackPressure == SafeSpec => []BoundedMemory
<1>1. OrderInv => BoundedMemory
  BY SourceAssumption DEF OrderInv, TypeOK, PcStates, Fill, BoundedMemory
<1>2. QED
  BY OrderInvariance, <1>1, PTL

-----------------------------------------------------------------------------
(* Delivery.  Which frames are on their way, and which of them may be.     *)
On(s, f) == \E i \in 1..Len(s) : s[i] = f

OnItsWay(f) == On(received, f) \/ On(channel, f) \/ On(hand, f) \/ On(inFlight, f)

(* What has been answered comes before the end of the file.                *)
AnsweredBeforeEof ==
    /\ \A f \in Frames : outcome[f] = "eof" => access = "sequential"
    /\ \A f \in Frames : task[f] \in {"reporting", "finished"} =>
                              \A g \in Frames : g < f => outcome[g] # "eof"

(* What has been taken from the pulls can be delivered ...                 *)
OnlyDeliverable ==
    \A f \in Frames : On(received, f) \/ On(channel, f) \/ On(hand, f) => f \in Delivery!Deliverable

(* ... and while the sink listens nothing that can be delivered is lost.   *)
NothingLeftOut ==
    sink = "receiving" =>
        /\ pc # "panicked"
        /\ pc = "ended" => hand = <<>> /\ inFlight = <<>>
        /\ \A f \in Delivery!Deliverable : f < next \/ pc = "ended" => OnItsWay(f)

DeliveryInv == OrderInv /\ AnsweredBeforeEof /\ OnlyDeliverable /\ NothingLeftOut

LEMMA OnTail ==
    ASSUME NEW s \in Seq(Frames), s # <<>>, NEW x
    PROVE  On(s, x) <=> x = Head(s) \/ On(Tail(s), x)
<1>1. Len(s) \in Nat \ {0} /\ Head(s) = s[1] /\ Len(Tail(s)) = Len(s) - 1
      /\ \A i \in 1..(Len(s) - 1) : Tail(s)[i] = s[i + 1]
  BY TailFacts
<1>2. ASSUME NEW i \in 1..Len(s), s[i] = x PROVE x = Head(s) \/ On(Tail(s), x)
  <2>1. CASE i = 1
    BY <1>1, <1>2, <2>1
  <2>2. CASE i # 1
    <3>1. i - 1 \in 1..Len(Tail(s)) /\ Tail(s)[i - 1] = x
      BY <1>1, <1>2, <2>2
    <3>2. QED
      BY <3>1 DEF On
  <2>3. QED
    BY <2>1, <2>2
<1>3. x = Head(s) => On(s, x)
  BY <1>1 DEF On
<1>4. ASSUME NEW i \in 1..Len(Tail(s)), Tail(s)[i] = x PROVE On(s, x)
  <2>1. i + 1 \in 1..Len(s) /\ s[i + 1] = x
    BY <1>1, <1>4
  <2>2. QED
    BY <2>1 DEF On
<1>5. QED
  BY <1>2, <1>3, <1>4 DEF On

LEMMA OnAppend ==
    ASSUME NEW s \in Seq(Frames), NEW e \in Frames, NEW x
    PROVE  On(Append(s, e), x) <=> On(s, x) \/ x = e
<1>1. Len(s) \in Nat /\ Len(Append(s, e)) = Len(s) + 1
      /\ \A i \in 1..(Len(s) + 1) : Append(s, e)[i] = IF i = Len(s) + 1 THEN e ELSE s[i]
  BY AppendFacts
<1>2. QED
  BY <1>1 DEF On

LEMMA OnEmpty == \A x : ~On(<<>>, x)
BY DEF On

LEMMA OnSingleton == ASSUME NEW e \in Frames, NEW x PROVE On(<<e>>, x) <=> x = e
BY SingletonFacts DEF On

(* Members of ordered stages.                                              *)
LEMMA OnOrdered ==
    ASSUME NEW s \in Seq(Frames), NEW f \in Frames, On(s, f)
    PROVE  /\ s # <<>> /\ (Ascends(s) => Head(s) <= f)
           /\ \A n : Below(s, n) => f < n
           /\ \A t : \A g : Precedes(s, t) /\ On(t, g) => f < g
<1>1. PICK i \in 1..Len(s) : s[i] = f
  BY DEF On
<1>2. s # <<>>
  BY <1>1
<1>3. Len(s) \in Nat \ {0} /\ Head(s) = s[1] /\ Head(s) \in Frames
  BY <1>2, TailFacts
<1>4. Ascends(s) => Head(s) <= f
  BY <1>1, <1>3, RangeEndIsNat DEF Ascends, Frames
<1>5. QED
  BY <1>1, <1>2, <1>4 DEF Below, Precedes, On

LEMMA InitDeliveryInv == Init => DeliveryInv
<1> SUFFICES ASSUME Init PROVE DeliveryInv
  OBVIOUS
<1>1. AnsweredBeforeEof
  BY DEF Init, SourceInit, AnsweredBeforeEof
<1>2. OnlyDeliverable
  BY OnEmpty DEF Init, OnlyDeliverable
<1>3. NothingLeftOut
  BY DEF Init, NothingLeftOut, Delivery!Deliverable
<1>4. QED
  BY <1>1, <1>2, <1>3, InitOrderInv DEF DeliveryInv

LEMMA AnsweredStep ==
    ASSUME TypeOK, AnsweredBeforeEof, [Next]_vars
    PROVE  AnsweredBeforeEof' /\ access' = access /\ outcome' = outcome
<1> USE DEF TypeOK, AnsweredBeforeEof, source
<1>1. CASE PullerStep
  <2>1. CASE SpawnNext
    <3>1. \A f \in Frames : task'[f] \in {"reporting", "finished"} => task[f] \in {"reporting", "finished"}
      BY <2>1 DEF SpawnNext
    <3>2. access' = access /\ outcome' = outcome
      BY <2>1 DEF SpawnNext
    <3>3. QED
      BY <3>1, <3>2
  <2>2. QED
    BY <1>1, <2>1 DEF PullerStep, Finish, SkipAwait, AwaitOldest, Send, SendFails
<1>2. ASSUME NEW f \in Frames, Answer(f)
      PROVE  AnsweredBeforeEof' /\ access' = access /\ outcome' = outcome
  <2>1. access' = access /\ outcome' = outcome /\ task' = [task EXCEPT ![f] = "reporting"]
    BY <1>2 DEF Answer
  <2>2. \A g \in Frames : g < f => outcome[g] # "eof"
    BY <1>2 DEF Answer, MayAnswer
  <2>3. QED
    BY <2>1, <2>2
<1>3. ASSUME NEW f \in Frames, Report(f) \/ FreeDropped(f)
      PROVE  AnsweredBeforeEof' /\ access' = access /\ outcome' = outcome
  <2>1. access' = access /\ outcome' = outcome
    BY <1>3 DEF Report, FreeDropped
  <2>2. \A g \in Frames : task'[g] \in {"reporting", "finished"} => task[g] \in {"reporting", "finished"}
    BY <1>3 DEF Report, FreeDropped
  <2>3. QED
    BY <2>1, <2>2
<1>4. CASE SinkStep \/ HangUp \/ UNCHANGED vars
  BY <1>4 DEF SinkStep, Receive, ReceiveEnd, HangUp, vars
<1>5. QED
  BY <1>1, <1>2, <1>3, <1>4 DEF Next, TaskStep

(* A pull that was answered can be delivered if it brought a payload; if   *)
(* it found the end of the file, everything that can be comes before it.   *)
LEMMA AnsweredCanBeDelivered ==
    ASSUME AnsweredBeforeEof, NEW f \in Frames, task[f] = "finished"
    PROVE  /\ outcome[f] = "ok" => f \in Delivery!Deliverable
           /\ outcome[f] = "eof" => \A d \in Delivery!Deliverable : d \in Frames /\ d < f
<1>1. \A g \in 0..f : g # f => g \in Frames /\ g < f
  BY RangeEndIsNat DEF Frames
<1>2. outcome[f] = "ok" => \A g \in 0..f : outcome[g] # "eof"
  BY <1>1 DEF AnsweredBeforeEof
<1>3. ASSUME NEW d \in Delivery!Deliverable, outcome[f] = "eof" PROVE d \in Frames /\ d < f
  <2>1. d \in Frames /\ \A g \in 0..d : outcome[g] # "eof"
    BY DEF Delivery!Deliverable, Frames
  <2>2. f \notin 0..d
    BY <2>1, <1>3
  <2>3. QED
    BY <2>1, <2>2, RangeEndIsNat DEF Frames
<1>4. QED
  BY <1>2, <1>3 DEF Delivery!Deliverable, Frames

(* The five ways the stages change that lose nothing.                      *)
LEMMA AwaitKeepsDelivery ==
    ASSUME DeliveryInv, AwaitOldest
    PROVE  OnlyDeliverable' /\ NothingLeftOut'
<1> DEFINE D == Delivery!Deliverable
           f == Head(inFlight)
<1>1. /\ received \in Seq(Frames) /\ channel \in Seq(Frames)
      /\ hand \in Seq(Frames) /\ inFlight \in Seq(Frames) /\ next \in Nat
      /\ f \in Frames /\ inFlight # <<>> /\ task[f] = "finished" /\ Ascends(inFlight)
      /\ outcome[f] \in Outcomes
  BY RangeEndIsNat, TailFacts DEF DeliveryInv, OrderInv, TypeOK, AwaitOldest, PipelineInOrder
<1>2. hand = <<>>
  <2>1. Len(hand) = 0
    BY DEF DeliveryInv, OrderInv, Fill, AwaitOldest
  <2>2. QED
    BY <1>1, <2>1, EmptySeq
<1>3. D' = D /\ UNCHANGED <<received, channel, sink, next>> /\ pc = "top"
  BY DEF AwaitOldest, source, Delivery!Deliverable
<1>4. (outcome[f] = "ok" => f \in D) /\ (outcome[f] = "eof" => \A d \in D : d \in Frames /\ d < f)
  BY <1>1, AnsweredCanBeDelivered DEF DeliveryInv
<1>5. \A x : On(inFlight, x) <=> x = f \/ On(Tail(inFlight), x)
  BY <1>1, OnTail
<1>6. \A x \in Frames : On(inFlight, x) => f <= x
  BY <1>1, OnOrdered
<1>7. (\A x : ~On(<<>>, x)) /\ \A x : On(<<f>>, x) <=> x = f
  BY <1>1, OnEmpty, OnSingleton
<1>8. \A x \in D : x \in Frames /\ outcome[x] = "ok"
  BY DEF Delivery!Deliverable, Frames
<1>9. f < next
  BY <1>1, <1>5, OnOrdered DEF DeliveryInv, OrderInv, Requested
<1> HIDE DEF D, f
<1>10. OnlyDeliverable'
  <2>1. hand' = <<>> \/ (hand' = <<f>> /\ outcome[f] = "ok")
    BY <1>2 DEF AwaitOldest, Leave, f
  <2>2. \A x \in Frames : On(received, x) \/ On(channel, x) => x \in D
    BY DEF DeliveryInv, OnlyDeliverable, D
  <2>3. \A x \in Frames : (On(received, x) \/ On(channel, x) \/ On(hand', x)) => x \in D'
    BY <2>1, <2>2, <1>3, <1>4, <1>7
  <2>4. QED
    BY <2>3, <1>3 DEF OnlyDeliverable, D
<1>11. ASSUME sink = "receiving"
       PROVE  /\ pc' # "panicked"
              /\ pc' = "ended" => hand' = <<>> /\ inFlight' = <<>>
              /\ \A x \in D : x < next \/ pc' = "ended" =>
                    On(received, x) \/ On(channel, x) \/ On(hand', x) \/ On(inFlight', x)
  <2>0. \A x \in D : x < next => On(received, x) \/ On(channel, x) \/ On(inFlight, x)
    BY <1>2, <1>3, <1>7, <1>11 DEF DeliveryInv, NothingLeftOut, OnItsWay, D
  <2>1. CASE outcome[f] = "ok"
    <3>1. pc' = "send" /\ hand' = <<f>> /\ inFlight' = Tail(inFlight)
      BY <2>1 DEF AwaitOldest, f
    <3>2. QED
      BY <3>1, <2>0, <1>5, <1>7
  <2>2. CASE outcome[f] = "err"
    <3>1. pc' = "push" /\ hand' = <<>> /\ inFlight' = Tail(inFlight)
      BY <2>2, <1>2 DEF AwaitOldest, f
    <3>2. f \notin D
      BY <2>2, <1>8
    <3>3. QED
      BY <3>1, <3>2, <2>0, <1>5
  <2>3. CASE outcome[f] = "eof"
    <3>1. pc' = "ended" /\ hand' = <<>> /\ inFlight' = <<>>
      BY <2>3 DEF AwaitOldest, Leave, f
    <3>2. ASSUME NEW x \in D PROVE On(received, x) \/ On(channel, x)
      <4>1. x \in Frames /\ x < f
        BY <2>3, <1>4
      <4>2. x < next
        BY <4>1, <1>1, <1>9, RangeEndIsNat DEF Frames
      <4>3. ~On(inFlight, x)
        BY <4>1, <1>6, <1>1, RangeEndIsNat DEF Frames
      <4>4. QED
        BY <4>2, <4>3, <2>0
    <3>3. QED
      BY <3>1, <3>2
  <2>4. QED
    BY <2>1, <2>2, <2>3, <1>1 DEF Outcomes
<1>12. NothingLeftOut'
  BY <1>3, <1>11 DEF NothingLeftOut, OnItsWay, D
<1>13. QED
  BY <1>10, <1>12

LEMMA SendKeepsDelivery ==
    ASSUME DeliveryInv, Send
    PROVE  OnlyDeliverable' /\ NothingLeftOut'
<1> DEFINE D == Delivery!Deliverable
           f == Head(hand)
<1>1. /\ channel \in Seq(Frames) /\ hand \in Seq(Frames) /\ hand # <<>> /\ f \in Frames
      /\ channel' = Append(channel, f) /\ hand' = <<>> /\ pc' = "push" /\ pc = "send"
      /\ UNCHANGED <<source, next, inFlight, received, sink>>
  <2>1. Len(hand) = 1
    BY DEF DeliveryInv, OrderInv, Fill, Send
  <2>2. channel \in Seq(Frames) /\ hand \in Seq(Frames)
    BY DEF DeliveryInv, OrderInv, TypeOK
  <2>3. hand # <<>>
    BY <2>1
  <2>4. QED
    BY <2>2, <2>3, TailFacts DEF Send
<1>2. \A x : On(hand, x) <=> x = f
  <2>1. Tail(hand) = <<>>
    <3>1. Len(Tail(hand)) = 0 /\ Tail(hand) \in Seq(Frames)
      BY <1>1, TailFacts DEF DeliveryInv, OrderInv, Fill
    <3>2. QED
      BY <3>1, EmptySeq
  <2>2. QED
    BY <2>1, <1>1, OnTail, OnEmpty
<1>3. \A x : On(channel', x) <=> On(channel, x) \/ x = f
  BY <1>1, OnAppend
<1>4. D' = D
  BY <1>1 DEF source, Delivery!Deliverable
<1>5. OnlyDeliverable'
  BY <1>1, <1>2, <1>3, <1>4, OnEmpty DEF DeliveryInv, OnlyDeliverable
<1>6. NothingLeftOut'
  BY <1>1, <1>2, <1>3, <1>4 DEF DeliveryInv, NothingLeftOut, OnItsWay
<1>7. QED
  BY <1>5, <1>6

LEMMA SpawnKeepsDelivery ==
    ASSUME DeliveryInv, SpawnNext
    PROVE  OnlyDeliverable' /\ NothingLeftOut'
<1> DEFINE D == Delivery!Deliverable
<1>1. D' = D /\ UNCHANGED <<received, channel, hand, sink>> /\ pc = "push" /\ pc' = "top"
  BY DEF SpawnNext, source, Delivery!Deliverable
<1>2. next \in Nat /\ inFlight \in Seq(Frames) /\ (next \in Frames \/ RangeIsEmpty)
  BY RangeEndIsNat DEF DeliveryInv, OrderInv, TypeOK, RangeIsEmpty, Frames
<1>3. OnlyDeliverable'
  BY <1>1 DEF DeliveryInv, OnlyDeliverable
<1>4. CASE RangeIsEmpty
  <2>1. UNCHANGED <<next, inFlight>>
    BY <1>4 DEF SpawnNext
  <2>2. QED
    BY <1>1, <1>3, <2>1 DEF DeliveryInv, NothingLeftOut, OnItsWay
<1>5. CASE ~RangeIsEmpty
  <2>1. next' = next + 1 /\ inFlight' = Append(inFlight, next)
    BY <1>5 DEF SpawnNext
  <2>2. \A x : On(inFlight', x) <=> On(inFlight, x) \/ x = next
    BY <2>1, <1>2, <1>5, OnAppend
  <2>3. \A x \in D : x < next + 1 => x < next \/ x = next
    BY <1>2, RangeEndIsNat DEF Delivery!Deliverable
  <2>4. NothingLeftOut'
    BY <1>1, <2>1, <2>2, <2>3 DEF DeliveryInv, NothingLeftOut, OnItsWay
  <2>5. QED
    BY <1>3, <2>4
<1>6. QED
  BY <1>4, <1>5

LEMMA ReceiveKeepsDelivery ==
    ASSUME DeliveryInv, Receive
    PROVE  OnlyDeliverable' /\ NothingLeftOut'
<1> DEFINE D == Delivery!Deliverable
           f == Head(channel)
<1>1. /\ received \in Seq(Frames) /\ channel \in Seq(Frames) /\ channel # <<>> /\ f \in Frames
      /\ received' = Append(received, f) /\ channel' = Tail(channel)
      /\ UNCHANGED <<source, pc, next, inFlight, hand, sink>>
  BY TailFacts DEF DeliveryInv, OrderInv, TypeOK, Receive
<1>2. \A x : On(channel, x) <=> x = f \/ On(channel', x)
  BY <1>1, OnTail
<1>3. \A x : On(received', x) <=> On(received, x) \/ x = f
  BY <1>1, OnAppend
<1>4. D' = D
  BY <1>1 DEF source, Delivery!Deliverable
<1>5. OnlyDeliverable'
  BY <1>1, <1>2, <1>3, <1>4 DEF DeliveryInv, OnlyDeliverable
<1>6. NothingLeftOut'
  BY <1>1, <1>2, <1>3, <1>4 DEF DeliveryInv, NothingLeftOut, OnItsWay
<1>7. QED
  BY <1>5, <1>6

LEMMA OtherStepsKeepDelivery ==
    ASSUME DeliveryInv,
           \/ Finish \/ SkipAwait \/ SendFails \/ ReceiveEnd \/ HangUp
           \/ (\E f \in Frames : TaskStep(f)) \/ UNCHANGED vars
    PROVE  OnlyDeliverable' /\ NothingLeftOut'
<1> USE DEF DeliveryInv, OnlyDeliverable, NothingLeftOut, OnItsWay
<1> DEFINE D == Delivery!Deliverable
<1>1. D' = D
  BY DEF Finish, SkipAwait, SendFails, ReceiveEnd, HangUp, TaskStep, Answer, Report, FreeDropped,
         vars, source, Delivery!Deliverable
<1>2. CASE Finish
  <2>1. \A x \in D : x < next
    BY <1>2, RangeEndIsNat DEF Finish, RangeIsEmpty, Delivery!Deliverable
  <2>2. /\ inFlight = <<>> /\ inFlight' = <<>> /\ hand' = <<>> /\ pc' = "ended"
        /\ UNCHANGED <<received, channel, sink, next>>
    BY <1>2 DEF Finish, Leave
  <2>3. hand = <<>>
    <3>1. Len(hand) = 0 /\ hand \in Seq(Frames)
      BY <1>2 DEF Finish, OrderInv, Fill, TypeOK
    <3>2. QED
      BY <3>1, EmptySeq
  <2>4. QED
    BY <1>1, <2>1, <2>2, <2>3
<1>3. CASE SkipAwait
  BY <1>1, <1>3 DEF SkipAwait
<1>4. CASE SendFails
  BY <1>1, <1>4, OnEmpty DEF SendFails, Leave
<1>5. CASE ReceiveEnd
  BY <1>1, <1>5 DEF ReceiveEnd
<1>6. CASE HangUp
  BY <1>1, <1>6, OnEmpty DEF HangUp
<1>7. CASE (\E f \in Frames : TaskStep(f)) \/ UNCHANGED vars
  <2>1. UNCHANGED <<received, channel, hand, inFlight, pc, sink, next>>
    BY <1>7 DEF TaskStep, Answer, Report, FreeDropped, vars
  <2>2. QED
    BY <1>1, <2>1
<1>8. QED
  BY <1>2, <1>3, <1>4, <1>5, <1>6, <1>7

(* What pull_ordered has passed on leaves nothing out but failed pulls, and *)
(* it ends only behind the last frame.                                     *)
THEOREM DeliveryInvariance == SafeSpec => []DeliveryInv
<1>1. DeliveryInv /\ [Next]_vars => DeliveryInv'
  <2> SUFFICES ASSUME DeliveryInv, [Next]_vars PROVE DeliveryInv'
    OBVIOUS
  <2>1. OrderInv' /\ AnsweredBeforeEof'
    BY TypeStep, FillStep, OrderStep, AnsweredStep DEF OrderInv, DeliveryInv
  <2>2. OnlyDeliverable' /\ NothingLeftOut'
    BY AwaitKeepsDelivery, SendKeepsDelivery, SpawnKeepsDelivery, ReceiveKeepsDelivery,
       OtherStepsKeepDelivery DEF Next, PullerStep, SinkStep
  <2>3. QED
    BY <2>1, <2>2 DEF DeliveryInv
<1>2. QED
  BY InitDeliveryInv, <1>1, PTL DEF SafeSpec

(* What the sink receives next is the first of what it still has to get.   *)
LEMMA ReceiveDelivers ==
    ASSUME DeliveryInv, Receive
    PROVE  Delivery!Deliver
<1> DEFINE D == Delivery!Deliverable
           P == Delivery!Pending
           f == Head(channel)
<1>1. /\ received \in Seq(Frames) /\ channel \in Seq(Frames) /\ hand \in Seq(Frames)
      /\ inFlight \in Seq(Frames) /\ next \in Nat /\ channel # <<>> /\ f \in Frames
      /\ sink = "receiving" /\ received' = Append(received, f)
      /\ UNCHANGED <<outcome, sink>>
  BY TailFacts, RangeEndIsNat DEF DeliveryInv, OrderInv, TypeOK, Receive, source
<1>2. On(channel, f)
  BY <1>1, OnTail
<1>3. f \in D /\ f < next
  BY <1>1, <1>2, OnOrdered DEF DeliveryInv, OnlyDeliverable, OrderInv, Requested
<1>4. f \in P
  BY <1>1, <1>2, <1>3, OrderOfTail DEF Delivery!Pending, DeliveryInv, OrderInv, PipelineInOrder, Below
<1>5. ASSUME NEW g \in P PROVE f <= g
  <2>1. g \in D /\ g \in Frames /\ ~On(received, g)
    BY <1>1, RangeEndIsNat DEF Delivery!Pending, Delivery!Deliverable, On, Frames
  <2>2. CASE g < next
    <3>1. On(channel, g) \/ On(hand, g) \/ On(inFlight, g)
      BY <1>1, <2>1, <2>2 DEF DeliveryInv, NothingLeftOut, OnItsWay
    <3>2. CASE On(channel, g)
      BY <1>1, <2>1, <3>2, OnOrdered DEF DeliveryInv, OrderInv, PipelineInOrder
    <3>3. CASE On(hand, g) \/ On(inFlight, g)
      <4>1. f < g
        BY <1>1, <1>2, <2>1, <3>3, OnOrdered DEF DeliveryInv, OrderInv, PipelineInOrder
      <4>2. QED
        BY <4>1, <1>1, <2>1, RangeEndIsNat DEF Frames
    <3>4. QED
      BY <3>1, <3>2, <3>3
  <2>3. CASE ~(g < next)
    BY <1>1, <1>3, <2>1, <2>3, RangeEndIsNat DEF Frames
  <2>4. QED
    BY <2>2, <2>3
<1>6. QED
  BY <1>1, <1>4, <1>5 DEF Delivery!Deliver

(* The channel is found closed only when nothing is left to get.           *)
LEMMA ReceiveEndCloses ==
    ASSUME DeliveryInv, ReceiveEnd
    PROVE  Delivery!Close
<1>1. /\ sink = "receiving" /\ channel = <<>> /\ sink' = "ended" /\ UNCHANGED <<outcome, received>>
      /\ pc = "ended" /\ hand = <<>> /\ inFlight = <<>>
  BY DEF ReceiveEnd, source, DeliveryInv, NothingLeftOut
<1>2. ASSUME NEW g \in Delivery!Pending PROVE FALSE
  <2>1. g \in Delivery!Deliverable /\ g \in Frames /\ ~On(received, g)
    BY RangeEndIsNat DEF Delivery!Pending, Delivery!Deliverable, On, Frames
  <2>2. On(received, g)
    BY <1>1, <2>1, OnEmpty DEF DeliveryInv, NothingLeftOut, OnItsWay
  <2>3. QED
    BY <2>1, <2>2
<1>3. QED
  BY <1>1, <1>2 DEF Delivery!Close

(* pull_ordered implements the delivery its sinks count on: the frames     *)
(* arrive one by one in ascending order, none is left out but those whose  *)
(* pull failed, and the end is told only when all have arrived (the safety *)
(* part of DeliversInOrder).                                               *)
THEOREM ImplementsDelivery == SafeSpec => Delivery!DeliverySafeSpec
<1>1. Init => Delivery!DeliveryInit
  BY DEF Init, Delivery!DeliveryInit
<1>2. DeliveryInv /\ [Next]_vars => [Delivery!DeliveryNext]_Delivery!vars
  <2> SUFFICES ASSUME DeliveryInv, [Next]_vars PROVE [Delivery!DeliveryNext]_Delivery!vars
    OBVIOUS
  <2>1. CASE PullerStep \/ (\E f \in Frames : TaskStep(f)) \/ UNCHANGED vars
    BY <2>1 DEF PullerStep, Finish, SkipAwait, AwaitOldest, Send, SendFails, SpawnNext,
                TaskStep, Answer, Report, FreeDropped, vars, source, Delivery!vars
  <2>2. CASE Receive
    BY <2>2, ReceiveDelivers DEF Delivery!DeliveryNext
  <2>3. CASE ReceiveEnd
    BY <2>3, ReceiveEndCloses DEF Delivery!DeliveryNext
  <2>4. CASE HangUp
    BY <2>4 DEF HangUp, source, Delivery!DeliveryNext, Delivery!Abandon
  <2>5. QED
    BY <2>1, <2>2, <2>3, <2>4 DEF Next, SinkStep
<1>3. QED
  BY <1>1, <1>2, DeliveryInvariance, PTL DEF SafeSpec, Delivery!DeliverySafeSpec
=============================================================================
