--------------------------- MODULE WindowSinkProofs ---------------------------
(***************************************************************************)
(* Proofs about a window sink, for any number of frames, of resizes and of *)
(* rounds of the other sink.                                               *)
(***************************************************************************)
EXTENDS WindowSink, SequenceTheorems, TLAPS

USE DEF ChannelBound

LEMMA InitIInv == Init => IInv
<1> SUFFICES ASSUME Init PROVE IInv
  OBVIOUS
<1>1. /\ run = "receiving" /\ next = 0 /\ queue = <<>> /\ drawn = <<>> /\ source = Nothing
      /\ Len(queue) = 0 /\ Len(drawn) = 0 /\ queue \in Seq(Nat) /\ drawn \in Seq(Nat)
  BY EmptySeq DEF Init
<1>2. TypeOK
  <2>1. run = "receiving" /\ next \in 0..Frames
    BY <1>1, WindowAssumption
  <2>2. queue \in Seq(Nat) /\ drawn \in Seq(Nat) /\ Len(queue) <= ChannelBound
    <3>1. Len(queue) = 0 /\ queue \in Seq(Nat) /\ drawn \in Seq(Nat)
      BY <1>1
    <3>2. QED
      BY <3>1
  <2>3. /\ plot \in BOOLEAN /\ live \in BOOLEAN /\ fits \in BOOLEAN /\ closed \in BOOLEAN
        /\ thread = "idle" /\ flow = "Poll" /\ process = "running" /\ trouble = 0
        /\ source \in Nat \cup {Nothing}
    BY DEF Init
  <2>4. QED
    BY <2>1, <2>2, <2>3 DEF TypeOK
<1>3. FramesTaken = 0
  <2>1. next = 0 /\ Len(queue) = 0 /\ run # "sending"
    BY <1>1
  <2>2. FramesTaken = next - Len(queue) - 0
    BY <2>1 DEF FramesTaken
  <2>3. FramesTaken = 0 - 0 - 0
    BY <2>1, <2>2
  <2>4. QED
    BY <2>3
<1>4. FramesInPlace /\ DrawnOfTaken
  <2>1. source = Nothing /\ Len(queue) = 0 /\ Len(drawn) = 0
    BY <1>1
  <2>2. QED
    BY <1>3, <2>1 DEF FramesInPlace, DrawnOfTaken
<1>5. DrawnInOrder /\ EndsHaveReasons
  BY <1>1 DEF Init, DrawnInOrder, EndsHaveReasons
<1>6. QED
  BY <1>2, <1>4, <1>5 DEF IInv

LEMMA Typed ==
  ASSUME IInv
  PROVE  /\ queue \in Seq(Nat) /\ Len(queue) \in {0, 1} /\ (queue # <<>> => Len(queue) = 1)
         /\ drawn \in Seq(Nat) /\ Len(drawn) \in Nat
         /\ next \in Nat /\ FramesTaken \in Nat
<1>1. /\ queue \in Seq(Nat) /\ drawn \in Seq(Nat) /\ Len(queue) <= 1
      /\ next \in 0..Frames /\ FramesTaken >= 0
  BY DEF IInv, TypeOK, FramesInPlace
<1>2. Len(queue) \in Nat /\ Len(drawn) \in Nat
  BY <1>1, LenProperties
<1>3. queue # <<>> => Len(queue) \in Nat \ {0}
  BY <1>1, EmptySeq
<1>4. FramesTaken \in Nat
  BY <1>1, <1>2, WindowAssumption DEF FramesTaken
<1>5. Len(queue) \in {0, 1} /\ next \in Nat
  <2>1. Len(queue) \in Nat /\ Len(queue) <= 1 /\ next \in 0..Frames
    BY <1>1, <1>2
  <2>2. QED
    BY <2>1, WindowAssumption
<1>6. queue # <<>> => Len(queue) = 1
  BY <1>3, <1>5
<1>7. QED
  BY <1>1, <1>2, <1>4, <1>5, <1>6

(* What a step that neither receives, sends nor draws has to keep.         *)
LEMMA Undisturbed ==
  ASSUME IInv, TypeOK', EndsHaveReasons',
         UNCHANGED <<next, queue, source, drawn>>,
         run' = run \/ (run = "receiving" /\ run' = "returned"),
         trouble' = trouble \/ trouble' = trouble + 1,
         thread' = thread \/ (thread \in {"idle", "receiving"} /\ thread' # "panicked")
           \/ (thread = "drawing" /\ source = Nothing /\ thread' # "panicked")
           \/ (thread = "drawing" /\ trouble' # 0 /\ thread' # "panicked")
  PROVE  IInv'
<1>1. FramesTaken' = FramesTaken
  BY DEF FramesTaken
<1>2. FramesInPlace'
  BY <1>1 DEF IInv, TypeOK, FramesInPlace
<1>3. (trouble' = 0 => trouble = 0) /\ trouble \in Nat
  BY DEF IInv, TypeOK
<1>4. DrawnOfTaken'
  BY <1>1, <1>3 DEF IInv, TypeOK, DrawnOfTaken
<1>5. DrawnInOrder'
  BY <1>3 DEF IInv, DrawnInOrder
<1>6. QED
  BY <1>2, <1>4, <1>5 DEF IInv

LEMMA StepIInv == IInv /\ [Next]_vars => IInv'
<1> SUFFICES ASSUME IInv, [Next]_vars PROVE IInv'
  OBVIOUS
<1> USE WindowAssumption
<1>1. CASE RunReceive
  <2>1. CASE next = Frames
    <3>1. /\ UNCHANGED <<next, queue, source, drawn, trouble, thread>>
          /\ run = "receiving" /\ run' = "returned"
      BY <1>1, <2>1 DEF RunReceive, window
    <3>2. TypeOK' /\ EndsHaveReasons'
      BY <1>1, <2>1 DEF RunReceive, window, settings, IInv, TypeOK, EndsHaveReasons
    <3>3. QED
      BY <3>1, <3>2, Undisturbed
  <2>2. CASE next < Frames
    <3>1. /\ run = "receiving" /\ run' = "sending" /\ next' = next + 1 /\ next \in Nat
          /\ UNCHANGED <<queue, source, drawn, trouble, thread>>
      BY <1>1, <2>2 DEF RunReceive, window, IInv, TypeOK
    <3>2. FramesTaken' = FramesTaken
      BY <3>1 DEF FramesTaken, IInv, TypeOK
    <3>3. TypeOK' /\ EndsHaveReasons'
      BY <1>1, <2>2 DEF RunReceive, window, settings, IInv, TypeOK, EndsHaveReasons
    <3>4. FramesInPlace' /\ DrawnOfTaken' /\ DrawnInOrder'
      BY <3>1, <3>2 DEF IInv, FramesInPlace, DrawnOfTaken, DrawnInOrder
    <3>5. QED
      BY <3>3, <3>4 DEF IInv
  <2>3. QED
    BY <2>1, <2>2 DEF IInv, TypeOK
<1>2. CASE RunSend
  <2>1. CASE thread = "panicked" /\ process' = "over" /\ UNCHANGED <<run, queue>>
    <3>1. UNCHANGED <<next, queue, source, drawn, trouble, thread, run>>
      BY <1>2, <2>1 DEF RunSend, window
    <3>2. TypeOK' /\ EndsHaveReasons'
      BY <1>2, <2>1 DEF RunSend, window, settings, IInv, TypeOK, EndsHaveReasons
    <3>3. QED
      BY <3>1, <3>2, Undisturbed
  <2>2. CASE thread # "panicked" /\ HasRoom /\ queue' = Append(queue, next - 1) /\ run' = "receiving"
    <3>1. run = "sending" /\ UNCHANGED <<next, source, drawn, trouble, thread>>
      BY <1>2, <2>2 DEF RunSend, window
    <3>2. queue = <<>> /\ next \in Nat /\ FramesTaken >= 0
      BY <2>2 DEF HasRoom, IInv, TypeOK, FramesInPlace
    <3>3. FramesTaken = next - 1 /\ FramesTaken' = FramesTaken /\ queue' = <<next - 1>>
      BY <2>2, <3>1, <3>2 DEF FramesTaken
    <3>4. TypeOK' /\ EndsHaveReasons'
      BY <1>2, <2>2, <3>2, <3>3 DEF RunSend, window, settings, IInv, TypeOK, EndsHaveReasons
    <3>5. FramesInPlace' /\ DrawnOfTaken' /\ DrawnInOrder'
      BY <3>1, <3>2, <3>3 DEF IInv, FramesInPlace, DrawnOfTaken, DrawnInOrder
    <3>6. QED
      BY <3>4, <3>5 DEF IInv
  <2>3. QED
    BY <1>2, <2>1, <2>2 DEF RunSend
<1>3. CASE BenchRound \/ MainReturns \/ CloseRequested \/ Resized \/ Restored \/ TimePasses
  <2>1. UNCHANGED <<next, queue, source, drawn, run, thread>> /\ trouble' \in {trouble, trouble + 1}
    BY <1>3 DEF BenchRound, MainReturns, CloseRequested, Resized, Restored, TimePasses, window
  <2>2. TypeOK'
    <3>1. /\ TypeOK /\ trouble' \in Nat
          /\ UNCHANGED <<plot, live, fits, run, next, queue, thread, source, drawn>>
      BY <1>3, <2>1
         DEF BenchRound, MainReturns, CloseRequested, Resized, Restored, TimePasses, window,
             settings, IInv, TypeOK
    <3>2. closed' \in BOOLEAN /\ flow' \in {"Poll", "Exit"} /\ process' \in {"running", "over"}
      BY <1>3
         DEF BenchRound, MainReturns, CloseRequested, Resized, Restored, TimePasses, window,
             IInv, TypeOK
    <3>3. QED
      BY <3>1, <3>2 DEF TypeOK
  <2>3. EndsHaveReasons'
    BY <1>3 DEF BenchRound, MainReturns, CloseRequested, Resized, Restored, TimePasses, window,
                settings, IInv, TypeOK, EndsHaveReasons
  <2>4. QED
    BY <2>1, <2>2, <2>3, Undisturbed
<1>4. CASE Redraw
  <2>1. /\ UNCHANGED <<next, queue, source, drawn, run, trouble>>
        /\ thread = "idle" /\ thread' \in {"idle", "receiving", "drawing"}
    BY <1>4 DEF Redraw, Return, Goto
  <2>2. TypeOK'
    BY <1>4, <2>1 DEF Redraw, Return, Goto, settings, IInv, TypeOK
  <2>3. EndsHaveReasons'
    BY <1>4, <2>1 DEF Redraw, Return, Goto, settings, IInv, TypeOK, EndsHaveReasons
  <2>4. QED
    BY <2>1, <2>2, <2>3, Undisturbed
<1>5. CASE ReceiveFrame
  <2>1. /\ thread = "receiving" /\ queue # <<>> /\ queue' = Tail(queue)
        /\ UNCHANGED <<next, drawn, run, trouble, flow, process, closed, settings>>
        /\ \/ fits /\ source' = Head(queue) /\ thread' = "drawing"
           \/ ~fits /\ source' = source /\ thread' = "panicked"
    BY <1>5 DEF ReceiveFrame, Goto
  <2>2. queue \in Seq(Nat) /\ Len(queue) = 1
    BY <2>1, Typed
  <2>3. Head(queue) = FramesTaken /\ Head(queue) \in Nat /\ Tail(queue) = <<>>
    <3>1. Head(queue) = queue[1]
      BY <2>2
    <3>2. queue[1] = FramesTaken + 1 - 1
      BY <2>2 DEF IInv, FramesInPlace
    <3>3. FramesTaken \in Nat
      BY Typed
    <3>4. Tail(queue) = <<>> /\ queue[1] \in Nat
      <4>1. Tail(queue) \in Seq(Nat) /\ Len(Tail(queue)) = 0
        BY <2>1, <2>2, HeadTailProperties
      <4>2. QED
        BY <2>2, <4>1, EmptySeq, ElementOfSeq
    <3>5. QED
      BY <3>1, <3>2, <3>3, <3>4
  <2>4. FramesTaken' = FramesTaken + 1 /\ FramesTaken \in Nat
    <3>1. queue' = <<>> /\ Len(queue') = 0 /\ next \in Nat /\ FramesTaken \in Nat
      BY <2>1, <2>3, EmptySeq, Typed
    <3>2. Len(queue) = 1 /\ Len(queue') = 0 /\ next' = next /\ run' = run
      BY <2>1, <2>2, <3>1
    <3>3. next \in Nat /\ FramesTaken \in Nat
      BY <3>1
    <3>4. QED
      BY <3>2, <3>3 DEF FramesTaken
  <2>5. TypeOK'
    BY <2>1, <2>2, <2>3 DEF settings, IInv, TypeOK
  <2>6. FramesInPlace'
    BY <2>1, <2>2, <2>3, <2>4 DEF IInv, FramesInPlace
  <2>7. DrawnOfTaken'
    <3>1. source' \in Nat \cup {Nothing} /\ (thread' # "panicked" => source' # Nothing)
      BY <2>1, <2>3, <2>5 DEF TypeOK
    <3>2. drawn \in Seq(Nat) /\ \A i \in 1..Len(drawn) : drawn[i] < FramesTaken
      BY DEF IInv, TypeOK, DrawnOfTaken
    <3>3. \A i \in 1..Len(drawn) : drawn[i] < FramesTaken + 1
      BY <2>4, <3>2
    <3>4. trouble = 0 => Len(drawn) = FramesTaken
      BY <2>1 DEF IInv, DrawnOfTaken
    <3>5. QED
      BY <2>1, <2>4, <3>1, <3>3, <3>4 DEF DrawnOfTaken
  <2>8. DrawnInOrder' /\ EndsHaveReasons'
    BY <2>1 DEF IInv, DrawnInOrder, EndsHaveReasons, settings
  <2>9. QED
    BY <2>5, <2>6, <2>7, <2>8 DEF IInv
<1>6. CASE ReceiveNone \/ DrawNothing \/ DrawOutOfDate
  <2>1. /\ UNCHANGED <<next, queue, source, drawn, run>>
        /\ trouble' = trouble \/ trouble' = trouble + 1
        /\ \/ thread = "receiving" /\ thread' \in {"idle", "drawing"}
           \/ thread = "drawing" /\ source = Nothing /\ thread' = "idle"
           \/ thread = "drawing" /\ trouble' = trouble + 1 /\ thread' = "idle"
    BY <1>6 DEF ReceiveNone, DrawNothing, DrawOutOfDate, Return
  <2>2. TypeOK'
    BY <1>6, <2>1 DEF ReceiveNone, DrawNothing, DrawOutOfDate, Return, settings, IInv, TypeOK
  <2>3. EndsHaveReasons'
    BY <1>6, <2>1
       DEF ReceiveNone, DrawNothing, DrawOutOfDate, Return, settings, IInv, TypeOK, EndsHaveReasons
  <2>4. trouble' = trouble + 1 => trouble' # 0
    BY DEF IInv, TypeOK
  <2>5. QED
    BY <2>1, <2>2, <2>3, <2>4, Undisturbed
<1>7. CASE Draw
  <2>1. /\ thread = "drawing" /\ source # Nothing /\ thread' = "idle"
        /\ source' \in {source, Nothing}
        /\ UNCHANGED <<run, next, queue, trouble, closed, settings>>
        /\ \/ drawn # <<>> /\ drawn[Len(drawn)] = source /\ drawn' = drawn
           \/ (drawn = <<>> \/ drawn[Len(drawn)] # source) /\ drawn' = Append(drawn, source)
    BY <1>7 DEF Draw, Return
  <2>2. /\ drawn \in Seq(Nat) /\ source \in Nat /\ FramesTaken \in Nat
        /\ source = FramesTaken - 1 /\ FramesTaken' = FramesTaken
    BY <2>1 DEF IInv, TypeOK, FramesInPlace, FramesTaken
  <2>3. TypeOK'
    BY <1>7, <2>1, <2>2 DEF Draw, Return, settings, IInv, TypeOK
  <2>4. FramesInPlace'
    BY <2>1, <2>2 DEF IInv, FramesInPlace
  <2>5. EndsHaveReasons'
    BY <1>7, <2>1 DEF Draw, Return, settings, IInv, TypeOK, EndsHaveReasons
  <2>6. \A i \in 1..Len(drawn) : drawn[i] \in Nat /\ drawn[i] <= source
    BY <2>2 DEF IInv, DrawnOfTaken
  <2>7. trouble = 0 => Len(drawn) \in {FramesTaken, FramesTaken - 1}
    BY <2>1 DEF IInv, DrawnOfTaken
  <2>8. CASE drawn # <<>> /\ drawn[Len(drawn)] = source /\ drawn' = drawn
    <3>1. Len(drawn) \in 1..Len(drawn)
      BY <2>2, <2>8
    <3>2. trouble = 0 => source = Len(drawn) - 1
      BY <2>8, <3>1 DEF IInv, DrawnInOrder
    <3>3. DrawnOfTaken'
      BY <2>1, <2>2, <2>8, <3>1, <3>2 DEF IInv, DrawnOfTaken
    <3>4. DrawnInOrder'
      BY <2>1, <2>8 DEF IInv, DrawnInOrder
    <3>5. QED
      BY <2>3, <2>4, <2>5, <3>3, <3>4 DEF IInv
  <2>9. CASE (drawn = <<>> \/ drawn[Len(drawn)] # source) /\ drawn' = Append(drawn, source)
    <3>1. /\ Len(drawn') = Len(drawn) + 1 /\ Len(drawn) \in Nat
          /\ drawn'[Len(drawn) + 1] = source
          /\ \A i \in 1..Len(drawn) : drawn'[i] = drawn[i]
      BY <2>2, <2>9
    <3>2. trouble = 0 => Len(drawn) = FramesTaken - 1
      <4>1. CASE drawn = <<>>
        BY <2>2, <2>7, <4>1
      <4>2. CASE drawn # <<>>
        <5>1. Len(drawn) \in 1..Len(drawn)
          BY <2>2, <4>2
        <5>2. trouble = 0 => drawn[Len(drawn)] = Len(drawn) - 1
          BY <5>1 DEF IInv, DrawnInOrder
        <5>3. QED
          BY <2>2, <2>7, <2>9, <4>2, <5>2
      <4>3. QED
        BY <4>1, <4>2
    <3>3. DrawnOfTaken'
      <4>1. \A i \in 1..Len(drawn') : drawn'[i] < FramesTaken
        BY <2>2, <2>6, <3>1
      <4>2. trouble = 0 => Len(drawn') = FramesTaken
        BY <2>2, <3>1, <3>2
      <4>3. QED
        BY <2>1, <2>2, <4>1, <4>2 DEF DrawnOfTaken
    <3>4. \A i \in 1..(Len(drawn') - 1) : drawn'[i] < drawn'[i + 1]
      <4>1. drawn # <<>> => drawn[Len(drawn)] < source
        BY <2>2, <2>6, <2>9
      <4>2. \A i \in 1..(Len(drawn) - 1) : drawn[i] < drawn[i + 1]
        BY DEF IInv, DrawnInOrder
      <4>3. ASSUME NEW i \in 1..Len(drawn) PROVE drawn'[i] < drawn'[i + 1]
        <5>1. CASE i = Len(drawn)
          BY <2>2, <3>1, <4>1, <5>1
        <5>2. CASE i \in 1..(Len(drawn) - 1)
          BY <2>2, <3>1, <4>2, <5>2
        <5>3. QED
          BY <3>1, <5>1, <5>2
      <4>4. QED
        BY <3>1, <4>3
    <3>5. trouble = 0 => \A i \in 1..Len(drawn') : drawn'[i] = i - 1
      <4>1. trouble = 0 => \A i \in 1..Len(drawn) : drawn[i] = i - 1
        BY DEF IInv, DrawnInOrder
      <4>2. QED
        BY <2>2, <3>1, <3>2, <4>1
    <3>6. DrawnInOrder'
      BY <2>1, <3>4, <3>5 DEF DrawnInOrder
    <3>7. QED
      BY <2>3, <2>4, <2>5, <3>3, <3>6 DEF IInv
  <2>10. QED
    BY <2>1, <2>8, <2>9
<1>8. CASE UNCHANGED vars
  <2>1. UNCHANGED <<next, queue, source, drawn, run, trouble, thread>>
    BY <1>8 DEF vars, window
  <2>2. TypeOK' /\ EndsHaveReasons'
    BY <1>8 DEF vars, window, settings, IInv, TypeOK, EndsHaveReasons
  <2>3. QED
    BY <2>1, <2>2, Undisturbed
<1>9. QED
  BY <1>1, <1>2, <1>3, <1>4, <1>5, <1>6, <1>7, <1>8 DEF Next, WindowThread

LEMMA IInvAlways == Spec => []IInv
BY InitIInv, StepIInv, PTL DEF Spec

(* Whatever happens to the window, frames come to the screen in ascending  *)
(* order, and without a gap while the swapchain can be drawn to.           *)
THEOREM FramesAreDrawnInOrder == Spec => []DrawnInOrder
<1>1. IInv => DrawnInOrder
  BY DEF IInv
<1>2. QED
  BY IInvAlways, <1>1, PTL

(* The process outlives run, unless it is the user or a frame of the wrong *)
(* format that ends it, and at most two frames are not drawn.              *)
THEOREM AtMostTwoFramesUndrawn == Spec => []LittleIsLost
<1>1. IInv => LittleIsLost
  <2> SUFFICES ASSUME IInv, process = "over", ~closed, fits
               PROVE  /\ run = "returned" /\ next = Frames
                      /\ trouble = 0 => Len(drawn) + 2 >= Frames
    BY DEF LittleIsLost
  <2>1. run = "returned" /\ next = Frames /\ thread # "panicked"
    BY DEF IInv, EndsHaveReasons, TypeOK
  <2>2. Len(queue) \in {0, 1} /\ Len(drawn) \in Nat
    BY Typed
  <2>3. FramesTaken = Frames - Len(queue)
    BY <2>1, <2>2, WindowAssumption DEF FramesTaken
  <2>4. trouble = 0 => Len(drawn) >= FramesTaken - 1
    <3>1. trouble = 0 => Len(drawn) = FramesTaken \/ Len(drawn) = FramesTaken - 1
      BY <2>1 DEF IInv, DrawnOfTaken
    <3>2. FramesTaken \in Nat
      BY Typed
    <3>3. QED
      BY <2>2, <3>1, <3>2
  <2>5. trouble = 0 => Len(drawn) + 2 >= Frames
    <3>1. trouble = 0 => Len(drawn) >= Frames - Len(queue) - 1
      BY <2>3, <2>4
    <3>2. CASE Len(queue) = 0
      BY <2>2, <3>1, <3>2, WindowAssumption
    <3>3. CASE Len(queue) = 1
      BY <2>2, <3>1, <3>3, WindowAssumption
    <3>4. QED
      BY <2>2, <3>2, <3>3
  <2>6. QED
    BY <2>1, <2>5
<1>2. QED
  BY IInvAlways, <1>1, PTL
=============================================================================
