------------------------------ MODULE WindowSink ------------------------------
(***************************************************************************)
(* Display and Plot (nodes_gpu/display.rs, plot.rs) beside another sink    *)
(* (benchmark_sink.rs) in one process.  All sinks run on the main thread   *)
(* (ProcessingGraph::run).  `run` passes the frames of pull_ordered on to  *)
(* a channel of one, from which a thread of its own draws them: it runs    *)
(* the window's event loop, and it is the event loop that ends the whole   *)
(* process when its control flow is Exit.                                  *)
(*                                                                         *)
(* An iteration of the event loop is some window events and one            *)
(* RedrawEventsCleared; control flow is looked at after that, and does not *)
(* leave Exit between two events.                                          *)
(***************************************************************************)
EXTENDS Integers, Sequences

CONSTANTS
    Frames,      \* bound: how many frames pull_ordered delivers
    Rounds,      \* bound: rounds of a benchmark after the first (10 in the code)
    MaxTrouble,  \* bound: resizes and swapchains that are out of date
    Nothing      \* stands for None

ASSUME WindowAssumption ==
    /\ Frames \in Nat /\ Rounds \in Nat /\ MaxTrouble \in Nat
    /\ Nothing \notin Nat

VARIABLES
    plot,        \* Plot, or Display?
    live,        \* the parameter
    fits,        \* do the frames have the wanted format, and fps that is not 0?
    run,         \* the sink's run: "receiving", "sending" or "returned"
    next,        \* how many frames it has received
    queue,       \* the channel to the thread
    thread,      \* "idle" (between events), "receiving", "drawing" or "panicked"
    flow,        \* control_flow: "Poll" or "Exit"
    recreate,    \* recreate_swapchain
    minimised,   \* is the window's size one that no swapchain can have?
    due,         \* now > next_frame_time
    source,      \* source_buffer
    drawn,       \* the frames that were on the screen
    trouble,     \* how many resizes and the like there were
    closed,      \* has the user closed the window?
    bench,       \* rounds the other sink has to go
    process      \* "running" or "over"

settings == <<plot, live, fits>>
window == <<thread, flow, recreate, minimised, due, source, drawn, trouble, closed>>
vars == <<settings, run, next, queue, window, bench, process>>

(* The other sink: eleven rounds if its input is counted, one if not.      *)
Init ==
    /\ plot \in BOOLEAN /\ live \in BOOLEAN /\ fits \in BOOLEAN
    /\ run = "receiving" /\ next = 0
    /\ queue = <<>>
    /\ thread = "idle" /\ flow = "Poll"
    /\ recreate = FALSE /\ minimised = FALSE
    /\ due = TRUE
    /\ source = Nothing
    /\ drawn = <<>>
    /\ trouble = 0
    /\ closed = FALSE
    /\ bench \in {1, 1 + Rounds}
    /\ process = "running"

Running == process = "running"

-----------------------------------------------------------------------------
(* run: the next frame, or pull_ordered is through and run returns.        *)
RunReceive ==
    /\ Running /\ run = "receiving"
    /\ IF next < Frames
       THEN run' = "sending" /\ next' = next + 1
       ELSE run' = "returned" /\ UNCHANGED next
    /\ UNCHANGED <<settings, queue, window, bench, process>>

(* Variation: three frames may be on their way.                            *)
LongChannelBound == 3
ChannelBound == 1

HasRoom == Len(queue) < ChannelBound

(* Variation: a frame there is no room for is left out.                    *)
RunSendOrDrop ==
    /\ Running /\ run = "sending"
    /\ IF thread = "panicked"
       THEN process' = "over" /\ UNCHANGED <<run, queue>>
       ELSE /\ queue' = IF HasRoom THEN Append(queue, next - 1) ELSE queue
            /\ run' = "receiving"
            /\ UNCHANGED process
    /\ UNCHANGED <<settings, next, window, bench>>

(* Variation: run waits for room whether the thread is there or not.       *)
RunSendWaiting ==
    /\ Running /\ run = "sending"
    /\ HasRoom /\ thread # "panicked"
    /\ queue' = Append(queue, next - 1)
    /\ run' = "receiving"
    /\ UNCHANGED process
    /\ UNCHANGED <<settings, next, window, bench>>

(* run waits for room.  When the thread is gone send fails and the unwrap  *)
(* ends the main thread.                                                   *)
RunSend ==
    /\ Running /\ run = "sending"
    /\ \/ /\ thread = "panicked"
          /\ process' = "over"
          /\ UNCHANGED <<run, queue>>
       \/ /\ thread # "panicked" /\ HasRoom
          /\ queue' = Append(queue, next - 1)
          /\ run' = "receiving"
          /\ UNCHANGED process
    /\ UNCHANGED <<settings, next, window, bench>>

(* The other sink: a round that fails is the last one, but for the first   *)
(* of several, whose result is only printed.                               *)
BenchRound ==
    /\ Running /\ bench > 0
    /\ bench' \in {bench - 1} \cup (IF bench = 1 + Rounds THEN {} ELSE {0})
    /\ UNCHANGED <<settings, run, next, queue, window, process>>

(* ProcessingGraph::run has heard from all sinks, main returns.            *)
MainReturns ==
    /\ Running /\ run = "returned" /\ bench = 0
    /\ process' = "over"
    /\ UNCHANGED <<settings, run, next, queue, window, bench>>

-----------------------------------------------------------------------------
(* The user, and time.                                                     *)
CloseRequested ==
    /\ Running /\ thread = "idle"
    /\ flow' = "Exit" /\ closed' = TRUE
    /\ UNCHANGED <<settings, run, next, queue, bench, process>>
    /\ UNCHANGED <<thread, recreate, minimised, due, source, drawn, trouble>>

Resized ==
    /\ Running /\ thread = "idle"
    /\ trouble < MaxTrouble
    /\ trouble' = trouble + 1
    /\ recreate' = TRUE
    /\ minimised' \in BOOLEAN
    /\ UNCHANGED <<settings, run, next, queue, bench, process>>
    /\ UNCHANGED <<thread, flow, due, source, drawn, closed>>

Restored ==
    /\ Running /\ thread = "idle"
    /\ minimised
    /\ minimised' = FALSE /\ recreate' = TRUE
    /\ UNCHANGED <<settings, run, next, queue, bench, process>>
    /\ UNCHANGED <<thread, flow, due, source, drawn, trouble, closed>>

TimePasses ==
    /\ Running /\ ~due
    /\ due' = TRUE
    /\ UNCHANGED <<settings, run, next, queue, bench, process>>
    /\ UNCHANGED <<thread, flow, recreate, minimised, source, drawn, trouble, closed>>

-----------------------------------------------------------------------------
(* The end of RedrawEventsCleared, which leaves control flow at f: the     *)
(* iteration is over.                                                      *)
Return(f) ==
    /\ thread' = "idle"
    /\ flow' = IF flow = "Exit" THEN flow ELSE f
    /\ process' = IF flow' = "Exit" THEN "over" ELSE process

Goto(pc) == thread' = pc /\ UNCHANGED <<flow, process>>

(* RedrawEventsCleared: the swapchain is made anew, if that can be done    *)
(* and has to be; then the thread waits for a frame if it is time for one. *)
Redraw ==
    /\ Running /\ thread = "idle"
    /\ IF recreate /\ minimised
       THEN Return("Poll") /\ UNCHANGED recreate
       ELSE /\ Goto(IF live \/ due THEN "receiving" ELSE "drawing")
            /\ recreate' = FALSE
    /\ UNCHANGED <<settings, run, next, queue, minimised, due, source, drawn, trouble, closed, bench>>

(* A frame arrives.  One of the wrong format is unwrapped, and 1.0 / fps   *)
(* has to be a Duration.                                                   *)
ReceiveFrame ==
    /\ Running /\ thread = "receiving" /\ queue # <<>>
    /\ queue' = Tail(queue)
    /\ IF fits
       THEN /\ source' = Head(queue)
            /\ due' \in BOOLEAN
            /\ Goto("drawing")
       ELSE /\ Goto("panicked")
            /\ UNCHANGED <<source, due>>
    /\ UNCHANGED <<settings, run, next, recreate, minimised, drawn, trouble, closed, bench>>

(* run has returned, and with it the sender.  Exit is set, and taken back  *)
(* at once if there is nothing to draw.                                    *)
ReceiveNone ==
    /\ Running /\ thread = "receiving" /\ queue = <<>>
    /\ run = "returned"
    /\ IF source = Nothing
       THEN Return("Poll")
       ELSE thread' = "drawing" /\ flow' = "Exit" /\ UNCHANGED process
    /\ UNCHANGED <<settings, run, next, queue, recreate, minimised, due, source, drawn, trouble,
                   closed, bench>>

DrawNothing ==
    /\ Running /\ thread = "drawing" /\ source = Nothing
    /\ Return("Poll")
    /\ UNCHANGED <<settings, run, next, queue, recreate, minimised, due, source, drawn, trouble,
                   closed, bench>>

(* acquire_next_image: OutOfDate.                                          *)
DrawOutOfDate ==
    /\ Running /\ thread = "drawing" /\ source # Nothing
    /\ trouble < MaxTrouble
    /\ trouble' = trouble + 1
    /\ recreate' = TRUE
    /\ Return(flow)
    /\ UNCHANGED <<settings, run, next, queue, minimised, due, source, drawn, closed, bench>>

(* The frame is drawn; Plot gives its buffer away to the draw call.        *)
Draw ==
    /\ Running /\ thread = "drawing" /\ source # Nothing
    /\ drawn' = IF drawn # <<>> /\ drawn[Len(drawn)] = source THEN drawn ELSE Append(drawn, source)
    /\ source' = IF plot THEN Nothing ELSE source
    /\ Return(flow)
    /\ UNCHANGED <<settings, run, next, queue, recreate, minimised, due, trouble, closed, bench>>

WindowThread ==
    Redraw \/ ReceiveFrame \/ ReceiveNone \/ DrawNothing \/ DrawOutOfDate \/ Draw

Next ==
    \/ RunReceive \/ RunSend \/ BenchRound \/ MainReturns
    \/ CloseRequested \/ Resized \/ Restored \/ TimePasses
    \/ WindowThread

(* Both threads go on, time passes, and a window is not minimised for ever.*)
Fairness ==
    /\ WF_vars(RunReceive \/ RunSend) /\ WF_vars(BenchRound) /\ WF_vars(MainReturns)
    /\ WF_vars(WindowThread)
    /\ WF_vars(TimePasses) /\ SF_vars(Restored)

Spec == Init /\ [][Next]_vars /\ Fairness

-----------------------------------------------------------------------------
(* Frames come to the screen in the order of their numbers, and none is    *)
(* passed over while the swapchain can be drawn to.                        *)
DrawnInOrder ==
    /\ \A i \in 1..(Len(drawn) - 1) : drawn[i] < drawn[i + 1]
    /\ trouble = 0 => \A i \in 1..Len(drawn) : drawn[i] = i - 1

(* The process does not end under the sink, unless the user closes the     *)
(* window or the frames have the wrong format, before run has passed on    *)
(* all of the frames; and then at most two of them were never drawn, the   *)
(* one in the channel and the one the thread was about to draw.  (Another  *)
(* sink may well be cut off: Exit at the end of the stream does not ask.)  *)
LittleIsLost ==
    process = "over" /\ ~closed /\ fits =>
        /\ run = "returned" /\ next = Frames
        /\ trouble = 0 => Len(drawn) + 2 >= Frames

(* The process comes to its end, also when the thread has panicked, with a *)
(* window that is resized, minimised for a while or closed, and with a     *)
(* Plot, which never leaves its event loop by itself.                      *)
ProcessEnds == <>(process = "over")

-----------------------------------------------------------------------------
(* Why the two safety properties hold.  Every frame run has received is    *)
(* with run, in the channel, or was taken by the thread.                   *)
FramesTaken == next - Len(queue) - (IF run = "sending" THEN 1 ELSE 0)

TypeOK ==
    /\ plot \in BOOLEAN /\ live \in BOOLEAN /\ fits \in BOOLEAN
    /\ run \in {"receiving", "sending", "returned"}
    /\ next \in 0..Frames /\ (run = "returned" => next = Frames)
    /\ queue \in Seq(Nat) /\ Len(queue) <= ChannelBound
    /\ thread \in {"idle", "receiving", "drawing", "panicked"}
    /\ flow \in {"Poll", "Exit"}
    /\ source \in Nat \cup {Nothing}
    /\ drawn \in Seq(Nat)
    /\ trouble \in Nat
    /\ closed \in BOOLEAN
    /\ process \in {"running", "over"}

(* The channel holds the frames after the taken ones, and the thread the   *)
(* last of these.                                                          *)
FramesInPlace ==
    /\ FramesTaken >= 0
    /\ \A i \in 1..Len(queue) : queue[i] = FramesTaken + i - 1
    /\ source # Nothing /\ thread # "panicked" => source = FramesTaken - 1

(* What was drawn comes before what is still to be taken; without trouble  *)
(* it is everything but, at most, the frame that is about to be drawn.     *)
DrawnOfTaken ==
    /\ \A i \in 1..Len(drawn) : drawn[i] < FramesTaken
    /\ trouble = 0 /\ thread # "panicked" =>
           \/ Len(drawn) = FramesTaken
           \/ thread = "drawing" /\ source # Nothing /\ Len(drawn) = FramesTaken - 1

EndsHaveReasons ==
    /\ thread = "panicked" => ~fits
    /\ flow = "Exit" => closed \/ run = "returned"
    /\ process = "over" => closed \/ ~fits \/ run = "returned"

IInv == TypeOK /\ FramesInPlace /\ DrawnOfTaken /\ DrawnInOrder /\ EndsHaveReasons
=============================================================================
