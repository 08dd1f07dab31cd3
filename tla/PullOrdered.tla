----------------------------- MODULE PullOrdered -----------------------------
(***************************************************************************)
(* pull_ordered (puller.rs 97-167): a thread of its own keeps up to        *)
(* num_threads pulls in a FuturesOrdered, awaits the oldest one, and sends *)
(* its payload through a bounded channel to the sink.  The pulls run on    *)
(* the reactor, so they proceed in any order (TaskPool).                   *)
(***************************************************************************)
EXTENDS PullSource, Sequences, FiniteSets

CONSTANT MayHangUp   \* may the sink drop the receiver before the end?

VARIABLES
    pc,          \* where the puller thread is
    next,        \* range.start
    inFlight,    \* futures_ordered
    task,        \* task[f]: how far the spawned task of f is
    answered,    \* the pulls that have returned
    hand,        \* the payload being sent, <<>> or <<f>>
    channel,     \* the bounded channel
    received,    \* what the sink has received
    sink         \* "receiving", "ended" (channel closed) or "hungUp"

vars == <<source, pc, next, inFlight, task, answered, hand, channel, received, sink>>

PcStates == {"top", "send", "push", "ended", "panicked"}
TaskStates == {"none", "pulling", "reporting", "finished", "dropped"}

TypeOK ==
    /\ access \in Access /\ outcome \in [Frames -> Outcomes]
    /\ pc \in PcStates
    /\ next \in 0..RangeEnd
    /\ inFlight \in Seq(Frames)
    /\ task \in [Frames -> TaskStates]
    /\ answered \in SUBSET Frames
    /\ hand \in Seq(Frames)
    /\ channel \in Seq(Frames)
    /\ received \in Seq(Frames)
    /\ sink \in {"receiving", "ended", "hungUp"}

Init ==
    /\ SourceInit
    /\ pc = "top"
    /\ next = 0
    /\ inFlight = <<>>
    /\ task = [f \in Frames |-> "none"]
    /\ answered = {}
    /\ hand = <<>>
    /\ channel = <<>>
    /\ received = <<>>
    /\ sink = "receiving"

RangeIsEmpty == next = RangeEnd
MustAwait == RangeIsEmpty \/ Len(inFlight) >= NumThreads

(* The thread ends: tx and futures_ordered are dropped, and with them the  *)
(* handles of the tasks that are still in flight.                          *)
Leave(how) ==
    /\ pc' = how
    /\ inFlight' = <<>>
    /\ hand' = <<>>

-----------------------------------------------------------------------------
(* Line 122: nothing left to request and nothing in flight.                *)
Finish ==
    /\ pc = "top"
    /\ RangeIsEmpty /\ inFlight = <<>>
    /\ Leave("ended")
    /\ UNCHANGED <<source, next, task, answered, channel, received, sink>>

(* Line 125: fewer pulls in flight than threads and frames left.           *)
SkipAwait ==
    /\ pc = "top"
    /\ ~MustAwait
    /\ pc' = "push"
    /\ UNCHANGED <<source, next, inFlight, task, answered, hand, channel, received, sink>>

(* Variation: the pulls sit in a FuturesUnordered, the first to finish is  *)
(* taken.                                                                  *)
AwaitFirstFinished ==
    /\ pc = "top"
    /\ MustAwait
    /\ \E i \in 1..Len(inFlight) : LET f == inFlight[i] IN
        /\ task[f] = "finished"
        /\ IF outcome[f] = "eof"
           THEN Leave("ended")
           ELSE /\ inFlight' = SubSeq(inFlight, 1, i - 1) \o SubSeq(inFlight, i + 1, Len(inFlight))
                /\ hand' = IF outcome[f] = "ok" THEN <<f>> ELSE hand
                /\ pc' = IF outcome[f] = "ok" THEN "send" ELSE "push"
    /\ UNCHANGED <<source, next, task, answered, channel, received, sink>>

(* Variation: the end of the file is skipped like any other error.         *)
AwaitOldestSkippingEof ==
    /\ pc = "top"
    /\ MustAwait /\ inFlight # <<>>
    /\ LET f == Head(inFlight) IN
        /\ task[f] = "finished"
        /\ inFlight' = Tail(inFlight)
        /\ hand' = IF outcome[f] = "ok" THEN <<f>> ELSE hand
        /\ pc' = IF outcome[f] = "ok" THEN "send" ELSE "push"
    /\ UNCHANGED <<source, next, task, answered, channel, received, sink>>

(* Lines 126-144: the oldest pull is awaited.  A payload goes to the       *)
(* channel, the end of the file ends the thread, another error is skipped. *)
AwaitOldest ==
    /\ pc = "top"
    /\ MustAwait /\ inFlight # <<>>
    /\ LET f == Head(inFlight) IN
        /\ task[f] = "finished"
        /\ \/ /\ outcome[f] = "ok"
              /\ pc' = "send"
              /\ inFlight' = Tail(inFlight)
              /\ hand' = <<f>>
           \/ /\ outcome[f] = "err"
              /\ pc' = "push"
              /\ inFlight' = Tail(inFlight)
              /\ UNCHANGED hand
           \/ /\ outcome[f] = "eof"
              /\ Leave("ended")
    /\ UNCHANGED <<source, next, task, answered, channel, received, sink>>

(* Variation: an unbounded channel.                                        *)
SendUnbounded ==
    /\ pc = "send"
    /\ sink = "receiving"
    /\ channel' = Append(channel, Head(hand))
    /\ hand' = <<>>
    /\ pc' = "push"
    /\ UNCHANGED <<source, next, inFlight, task, answered, received, sink>>

(* Line 129: send_async waits for room in the channel ...                  *)
Send ==
    /\ pc = "send"
    /\ sink = "receiving"
    /\ Len(channel) < NumThreads
    /\ channel' = Append(channel, Head(hand))
    /\ hand' = <<>>
    /\ pc' = "push"
    /\ UNCHANGED <<source, next, inFlight, task, answered, received, sink>>

(* Variation: a receiver is kept alive somewhere, send never fails.        *)
SendNeverFails ==
    /\ pc = "send"
    /\ sink = "ended"
    /\ Leave("panicked")
    /\ UNCHANGED <<source, next, task, answered, channel, received, sink>>

(* ... and its unwrap panics when the receiver is gone.                    *)
SendFails ==
    /\ pc = "send"
    /\ sink = "hungUp"
    /\ Leave("panicked")
    /\ UNCHANGED <<source, next, task, answered, channel, received, sink>>

(* Lines 146-161: the next frame, if there is one, is spawned.             *)
SpawnNext ==
    /\ pc = "push"
    /\ IF RangeIsEmpty
       THEN UNCHANGED <<next, inFlight, task>>
       ELSE /\ next' = next + 1
            /\ inFlight' = Append(inFlight, next)
            /\ task' = [task EXCEPT ![next] = "pulling"]
    /\ pc' = "top"
    /\ UNCHANGED <<source, answered, hand, channel, received, sink>>

(* Line 153: the pull returns.                                             *)
Answer(f) ==
    /\ task[f] = "pulling"
    /\ MayAnswer(f, answered)
    /\ answered' = answered \cup {f}
    /\ task' = [task EXCEPT ![f] = "reporting"]
    /\ UNCHANGED <<source, pc, next, inFlight, hand, channel, received, sink>>

(* Lines 154-158: the progress callback (see PullUnordered for what it is  *)
(* told), and the task is over.                                            *)
Report(f) ==
    /\ task[f] = "reporting"
    /\ task' = [task EXCEPT ![f] = "finished"]
    /\ UNCHANGED <<source, pc, next, inFlight, answered, hand, channel, received, sink>>

(* A task whose handle was dropped is freed where it waits.                *)
FreeDropped(f) ==
    /\ pc \in {"ended", "panicked"}
    /\ task[f] = "pulling"
    /\ task' = [task EXCEPT ![f] = "dropped"]
    /\ UNCHANGED <<source, pc, next, inFlight, answered, hand, channel, received, sink>>

(* The sink: rx.recv_async().await gives a payload ...                     *)
Receive ==
    /\ sink = "receiving"
    /\ channel # <<>>
    /\ received' = Append(received, Head(channel))
    /\ channel' = Tail(channel)
    /\ UNCHANGED <<source, pc, next, inFlight, task, answered, hand, sink>>

(* ... or an error once the channel is empty and tx is gone.               *)
ReceiveEnd ==
    /\ sink = "receiving"
    /\ channel = <<>>
    /\ pc \in {"ended", "panicked"}
    /\ sink' = "ended"
    /\ UNCHANGED <<source, pc, next, inFlight, task, answered, hand, channel, received>>

(* The sink returns early, with a write error or because the window was    *)
(* closed, and drops rx.                                                   *)
HangUp ==
    /\ MayHangUp
    /\ sink = "receiving"
    /\ sink' = "hungUp"
    /\ channel' = <<>>
    /\ UNCHANGED <<source, pc, next, inFlight, task, answered, hand, received>>

-----------------------------------------------------------------------------
PullerStep == Finish \/ SkipAwait \/ AwaitOldest \/ Send \/ SendFails \/ SpawnNext
TaskStep(f) == Answer(f) \/ Report(f) \/ FreeDropped(f)
SinkStep == Receive \/ ReceiveEnd

Next ==
    \/ PullerStep
    \/ \E f \in Frames : TaskStep(f)
    \/ SinkStep
    \/ HangUp

(* The puller is a thread, the tasks are served by the reactor (see        *)
(* TaskPool; the node is assumed to answer what it can), and the sink is a *)
(* loop around recv_async.                                                 *)
Fairness ==
    /\ WF_vars(PullerStep)
    /\ \A f \in Frames : WF_vars(TaskStep(f))
    /\ WF_vars(SinkStep)

SafeSpec == Init /\ [][Next]_vars
Spec == SafeSpec /\ Fairness

-----------------------------------------------------------------------------
(* Back-pressure: however slow the sink is, at most twice num_threads      *)
(* frames are alive between request and sink.                              *)
BoundedMemory == Len(inFlight) + Len(hand) + Len(channel) <= 2 * NumThreads

Ascends(s) == \A i, j \in 1..Len(s) : i < j => s[i] < s[j]
Precedes(s, t) == \A i \in 1..Len(s), j \in 1..Len(t) : s[i] < t[j]

(* Pulls that finish out of order, fail or are skipped never put a frame   *)
(* in front of an older one anywhere between the request and the sink; in  *)
(* particular the sink sees strictly ascending frame numbers.              *)
PipelineInOrder ==
    /\ Ascends(received) /\ Ascends(channel) /\ Ascends(hand) /\ Ascends(inFlight)
    /\ Precedes(received, channel) /\ Precedes(received, hand) /\ Precedes(received, inFlight)
    /\ Precedes(channel, hand) /\ Precedes(channel, inFlight)
    /\ Precedes(hand, inFlight)

(* Once the channel is closed the sink holds every frame that could be     *)
(* delivered; a sink that does not hang up always gets there.              *)
Delivery == INSTANCE OrderedDelivery WITH Last <- RangeEnd
DeliversInOrder == Delivery!DeliverySpec

(* The puller thread never outlives its sink's interest: it ends, or       *)
(* panics in unwrap, whether or not the sink hangs up.                     *)
PullerEnds == <>(pc \in {"ended", "panicked"})
=============================================================================
