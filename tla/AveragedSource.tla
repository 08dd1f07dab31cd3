---------------------------- MODULE AveragedSource ----------------------------
(***************************************************************************)
(* A sequential reader and what pulls from it: a puller for each consumer, *)
(* which keeps a window of frames in flight, or one Average (average.rs),  *)
(* which finds a first frame, spawns tasks for further ones, adds what     *)
(* they deliver to its buffers chunk by chunk, and asks for one more frame *)
(* for each that fails.                                                    *)
(***************************************************************************)
EXTENDS SequentialReader, Integers, Sequences

CONSTANTS
    Window,      \* context.num_threads(): frames a puller keeps in flight
    Asked,       \* bound: frames a puller, or two of them, ask for
    NumFrames,   \* the parameter n of Average
    Cpus,        \* num_cpus::get()
    NumChunks,   \* context.num_threads()
    Averages     \* bound: frames Average is asked for

ASSUME SourceAssumption == NumFrames \in Nat \ {0} /\ Cpus \in Nat \ {0} /\ NumChunks \in Nat \ {0}

VARIABLES
    wanted,      \* wanted[c]: the number of frames the puller c asks for
    averaging,   \* is Average the consumer?
    twelveBit,   \* are the frames what Average asks for: Raw, of 12 bits?
    phaseOf,     \* where Average's pull is: "waiting", "first", "adding", "refused"
    frame,       \* request.frame_number() of the pull that is on
    n,           \* n, limit, next, spawned: the locals of pull
    limit, next, spawned,
    offset,      \* last_frame_info: total_offset
    tasks,       \* the frames of futs
    added,       \* added[k]: the frames that were added to chunk k
    made         \* what was added, for every average that was answered

averageVars ==
    <<wanted, averaging, twelveBit, phaseOf, frame, n, limit, next, spawned, offset, tasks, added, made>>
allVars == <<vars, readerVars, averageVars>>

Chunks == 1..NumChunks
TheConsumer == CHOOSE c \in users : TRUE

SourceInit ==
    /\ ReaderInit
    /\ averaging \in BOOLEAN
    /\ averaging => Cardinality(users) = 1
    /\ Cardinality(users) > 1 => bad = {}
    /\ wanted \in [Consumers -> 0..Asked]
    /\ \A c \in Consumers : wanted[c] > 0 <=> c \in users /\ ~averaging
    /\ \A c, d \in Consumers : c # d => wanted[c] + wanted[d] <= Asked
    /\ twelveBit \in BOOLEAN
    /\ phaseOf = "waiting"
    /\ frame = 0
    /\ n = 0 /\ limit = 0 /\ next = 0 /\ spawned = 0
    /\ offset = 0
    /\ tasks = {}
    /\ added = [k \in Chunks |-> {}]
    /\ made = <<>>

(* The consumer's tasks for the frames fs come into being.                 *)
AskFor(c, fs) ==
    /\ asked' = [asked EXCEPT ![c] = @ \cup fs]
    /\ UNCHANGED <<vars, kind, users, length, bad, read, blob, got>>

(* A puller asks for its next frame, until one of them met the end.  Each  *)
(* has a number of frames and a window of its own.                         *)
PullerAsks(c) ==
    /\ Cardinality(asked[c]) < wanted[c]
    /\ Cardinality({f \in asked[c] : Answers(c, f) = Nothing}) < Window
    /\ kind # "webcam" => \A f \in asked[c] : Answers(c, f) # Failed
    /\ AskFor(c, {Cardinality(asked[c])})
    /\ UNCHANGED averageVars

-----------------------------------------------------------------------------
AnswerTo(f) == Answers(TheConsumer, f)
IsFrame(a) == a \notin {Nothing, Failed}

(* pull: it is this frame's turn (pulls of later frames wait for the       *)
(* notifier); n is set and asked for.                                      *)
BeginAverage ==
    /\ averaging /\ phaseOf = "waiting" /\ frame < Averages
    /\ n' = NumFrames * frame + offset /\ n' \in Frames
    /\ phaseOf' = "first"
    /\ AskFor(TheConsumer, {n'})
    /\ UNCHANGED <<wanted, averaging, twelveBit, frame, limit, next, spawned, offset, tasks>>
    /\ UNCHANGED <<added, made>>

(* The loop that looks for a first frame.                                  *)
FirstFails ==
    /\ phaseOf = "first" /\ AnswerTo(n) = Failed
    /\ n + 1 \in Frames
    /\ n' = n + 1
    /\ AskFor(TheConsumer, {n'})
    /\ UNCHANGED <<wanted, averaging, twelveBit, phaseOf, frame, limit, next, spawned, offset>>
    /\ UNCHANGED <<tasks, added, made>>

(* The first frame is not Raw, or not of 12 bits: the pull ends with an    *)
(* error or a panic, and its turn never passes on.                         *)
FirstRefused ==
    /\ phaseOf = "first" /\ IsFrame(AnswerTo(n))
    /\ ~twelveBit
    /\ phaseOf' = "refused"
    /\ UNCHANGED <<wanted, averaging, twelveBit, frame, n, limit, next, spawned, offset, tasks>>
    /\ UNCHANGED <<added, made, vars, readerVars>>

to_spawn == IF NumFrames < Cpus + 1 THEN NumFrames ELSE Cpus + 1

(* It is written to every chunk, then the first tasks are spawned.         *)
FirstAnswers ==
    /\ phaseOf = "first" /\ IsFrame(AnswerTo(n))
    /\ twelveBit
    /\ added' = [k \in Chunks |-> {n}]
    /\ tasks' = (n + 1)..(n + to_spawn - 1)
    /\ spawned' = to_spawn
    /\ limit' = NumFrames
    /\ next' = n + to_spawn
    /\ phaseOf' = "adding"
    /\ AskFor(TheConsumer, tasks')
    /\ UNCHANGED <<wanted, averaging, twelveBit, frame, n, offset, made>>

(* A task adds its frame to one chunk, under the lock of the chunk.        *)
AddToChunk(f, k) ==
    /\ f \in tasks /\ IsFrame(AnswerTo(f)) /\ f \notin added[k]
    /\ added' = [added EXCEPT ![k] = @ \cup {f}]
    /\ UNCHANGED <<wanted, averaging, twelveBit, phaseOf, frame, n, limit, next, spawned, offset>>
    /\ UNCHANGED <<tasks, made, vars, readerVars>>

Finished(f) ==
    \/ AnswerTo(f) = Failed
    \/ IsFrame(AnswerTo(f)) /\ \A k \in Chunks : f \in added[k]

(* Variation: a failed pull does not move the window of later averages.    *)
TakeResultInPlace(f) ==
    LET failed == AnswerTo(f) = Failed
        limitNow == IF failed THEN limit + 1 ELSE limit IN
    /\ f \in tasks /\ Finished(f)
    /\ limit' = limitNow
    /\ n' = n
    /\ spawned < limitNow => next \in Frames
    /\ IF spawned < limitNow
       THEN /\ spawned' = spawned + 1 /\ next' = next + 1
            /\ tasks' = (tasks \ {f}) \cup {next}
            /\ AskFor(TheConsumer, {next})
       ELSE /\ tasks' = tasks \ {f}
            /\ UNCHANGED <<spawned, next, vars, readerVars>>
    /\ UNCHANGED <<wanted, averaging, twelveBit, phaseOf, frame, offset, added, made>>

(* futs.next(): a failed pull counts, and its place is taken by a further  *)
(* frame.                                                                  *)
TakeResult(f) ==
    LET failed == AnswerTo(f) = Failed
        limitNow == IF failed THEN limit + 1 ELSE limit IN
    /\ f \in tasks /\ Finished(f)
    /\ limit' = limitNow
    /\ n' = IF failed THEN n + 1 ELSE n
    /\ spawned < limitNow => next \in Frames
    /\ IF spawned < limitNow
       THEN /\ spawned' = spawned + 1 /\ next' = next + 1
            /\ tasks' = (tasks \ {f}) \cup {next}
            /\ AskFor(TheConsumer, {next})
       ELSE /\ tasks' = tasks \ {f}
            /\ UNCHANGED <<spawned, next, vars, readerVars>>
    /\ UNCHANGED <<wanted, averaging, twelveBit, phaseOf, frame, offset, added, made>>

(* All tasks are through: the turn passes on, and the average is answered. *)
AnswerAverage ==
    /\ phaseOf = "adding" /\ tasks = {}
    /\ made' = Append(made, added)
    /\ offset' = n - NumFrames * frame
    /\ frame' = frame + 1
    /\ phaseOf' = "waiting"
    /\ UNCHANGED <<wanted, averaging, twelveBit, n, limit, next, spawned, tasks, added>>
    /\ UNCHANGED <<vars, readerVars>>

AverageStep ==
    \/ BeginAverage \/ FirstFails \/ FirstRefused \/ FirstAnswers \/ AnswerAverage
    \/ \E f \in Frames : TakeResult(f)
    \/ \E f \in Frames, k \in Chunks : AddToChunk(f, k)

SourceNext ==
    \/ ReaderStep /\ UNCHANGED averageVars
    \/ \E c \in Consumers : PullerAsks(c)
    \/ AverageStep

(* The program does not stop: tasks are run in the end (TaskPool), reads   *)
(* return.  No step is ever undone, so that nothing stronger is needed.    *)
SourceSpec == SourceInit /\ [][SourceNext]_allVars /\ WF_allVars(SourceNext)

-----------------------------------------------------------------------------
(* Every average is made of NumFrames frames, the same ones in all chunks  *)
(* of its buffers, and the averages share out the frames of the input in   *)
(* order: none is in two of them, and none is left out but those that      *)
(* failed.                                                                 *)
AveragesPartitionTheInput ==
    \A i \in 1..Len(made) :
        /\ \A k \in Chunks : made[i][k] = made[i][1]
        /\ Cardinality(made[i][1]) = NumFrames
        /\ \A j \in 1..(i - 1) : \A a \in made[j][1], b \in made[i][1] : a < b
        /\ \A b \in made[i][1] : \A f \in 0..b :
               AnswerTo(f) # Failed => \E j \in 1..i : f \in made[j][1]

(* What a single consumer gets in the end.  A puller: an answer for every  *)
(* frame of the stream that it wants, and the error of the first one past  *)
(* its end (the pulls behind that one are never answered, because it       *)
(* leaves the turn as it is).  Average: as many averages as the frames     *)
(* without an error suffice for, or none if its input has the wrong        *)
(* format.  (Two consumers have no such promise: a late update of a        *)
(* TcpReader sets the turn back, and the other readers admit nobody once   *)
(* it is past a frame that one of the two has yet to wait for.)            *)
PullerIsServed(c) ==
    \A f \in 0..(wanted[c] - 1) :
        f < length \/ (f = length /\ kind # "webcam") => Answers(c, f) # Nothing
AveragesInReach ==
    LET enough == (length - Cardinality(bad)) \div NumFrames IN
    IF ~twelveBit THEN 0 ELSE IF enough < Averages THEN enough ELSE Averages
PullsAreAnswered ==
    <>[](\A c \in Consumers :
            users = {c} => PullerIsServed(c) /\ (averaging => frame = AveragesInReach))

-----------------------------------------------------------------------------
(* Why AveragesPartitionTheInput holds.  First is where the frames of the  *)
(* average that is being made begin (a failed pull raises n and limit      *)
(* alike), Floor the frame below which everything is settled.              *)
First == n + NumFrames - limit
Floor ==
    CASE phaseOf = "waiting" -> NumFrames * frame + offset
      [] phaseOf \in {"first", "refused"} -> n
      [] phaseOf = "adding" -> First

AverageTypeOK ==
    /\ averaging \in BOOLEAN
    /\ averaging => Cardinality(users) = 1
    /\ ~averaging => made = <<>> /\ phaseOf = "waiting" /\ Floor = 0
    /\ phaseOf \in {"waiting", "first", "adding", "refused"}
    /\ phaseOf # "adding" => tasks = {}
    /\ phaseOf = "first" => n \in Frames
    /\ frame \in Nat /\ n \in Nat /\ limit \in Nat /\ next \in Nat /\ spawned \in Nat
    /\ offset \in Int /\ Floor \in Nat
    /\ tasks \in SUBSET Nat
    /\ added \in [Chunks -> SUBSET Nat]
    /\ made \in Seq([Chunks -> SUBSET Nat])

MadeInOrder ==
    \A i \in 1..Len(made) :
        /\ \A k \in Chunks : made[i][k] = made[i][1]
        /\ Cardinality(made[i][1]) = NumFrames
        /\ \A j \in 1..(i - 1) : \A a \in made[j][1], b \in made[i][1] : a < b
        /\ \A a \in made[i][1] : a < Floor

(* Every settled frame failed or is in an average.                         *)
Settled ==
    \A f \in 0..(Floor - 1) :
        f \in Frames /\ (AnswerTo(f) = Failed \/ \E j \in 1..Len(made) : f \in made[j][1])

(* While an average is made: what is no longer a task has failed or is in  *)
(* every chunk, and every failed pull has moved the limit by one.          *)
Spawned == First..(next - 1)
Failures == {f \in Spawned \ tasks : AnswerTo(f) = Failed}
WindowIsFilled ==
    phaseOf = "adding" =>
        /\ next = First + spawned /\ spawned <= limit
        /\ tasks \subseteq (First + 1)..(next - 1)
        /\ spawned < limit => tasks # {}
        /\ \A f \in Spawned \ tasks :
               /\ f \in Frames /\ AnswerTo(f) # Nothing
               /\ IsFrame(AnswerTo(f)) => \A k \in Chunks : f \in added[k]
        /\ \A k \in Chunks : \A f \in added[k] :
               f \in Spawned /\ f \in Frames /\ IsFrame(AnswerTo(f))
        /\ Cardinality(Failures) = limit - NumFrames

AverageInv == AverageTypeOK /\ MadeInOrder /\ Settled /\ WindowIsFilled
=============================================================================
