--------------------------- MODULE SequentialReader ---------------------------
(***************************************************************************)
(* The readers that cannot go back: TcpReader, ZstdBlobReader and          *)
(* WebcamInput.  A pull waits on the reader's notifier until it is its     *)
(* frame's turn, takes the next blob from the stream, and sets the         *)
(* notifier to the frame after its own.  TcpReader admits a pull when the  *)
(* notifier has come to its frame or is past it, the others only when it   *)
(* is there.  Nothing but the turn ties a frame's number to a blob.        *)
(*                                                                         *)
(* An element of Waits is one pull.  Consumers ask for one frame after     *)
(* the other; the tasks that pull them run in any order.                   *)
(***************************************************************************)
EXTENDS AsyncNotifier, FiniteSets

CONSTANTS
    Consumers,   \* the nodes this reader is the input of
    Frames,      \* bound: frame numbers that are pulled
    Lengths,     \* bound: how many blobs the stream may have
    Failed       \* the pull answered with an error

Pulls == [op : {"==", ">="}, consumer : Consumers, frame : Frames]

(* Variation: a pull is admitted one frame early.                          *)
AdmitsEarly ==
    [w \in Pulls |->
        {v \in Values : IF w.op = ">=" THEN v + 1 >= w.frame ELSE v = w.frame \/ v + 1 = w.frame}]

(* The predicates of the three readers' waits.                             *)
Admits ==
    [w \in Pulls |-> {v \in Values : IF w.op = ">=" THEN v >= w.frame ELSE v = w.frame}]

ASSUME ReaderAssumption ==
    /\ Waits = Pulls /\ Accepts = Admits
    /\ IsFiniteSet(Consumers)
    /\ Frames \subseteq Nat /\ Values \subseteq Nat
    /\ Initial = 0 /\ \A f \in Frames : f + 1 \in Values
    /\ Lengths \subseteq Nat
    /\ Failed \notin Nat \cup {Nothing} /\ Nothing \notin Nat

VARIABLES
    kind,        \* which reader it is
    users,       \* the consumers that are there
    length,      \* how many blobs the stream has
    bad,         \* the blobs without any bytes (webcam)
    asked,       \* asked[c]: the frames c has asked for
    read,        \* how many blobs were taken from the stream
    blob,        \* blob[w]: the blob w took
    got          \* got[w]: the blob w was answered with, or Failed

readerVars == <<kind, users, length, bad, asked, read, blob, got>>

ReaderInit ==
    /\ Init
    /\ kind \in {"tcp", "zstd", "webcam"}
    /\ users \in SUBSET Consumers \ {{}}
    /\ length \in Lengths
    /\ bad \in SUBSET (0..(length - 1))
    /\ Cardinality(bad) <= (IF kind = "webcam" THEN 2 ELSE 0)
    /\ asked = [c \in Consumers |-> {}]
    /\ read = 0
    /\ blob = [w \in Waits |-> Nothing]
    /\ got = [w \in Waits |-> Nothing]

PullOf(c, f) ==
    [op |-> IF kind = "tcp" THEN ">=" ELSE "==", consumer |-> c, frame |-> f]

(* The first lines of pull, in the task of a frame that was asked for.     *)
StartPull(c, f) ==
    /\ f \in asked[c]
    /\ Wait(PullOf(c, f))
    /\ UNCHANGED readerVars

AwaitTurn(w) ==
    /\ scheduled[w] /\ Poll(w)
    /\ UNCHANGED readerVars

(* The next blob, under the lock of the stream.                            *)
TakeBlob(w) ==
    /\ phase[w] = "resolved" /\ blob[w] = Nothing
    /\ read < length
    /\ blob' = [blob EXCEPT ![w] = read]
    /\ read' = read + 1
    /\ UNCHANGED vars
    /\ UNCHANGED <<kind, users, length, bad, asked, got>>

(* read_exact meets the end of the stream; the notifier stays as it is.    *)
(* A webcam goes on for ever.                                              *)
MeetEof(w) ==
    /\ phase[w] = "resolved" /\ blob[w] = Nothing /\ got[w] = Nothing
    /\ read = length /\ kind # "webcam"
    /\ got' = [got EXCEPT ![w] = Failed]
    /\ UNCHANGED vars
    /\ UNCHANGED <<kind, users, length, bad, asked, read, blob>>

(* Variation: an empty blob is an error before the notifier is updated.    *)
AnswerBeforeUpdate(w) ==
    /\ blob[w] # Nothing /\ got[w] = Nothing
    /\ IF blob[w] \in bad THEN UNCHANGED vars ELSE Update(w.frame + 1)
    /\ got' = [got EXCEPT ![w] = IF blob[w] \in bad THEN Failed ELSE blob[w]]
    /\ UNCHANGED <<kind, users, length, bad, asked, read, blob>>

(* The notifier is updated; an empty blob is an error only after that.     *)
Answer(w) ==
    /\ blob[w] # Nothing /\ got[w] = Nothing
    /\ Update(w.frame + 1)
    /\ got' = [got EXCEPT ![w] = IF blob[w] \in bad THEN Failed ELSE blob[w]]
    /\ UNCHANGED <<kind, users, length, bad, asked, read, blob>>

ReaderStep ==
    \/ \E c \in users, f \in Frames : StartPull(c, f)
    \/ \E w \in Waits : AwaitTurn(w) \/ TakeBlob(w) \/ MeetEof(w) \/ Answer(w)

-----------------------------------------------------------------------------
Answers(c, f) == got[PullOf(c, f)]

(* With a single consumer frame f is the stream's blob f, whatever order   *)
(* the pulls run in and whichever of them fail.                            *)
FramesMatchBlobs ==
    Cardinality(users) = 1 =>
        \A w \in Waits : blob[w] # Nothing => blob[w] = w.frame

(* Why it holds.  The consumer's pulls take turns: the notifier has come   *)
(* to the frame whose blob is the next one, or was just taken and is not   *)
(* answered yet; pulls of earlier frames are answered, no value a pull was *)
(* woken with is later than the notifier's.                                *)
ReaderTypeOK ==
    /\ kind \in {"tcp", "zstd", "webcam"}
    /\ users \in SUBSET Consumers
    /\ read \in Nat
    /\ blob \in [Waits -> Nat \cup {Nothing}]
    /\ got \in [Waits -> Nat \cup {Nothing, Failed}]

Mine(c, w) == w = PullOf(c, w.frame)
Taken(w) == blob[w] # Nothing

EarlierAreAnswered(c) ==
    \A w \in Waits : Mine(c, w) /\ w.frame < data => Taken(w) /\ got[w] # Nothing
TakenInTurn(c) ==
    \A w \in Waits : Taken(w) => Mine(c, w) /\ blob[w] = w.frame /\ w.frame <= data
StreamInTurn(c) ==
    read = IF \E w \in Waits : w.frame = data /\ Taken(w) THEN data + 1 ELSE data
OnlyMine(c) == \A w \in Waits : phase[w] # "idle" => Mine(c, w)
WokenEarlier ==
    \A w \in Waits :
        /\ slot[w] # Nothing => slot[w] <= data
        /\ result[w] # Nothing => result[w] <= data

TurnsInv ==
    /\ ReaderTypeOK
    /\ \A c \in Consumers :
           users = {c} =>
               /\ EarlierAreAnswered(c) /\ TakenInTurn(c) /\ StreamInTurn(c)
               /\ OnlyMine(c) /\ WokenEarlier
=============================================================================
