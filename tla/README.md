# A TLA+ model of axiom-recorder

axiom-recorder is a pipeline for raw video: *nodes* that produce frames on
request, *sinks* that request them, and an executor that runs the requests on
all cores. Nearly everything hard about it is in how these three meet: requests
run in parallel, finish out of order, fail, wait for each other's turn, and
some inputs (a socket, a compressed stream, a camera) can be read only once and
only in order. This directory models that part of the code in TLA+, checks it
with TLC, and proves the central properties with TLAPS. Line numbers in
comments refer to the file named in the module's header.

## 1. The system

| component | source (`src/src/`) | state | operations | hard because |
|---|---|---|---|---|
| prioritized executor | `pipeline_processing/prioritized_executor.rs` | heap of runnables, condvar, worker threads, one state word per task | spawn, wake, drop, pop, poll | the notification is sent outside the lock; tasks are woken while they are polled |
| priority keys | `pipeline_processing/processing_context.rs` 46-70 | one `u64` | new, for_frame, get_frame, order | bit fields |
| processing context | `processing_context.rs`, `gpu_util.rs` | the reactor, a tokio runtime, a Vulkan device | spawn, block_on, buffer conversion | `RECORDER_NUM_THREADS=0` |
| pullers | `pipeline_processing/puller.rs` | range, futures in flight, `should_stop`, `latest_frame`, channel | pull_unordered, pull_ordered | out-of-order completion, end of file, back-pressure, sinks that leave |
| async notifier | `util/async_notifier.rs` | data, vector of futures with predicates, a waker and a slot per future | wait, update, poll | missed wake-ups, predicates that hold only for a moment |
| cache node | `nodes_util/cache.rs` | map frame -> (payload, count), notifier | pull | check before an await, use after it; a blocking lock across an await |
| dual frame decoder | `nodes_cpu/dual_frame_raw_decoder.rs` | whose turn, next input frame, last read buffer, kept half | pull | lost half frames, resynchronisation |
| average | `nodes_cpu/average.rs` | whose turn, offset; per pull a set of tasks and a buffer in chunks | pull | windows that shift when pulls fail; several tasks fill one buffer |
| sequential readers | `nodes_io/reader_tcp.rs`, `nodes_cpu/zstd.rs`, `nodes_io/reader_webcam.rs` | notifier with the next frame, stream | pull | several requesters, the end of the file |
| random access readers | `nodes_io/reader_raw.rs`, `reader_cinema_dng.rs` | file, frame cache | pull, get_caps | sizes from the user, unbounded cache |
| processing graph | `pipeline_processing/processing_graph.rs`, `nodes.rs` | node configurations, built nodes, sinks | add, build, run | hash-map order, duplicates in the work list, cycles, failing sinks |
| parameters | `pipeline_processing/parametrizable.rs` | none | parse, take, defaults | two front ends with different checks, casts |
| buffers and formats | `pipeline_processing/buffers.rs`, `frame.rs`, `payload.rs`, `gpu_util.rs` | where a buffer lies; locks of chunks | allocation, conversion, zip_with | uninitialised memory, lengths that only the interpretation tells |
| file sinks | `nodes_io/writer_*.rs` | file | run | failing writes; the first frame is unwrapped |
| benchmark sink | `nodes_cpu/benchmark_sink.rs` | - | run | which of its errors end it |
| display, plot, fps report | `nodes_gpu/display.rs`, `plot.rs`, `util/fps_report.rs` | window, channel of one, thread of the event loop | run | event loop against pipeline, and against every other sink: it ends the process |
| frame server | `nodes_io/frameserver_cinema_dng.rs` | guessed size of a file | run | on-demand pulls; it unwraps the frame count and the first frame |
| cpu and gpu converters | `nodes_cpu/*`, `nodes_gpu/*`, `nodes_util/split.rs` | none | pull | index arithmetic; what they assume of their input |
| command line, player | `bin/*`, `gui/*` | request queue of the player | - | - |

How they interact. A sink's `run` calls a puller; the puller *spawns* one task
per frame on the executor, with the frame number as key, and awaits the tasks.
A task calls `pull` on the sink's input, which calls `pull` on its inputs, and
so on up to a reader. Nodes that need an order wait on an `AsyncNotifier` until
it is their frame's turn and `update` it when they are done, which wakes the
next task through the executor. A `Cache` joins several consumers of one
sequential node. Errors travel back as results; the end of a file is one of
them (`EOFError`), recognised by the pullers.

What makes each part correct:

* executor - no wake-up is lost, a task is polled by one thread at a time and
  never forgotten, keys are respected;
* notifier - nobody sleeps while his predicate holds, nobody misses a moment at
  which it held, what is returned satisfies the predicate;
* pullers - every frame that can be delivered is delivered, in order where
  that is promised, memory is bounded, they end when the file or the sink ends,
  errors are not swallowed;
* cache - every frame is pulled once, kept for everyone who still needs it and
  no longer, the capacity holds, everybody is served;
* processing graph - what is returned is complete, inputs exist before their
  users, no order of the hash maps matters, no sink is cut off by another's error;
* sequential readers - for a single consumer a frame number always means the same
  blob, and every pull that can be answered is;
* average - the averages share out the input, every chunk of a buffer holds the
  same frames;
* formats and nodes - a buffer is as long as its interpretation says, every byte
  handed on was written, a frame that does not fit is refused and does not take
  a thread with it, a node's frame count never promises what its input lacks;
  the nodes that do otherwise are known;
* parameters - what a node takes has the kind it asks for (the two front ends do not
  read every text alike, and nothing in the repository says that they do);
* window - frames are shown in order, the process ends, and not too early;
* decoder - never mixes two exposures, finds back after losses, reads its input
  without gaps.

## 2. The modules

| module | what it is |
|---|---|
| `TaskPool` | abstract: what `ProcessingContext::spawn` promises - at most `Threads` tasks polled at a time, wake-ups remembered, work-conserving |
| `PrioritizedReactor` | the executor, with `ImplementsTaskPool` as refinement |
| `PriorityKey` | the keys of its heap, as operators |
| `OutputScheduling` | the reactor with these keys: outputs and frames in order |
| `PriorityMoves` | keys that are made, moved and read back |
| `PullSource` | what both pullers share: range, kind of input, outcomes of a pull, in which order a node answers |
| `OrderedDelivery` | abstract: what a sink reading from `pull_ordered` counts on |
| `PullOrdered`, `PullUnordered` | the two pullers |
| `AsyncNotifier` | wait, update, poll |
| `SequentialReader` | extends it: the TCP, zstd and webcam readers, whose pulls take turns |
| `AveragedSource` | extends that: a reader and what pulls from it, pullers or one `Average` |
| `CacheNode` | the cache with its two mutexes and the workers they block |
| `DualFrameDecoder` | the decoder against a camera that loses half frames |
| `ProcessingGraph` | the builder's work list, and running all sinks |
| `WindowSink` | `Display` or `Plot` with its thread, beside another sink in one process |
| `FrameFormats` | payloads, interpretations, and buffers: their length, where they lie, whether they are written |
| `CpuNodes`, `GpuNodes` | what each node makes of a payload |
| `Endpoints` | what readers deliver and sinks take, DNG files |
| `Parameters` | how a node comes by its parameters on the command line and in a configuration file |
| `FramePipeline` | composes these five: a frame on its way from parameters through reader and nodes to a sink, and through DNG files back |
| `MC*` | instances for TLC |
| `*Proofs` | theorems |

Two kinds of abstraction divide the work. The modules with actors (executor, pullers,
notifier, readers, cache, graph, window) follow control: a frame is its number, and
which lines run in which order is everything. `FramePipeline` and the modules of
operators it is made of follow one frame and forget about time: there a node is a
function from payloads to payloads, errors and panics. `AveragedSource`
and `Average` of `CpuNodes` are the two views of the same file.

Definitions whose comment begins with "Variation" are not part of any
specification. Each is an action or operator with a plausible mistake; put in
the place of the definition below it, it breaks one of the properties, which
shows that the property depends on that line of the code.

### State and actions

`PrioritizedReactor`. `queue` is the heap (a set of tasks: each task has at
most one runnable), `worker`/`current` the place of each thread in the loop of
`start_inner`, `call`/`job` how far a thread is in the `schedule` closure,
`state`/`closed` the state word of `async_task`. Each critical section of the
mutex is one action: `Push` and `Notify` are two, because the closure unlocks in
between; `Pop` and `Wait` are the two outcomes of a look at the heap, `Wait`
atomically with the unlock as a condition variable guarantees. `WakeIdle`,
`WakeRunning`, `DropHandle`, `FreeClosed` and `PollPending` follow async_task,
which is not in the repository, from how the code uses it.

`PullUnordered`. `pc` is the place in the loop (`top`: lines 44-51, `push`: 52,
`check`: 85), `task[f]` the place in the task body. `AwaitAny`, `SpawnNext` and
`CheckStop` are separate steps because tasks run between them. `outcome` is
chosen at the start: how the pull of each frame will end. The end of a task is three
steps, `RaiseLatest` (78, `fetch_max`), `ShowProgress` (79, the callback) and `EndTask`
(81), between which other tasks run: `latest` is the shared maximum, `seen[f]` what
`fetch_max` returned to task `f`, `shown` where the progress bar stands.

`PullOrdered`. The same for the thread of `pull_ordered`, with the bounded
channel, the payload in `send_async` (`hand`), and the sink's side
(`Receive`, `ReceiveEnd`, `HangUp`).

`AsyncNotifier`. `slot`, `waker` and `futures` are the fields of the code;
`scheduled` says that the executor will poll the waiting task. `update` and
`poll` are one step each; the module's header says why that loses nothing.

`SequentialReader`. A pull is an element of `Waits`, that is of `Pulls`: the consumer,
the frame, and the comparison its reader waits with (`>=` for TCP, `==` for the
others). `StartPull`, `AwaitTurn`, `TakeBlob` or `MeetEof`, and `Answer` are
its steps. `read` counts the blobs taken from the stream, `blob[w]` is the one pull `w` took;
in `Answer` the notifier is updated before an empty blob becomes an error, as in
reader_webcam.rs, while the end of the stream (`MeetEof`) updates nothing.

`AveragedSource`. A puller asks for frame after frame (`PullerAsks`), each puller with its
own number of frames (`wanted[c]`) and its own window of unanswered pulls.
For `Average` the variables `n`, `limit`, `next`, `spawned` and `offset` are the locals of
`pull` and the field of `last_frame_info`, `tasks` the frames of `futs`, `added[k]` the
frames added to chunk `k`. `BeginAverage`, `FirstFails` and `FirstAnswers` are the
search for a first frame, `FirstRefused` is its end when the format is wrong (average.rs
65-69: the notifier is not updated, so that no later average gets its turn), `AddToChunk` is a task under the lock of one chunk,
`TakeResult` a round of the loop over `futs`, `AnswerAverage` the end of `pull`.

`CacheNode`. `feed` is the map (frame -> remaining consumers), `lock` the guard
kept across the await, `updater` the holder of the notifier's mutex, `running`
the tasks that occupy a worker - also while they block on a mutex. `update` is
split into `UpdateBegin`, `Visit` per future and `UpdateEnd`, because every
predicate takes the map's lock. The future that touches the map runs after the
notifier has looked at its waiters: `UpdateEnd` before `Hit` or `Fill*`.

`DualFrameDecoder`. The four fields of `LastFrameInfo`, the half taken over from
it (`kept`), the halves pulled, and a camera (`sent`, `run`) that is not part of
the repository and is modelled from how the decoder reads its frames.

`ProcessingGraph`. `nodes`, `avail`, `queue`, `built` and `sinks` are the
variables of `build`; one action per outcome of a round of its loop: the node on
top is gone (`VisitGone`, a panic), waits for inputs (`Defer`), or is created
(`Create`, `CreateFails`). Where the code iterates over a hash map or set the model
takes any order. `run` is `RunBegin`, one `SinkEnds` per sink, and `RunEnds`.

`WindowSink`. `run` is the place of the sink's `run` on the main thread, `queue`
the channel of one, `thread` the place in the event loop, `flow` its control flow,
`source` the frame in `source_buffer`. `RunReceive` and `RunSend` are the loop of
`run`; `Redraw`, `ReceiveFrame`, `ReceiveNone`, `DrawNothing`, `DrawOutOfDate`,
`Draw` are the branches of `RedrawEventsCleared`; `CloseRequested`, `Resized`, `Restored`
and `TimePasses` are the user and the clock; `BenchRound` and `MainReturns` are the
other sink and the end of `main`. That control flow keeps `Exit` within an
iteration and that the event loop never returns are winit's and modelled as such.

`Parameters`. A text counts by what it reads as, separately for `str::parse` (command
line) and for `serde_yaml` (`Readings`, `Texts`), because the two differ: `012` is an integer for
the one and a string for the other, `0x10` the other way round.

`FramePipeline`. `given` holds the texts of the reader's parameters until `Configure`
takes them through `Parameters`. `Read`, any number (up to `MaxNodes`) of `CpuStep` and
`GpuStep`, and `SinkStep` extend `trail` and replace `payload`; `outcome`
says whether the frame still flows, was written, or met an error or a panic. Frames may be
empty (width or height 0). A device may then refuse to give a buffer of no bytes, whose
allocation is unwrapped; that is vulkano's affair, so the model takes both outcomes (`Vanishes`,
outcome `no_buffer`). `Starve` is what a refusal does at a sink that unwraps the first frame it
receives, `RefuseCube` the end of a program whose lookup table cannot be read. A webcam is set
to one to four bytes per pixel; with less than three the reader leaves the rest of its buffer
unwritten, and the trail calls it `WebcamInput16`.
`count` is the frame count the last node announces in its `Caps` and `needs` the input
frames each of these is made of. `Reopen` and `ReadDng` read a written directory again.
A payload's pixels are not followed; `whole` says whether all of its bytes were
written. Every operator named after a node is its `pull`.

## 3. The runs

| run | question | bounds |
|---|---|---|
| `Reactor` | lost wake-ups, double polls, order of outputs and frames; is every wake-up served; does the reactor implement the pool | 2 workers, 1 client, 3 tasks (two of equal key), 1 pending poll per task, 3 bits per frame |
| `PriorityLayout` | is the frame that is read back the one asked for: **violated** | outputs 0..3, 3 bits per frame |
| `Ordered` | delivery with pulls answered in any order, with any errors, up to the end of the file; memory; does the thread end if the sink leaves | 5 frames, 2 threads, both kinds of input, end of file at 0..3 or nowhere |
| `Unordered` | completeness, errors, progress, end of file | 5 frames, 2 threads, both kinds of input, end of file at 0, 1 or nowhere, writes may fail |
| `UnorderedEofHang` | end of file close to the end of the range: **violated** | 3 frames, end of file at 0, 1 or 2 |
| `Sources` | missed wake-ups, which blob a frame is, how averages share out the input, does a single consumer get every answer there is | one or two consumers with a window of 2 each, every division of up to 3 frames between them, or `Average` with an input of the right or the wrong format, streams of 1, 4 or 8 blobs; averages of 3 frames, 2 cpus, 2 chunks, 2 averages, up to 2 empty blobs |
| `Cache` | capacity across the await, one pull per frame, nobody's frame is gone; is everybody served | 3 consumers, capacity 1; 2 frames on 2 workers with an input that suspends or not and may fail, and 3 frames on 1 worker |
| `Decoder` | pairs, resynchronisation, numbering of the input | 16 half frames, up to 4 lost in a row, 2 read buffers, a counter that wraps inside an exposure, pulls that fail |
| `Graph` | is each graph built completely, inputs first, chains without panic; does success mean that every configured sink has run | 3 names, 2 inputs per node, stack of 6 |
| `GraphDiamond` | do graphs without cycles never panic: **violated** | as `Graph` |
| `Pipeline` | lengths, unwritten bytes, panics, frame counts, the documented pipelines | all chains of up to 3 nodes between all readers and sinks, with and without a device; sides -1, 0, 2, 3, 18 and texts that are floats or names, depths 0, 4, 8, 16, a `012` and a `0x10`, frame rates that are integers, floats or negative, webcams of 1 to 4 bytes per pixel, all CFA patterns, 2 threads, 2 frames in a file, averages of up to 2, integers of 64 values |
| `Window` | order on the screen, frames lost at the end, does the process end | 4 frames, a benchmark with 1 or 3 rounds beside it, 2 resizes or swapchains out of date |

Why the bounds are enough. The executor's races need two workers and one
runnable more than there are workers that look, so three tasks; with two
workers a task can be woken while another worker polls it. A puller with two
threads has a full window, an out-of-order completion and a task behind the end
of the file; four frames fill window and channel, and `Ordered` has five so
that more frames exist than may be alive. In `Unordered` the range is
longer than the last end of file plus the window, in `UnorderedEofHang` it is not;
that is the difference that matters between the two. In `Sources` a second
consumer is what breaks the tie of frames and blobs (of two consumers the run therefore asks only
that nobody sleeps while his predicate holds); with `Average`, three frames per
average and two cpus mean that not all tasks are spawned at once, two chunks that
tasks meet inside a buffer, and eight blobs are enough for two averages and the failed
pulls between them, one or four blobs for a stream that ends in the middle. Capacity 1 is the smallest cache
and makes every request compete; the second setup of `Cache` has a frame more
than fits at any time. In the decoder's run the counter has 8 values
instead of 256; what matters is that fewer half frames are lost in a row than
make the counters match again, which is an assumption of the module
(`CameraAssumption`). A loss of 254 half frames in a row is outside it. Three names make every shape `build` treats differently: a chain,
a diamond's shared input, a double input, a cycle, a part of its own. Without a cycle the
stack holds at most five names; with one it grows without end, and the
bound only cuts that off. In `Pipeline` the sides contain a value of each kind
the arithmetic tells apart (negative, zero, even, odd, and wide enough that
lengths of different depths do not coincide by accident), and the depths one below a byte, which no
node unpacks; two frames are the fewest of which an average can leave one out; any two nodes meet in
a chain of two, and the third shows what a changed format does further on. In `Window` four frames are two
more than fit into the channel and the thread, so that frames can be lost at the end and
others must not be.

Deadlock is checked for the reactor and for `PriorityLayout`. The other
systems stop when their work is done (and the cache when it is stuck, see
below), so their configurations switch the check off; that they reach their end is
what `Terminates`, `PullerEnds`, `DeliversInOrder`, `PullsAreAnswered`,
`EverybodyIsServed`, `ChainsAreBuilt` and `ProcessEnds` say. A cyclic graph stops at the bound of its stack.

Fairness. Weak fairness per thread and per task: threads are scheduled by the
operating system and the steps are not disabled again by others, with one
exception: a worker may find the heap empty again, which its own fairness covers
because `Pop` and `Wait` belong to the same thread's step. Nothing forces a
client to spawn, wake or drop, a sink to hang up, a camera to lose frames, or a
condition variable to wake up spuriously. A scheduled task is polled in the
end - that is `WakeupsAreServed` of the reactor; the models of the pullers assume,
beyond that, that nodes answer what they can answer. `AveragedSource` needs only weak
fairness of its whole next-state relation: every step is taken once and for good, so a system
that does not stop comes to all of them. In `WindowSink` both threads, the other
sink and the clock are weakly fair, and a minimised window is restored if it
is minimised again and again (strong fairness of `Restored`): a window that stays
minimised for ever stops the stream, and with it the process, as it does in
the program. `FramePipeline` and `DualFrameDecoder` make safety claims only.

### What the runs found

* `pull_unordered` looks at `should_stop` only after spawning another task
  (puller.rs 85). If the range ends within `num_threads` frames after the end of
  a sequential file, it prints "end of file, exiting" (line 67) and then waits for
  pulls that are never answered: `UnorderedEofHang`.
* `Priority` is documented as `[u8 output priority, u56 frame number]`, but
  `MASK` has 60 bits. For output priorities that are not multiples of 16
  `get_frame`, `for_frame` and `Display` are wrong: `PriorityLayout`. The order of
  keys made by `new` is right, and that is all the executor uses.
* `ProcessingGraphBuilder::build` puts a node on its stack once per visit that
  misses it. If a node is missing twice (both inputs of a node come from
  it, or it is an input of a node and of that node's other input), it is created
  from the upper entry and `unwrap` panics at the lower one (processing_graph.rs
  195): `GraphDiamond`. For the second shape it depends on the order of a hash map
  and on the node `build` starts with. Pipelines of the command line are chains,
  for which `ChainsAreBuilt` holds; configuration files can hold both shapes.

More behaviours contradict nothing the repository says, and are listed as
hazards or noted here, not as findings:

* A `Cache` may leave requests asleep for good, since the removal of an entry
  happens after the notifier has looked at its waiters (two consumers, capacity 1,
  two workers); it may block every worker on the map's mutex while the input of
  the one that holds it waits for a worker (with a suspending input and as many
  waiting requests as workers); and an entry inserted for a single consumer is
  never removed.
* At the end of a file `pull_unordered` drops up to `num_threads - 1` frames that it
  has pulled (`BoundedLoss` is the bound), write errors among them.
* Two consumers of one sequential reader get different blobs for the same
  frame number, and they can block each other for ever: `==` (zstd, webcam) admits nobody once the notifier
  has passed a frame, and with `>=` (tcp) a late update sets the turn back (reader_tcp.rs 58). A TODO
  in zstd.rs (56-60) says that this is not handled; `FramesMatchBlobs` and `PullsAreAnswered` are about
  one consumer. A `Cache` in between is what the code means by it.
* An `Average` whose first frame has the wrong format answers one pull with an error, or panics for a
  depth other than 12 (average.rs 65-69), and never passes the turn on: all later pulls wait for ever.
* The progress bar may go back, since `fetch_max` and the callback are two steps, and it ends one
  update behind (`fetch_max` returns the maximum before the frame).
* A `Display` or `Plot` ends the process when its stream is over, whatever other sinks
  still have to do.
* Configuration files are not checked against the declared ranges: casts wrap, so that a
  negative width becomes a huge one, and an `f64` that is written as an integer is
  refused. The command lines of the repository's README.md (96, 102, 107) give the directory reader `--loop`;
  the parameter is `internal-loop`. Line 102 gives the DNG writer `--output`; the parameter is `path`.
* With `internal-loop` a reader has no frame count, and the frame server unwraps the frame count of its
  input (frameserver_cinema_dng.rs 121): the command line of README.md 107, which asks for a loop, panics once its
  parameter is spelled right. `DocumentedChainsFlow` names it as the one documented chain that does not work.
* `FfmpegWriter` unwraps the first frame it receives (writer_ffmpeg.rs 62): when a node before it refuses
  every frame, the program ends in a panic and not with the node's error (`Starve`).
* A webcam set to a format of less than three bytes per pixel fills only part of the frame
  (reader_webcam.rs 95); the rest is uninitialised memory.
* `fps = 0` in a file panics in the display's thread; a width or height of 0 divides by zero
  in `RawBlobReader`.
* `ColorVoodoo` allocates its buffer without the transfer usage, so a CPU node after it
  panics; `Histogram` passes its counters off as pixels of its input's format; the group
  loops of the CPU nodes leave the tail of odd sizes unwritten.
* `row_noise_removal/mod.rs` (22, 190) describes the lags of its rows as 0, -1, 1, -2, 2; the code gives
  0, -1, 1, 0, 2. The built-in models use no more than it gets right.
* The raw readers keep every frame, whatever `cache-frames` says (reader_raw.rs 92).

## 4. The proofs

All theorems hold for every value of the constants that satisfies the `ASSUME`s
of the module. These are the bounds' types, that the model values that stand for "nothing" are none
of the values, and what the code fixes: that a reader's notifier starts at 0, that
a shift is larger than all frame numbers, that there is a worker.

`PrioritizedReactorProofs`: any number of workers, clients and tasks.
`NoStrandedWork` counts: while someone sleeps, there are at most as many
runnables in the heap as workers about to look plus notifications under way.
Alone it is not inductive: that `Push` adds one runnable *and* one notification
needs the pushed task not to be in the heap already, which is `OneHolder`; and
`OneHolder` needs that a thread between two steps really holds a task
(`HandsFull`). `IInv` is their conjunction with `TypeOK`. The order of the heap (`HeapOrder`)
follows from `Pop` and from the fact that nothing else takes runnables out; the
safety half of the refinement (`ReactorImplementsPool`) maps every action to one
of the pool's or to a stutter and uses `OneHolder` to bound the number of polled tasks by
the number of workers. `OutputsAndFramesInOrder`, at the end of the module, adds the keys of
`OutputScheduling` to the order of the heap: packing keeps the order of pairs (`NewKeepsOrder`), for any shift
that is larger than all frame numbers (`WantedAssumption`).

`PullOrderedProofs`: any range, number of threads, input and sink. The
invariant is that the concatenation received - channel - hand - in flight -
next is ascending (`PipelineInOrder` with bounds by `next`), that what is in hand
left room in the window, and types.

`ImplementsDelivery` is the safety half of `DeliversInOrder`: Init, and every step of puller, tasks, channel
and sink, is one of `OrderedDelivery` or a stutter. `DeliveryInv` is what that takes: a pull that
was answered lies before the end of the file (`AnsweredBeforeEof`), what is on its way can be
delivered (`OnlyDeliverable`), and a requested frame that can be delivered is received or on its way
(`NothingLeftOut`), so that the next frame that arrives is the next one the abstract
specification owes, and the end is told when it owes none.

`PullUnorderedProofs`: any range, number of threads, order of the answers and failing
writes. Tasks exist for the requested frames, and those that are not awaited any more have finished
(`RequestedHaveTasks`, `AwaitedOrFinished`); a task that is past its write has written
(`WrittenByThen`). `BoundedLoss` needs an argument about the window: the loop
leaves at the end of a file right after it has spawned a task, whose frame lies behind that end and is not
among the lost ones; it is in flight with at most `num_threads - 1` others
(`WindowIsKept`), and `should_stop` is raised only by a frame that was asked for (`StopHasReason`).
`ProgressIsEarned` holds of the bar because it holds of every value on its way there, the shared maximum and
what each task has read of it (`LatestIsEarned`), in whatever order tasks raise and show it.

`ProcessingGraphProofs`: any configuration, cyclic ones included. `BuildComplete`
needs to know that nothing is left in the map of configurations when the stack
runs empty: `Partition` (a name is in the map or built, not both) and
`Reachable` (what is in the map is in `avail` or on the stack, and `avail` is empty
when the stack is) make it inductive. `InputsFirst` follows from the
same invariant, and so does `SuccessIsComplete`: `run` asks all sinks that were built, and all that were
configured were built.

`AveragedSourceProofs` begins with the notifier alone, for any predicates: its invariant adds to the two
properties that an unfilled future is in the vector with a false predicate
(`UnfilledIsWaiting`) and that slots hold accepted values. Then any consumers, streams, windows, numbers of frames, cpus and chunks. That the
notifier's invariant holds for it in its real use (`ReadersMissNoWakeup`) is a matter
of showing that every step of readers, pullers and `Average` is a step of the
notifier or leaves it alone. With one consumer, frame `f` is blob `f`
(`SingleConsumerInTurn`): `TurnsInv` says that pulls of frames before the notifier's
value have been answered, that at most the pull of that very frame has taken a blob and
not answered, and that the stream's position is the notifier's value or one
more. It needs `WokenEarlier`, that no pull is woken with a value the notifier has
not reached, to conclude that a `>=` pull behind the others does not take a blob early.
`AveragesPartitionTheInput` follows the window of `Average::pull`. Below `Floor` every frame
has failed or is in an average (`Settled`), and while an average is made, the frames from `First` to `next`
are tasks still running, failures, or in every chunk (`WindowIsFilled`). The count in it, that there
are `limit - NumFrames` failures among them, is what makes an average of exactly `NumFrames`
frames although `limit` and `n` move under the loop.

`WindowSinkProofs`: any number of frames, rounds and troubles. A frame `run` has received is with
`run`, in the channel or was taken by the thread (`FramesInPlace` counts them), and what
was taken is drawn but, at most, for the one at hand (`DrawnOfTaken`). From this follow
the order on the screen and, with the reasons for which the process can end
(`EndsHaveReasons`), that at most two frames are lost.

`CacheNodeProofs`: any consumers, capacity, workers and frames. The room a request sees before it
awaits the input is still there when it inserts, because it holds the map's mutex
(`RoomIsKept`, with `FillerHasLock`); `DeliveredOnce` ties
the number of deliveries of a frame to whether it is in the map and who still needs it: an
entry that is gone is needed by nobody, so nobody pulls the frame again. `WakesSleepers`, that
`update` wakes only requests that sleep, keeps a request from running twice.
`WithinCapacity`, `PulledOnce` and `KeptForTheRest` follow.

`FramePipelineProofs`: any sizes, depths, patterns, texts of parameters, number of threads, frames in a file, and chains
of any length between any reader and any sink, with or without a device.

* `PipelineInv` says that the payload in hand is a frame, or twice the same frame in a list, whose
  fields are consistent and which fits the nodes passed so far (`FrameFits`): as
  long as its interpretation requires, completely written, and, to keep these up, of even sides and
  with pixels that can be shared out, wherever the passed nodes leave that standing. There is one
  lemma per reader, node and sink (`ReaderDelivers`, `NodeKeeps` and `SinkTakes` name what is to be shown of each);
  what they rest on is the arithmetic of lengths: that rows, groups of pixels and the shares of
  threads tile a buffer. `PanicsAreKnown`, `BuffersAreLongEnough` and `BuffersAreWritten` follow.
* `CapsInv` is inductive by itself: halving, doubling and grouping frame counts each keep it.
* `ChainsInv` says what the documented chains carry from node to node (`Carried`); that the chains work
  is then a matter of `CpuHas` and `GpuHas`, that a frame of the right kind gets to a
  node wherever its buffer lies. It uses `PipelineInv` for the lengths.
* `DecoderInv` is about `DualFrameDecoder`, whose theorems stand at the end of this module: any counter, losses
  shorter than its period, 2 to 4 read buffers. The half pulled last is the one sent last, so that
  the halves of a pair are no further apart than a gap allows, and fitting counters then mean neighbours
  (`HalvesInOrder`); `FindsBack` bounds, for each place in `pull`, the half frames since the last
  loss after which the decoder is in step or holds the first half of an exposure.

Two properties had to be restated before they could be proved, because the small instance had hidden
that they were false. `NothingUnwritten` does not hold for depths below 8, which `BitDepthConverter`
copies group by group and leaves partly unwritten, nor for three threads when `DebayerResolutionLoss`
or `RowNoiseRemoval` comes before or after `Average`, since the pixels can then no longer be
shared out; its premise (`MustBeWhole`) now says so. `CapsCoverRequests` named an exact set of frames and held only for
averages of up to two; it now compares the frames requested by later and earlier outputs. In the other
direction, `DocumentedChainsFlow` turned out not to need even sides, and no longer asks for them; two pixels
a side it does need, for the display's chain, whose `DebayerResolutionLoss` halves them.

The strengthenings that stand in the component modules (`IInv`, `AverageInv`, `DecoderInv`, `PipelineInv`,
`CapsInv`, `ChainsInv`) hold on the small instances as well: put among the INVARIANTS of the module's
configuration, TLC confirms them.

Only model-checked: everything about liveness and fairness (`WakeupsAreServed`,
the fair halves of `ImplementsTaskPool` and `DeliversInOrder`, `PullerEnds`,
`StopsAtEof`, `Terminates`, `PullsAreAnswered`, `EverybodyIsServed`, `ChainsAreBuilt`,
`ProcessEnds`), because TLAPS does not reason about `ENABLED`. The invariants of the passing runs
are all proved. What recursive definitions compute for all inputs is out of
the prover's reach as well; there are none here.

## 5. Not modelled, and the plan

Not modelled: rendering and the arithmetic of the shaders and of the pixel loops;
`FPSReporter`; the WebDAV operations of the frame server; the search for a Vulkan device
and `RECORDER_NUM_THREADS=0`, which only fix constants; file formats and directories;
progress bar and help texts; `ListParameter` and the descriptors; a request's extras and
`PinCache` (cache.rs 70 and 78 ask for it, nothing in the repository sets it, so that a request never
carries it); the frame cache of the raw readers (with
it a frame is the same payload as without); the player and the gui; `rgb_to_rgba.rs`,
which is no module of the crate.

What is left, in this order:

1. That decoder and reverse decoder are inverse on the lines of an exposure.
2. The frame cache of the raw readers under concurrent pulls.
3. The player's request loop.
