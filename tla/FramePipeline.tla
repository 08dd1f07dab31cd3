---------------------------- MODULE FramePipeline ----------------------------
(***************************************************************************)
(* A frame on its way through a pipeline.  The reader's parameters come    *)
(* from the command line or from a file, the reader delivers a payload,    *)
(* each node of the chain makes another one of it, and a sink takes it.    *)
(* Every chain that can be connected is one behaviour: nothing in the      *)
(* program looks at formats before frames flow.                            *)
(*                                                                         *)
(* A panic is the end of the worker thread it happens on (or of the        *)
(* display's thread, or of the start of the program).                      *)
(***************************************************************************)
EXTENDS FrameFormats, CpuNodes, GpuNodes, Endpoints, Parameters, FiniteSets

CONSTANTS
    Sizes,       \* texts that may be given for width and height
    Depths,      \* texts that may be given for bit-depth
    Switches,    \* texts that may be given for rgb
    Rates,       \* texts that may be given for fps
    Patterns,    \* the CFA patterns of the input
    MaxNodes,    \* bound: nodes between the reader and the sink
    NumThreads,  \* context.num_threads()
    Stored,      \* bound: the frames the readers' files hold
    MaxAveraged  \* bound: the parameter n of Average

ASSUME PipelineAssumption ==
    /\ NumThreads \in Nat \ {0} /\ Stored \in Nat \ {0} /\ MaxAveraged \in Nat
    /\ Patterns \subseteq Cfas
    /\ Sizes \cup Depths \cup Switches \cup Rates \subseteq Texts

VARIABLES
    gpu,         \* does the context have a Vulkan device?
    frontend,    \* where the parameters come from: "cli" or "file"
    given,       \* the texts given for the reader's parameters, until it took them
    interp,      \* the interpretation the reader takes from them, or None
    trail,       \* the nodes the frame has come through, the reader first
    payload,     \* what the last of them delivered, or None
    count,       \* Caps.frame_count of the last node, or Endless
    needs,       \* needs[f]: the reader's frames that frame f is made of
    dng,         \* the DNG file that was written, or None
    outcome      \* "flowing", "written", "error", "panic", or "no_buffer" (Vanishes)

pipelineVars == <<gpu, frontend, given, interp, trail, payload, count, needs, dng, outcome>>

None == Absent
Endless == Absent

(* The texts for the parameters of an interpretation.                      *)
GivenTexts ==
    [width : Sizes, height : Sizes, bit_depth : Depths \cup {Absent},
     rgb : Switches \cup {Absent}, fps : Rates \cup {Absent}]

PipelineInit ==
    /\ gpu \in BOOLEAN
    /\ frontend \in {"cli", "file"}
    /\ given \in GivenTexts
    /\ interp = None
    /\ trail = <<>>
    /\ payload = None
    /\ count = Endless
    /\ needs = <<>>
    /\ dng = None
    /\ outcome = "flowing"

-----------------------------------------------------------------------------
(* The parameters are parsed and taken; what cannot be is the end of the   *)
(* program, with an error.                                                 *)
Configure ==
    LET got(name) == Taken(frontend, name, given[name]) IN
    /\ given # None
    /\ IF \E name \in DOMAIN given : got(name) = Failed
       THEN outcome' = "error" /\ UNCHANGED interp
       ELSE /\ \E c \in Patterns :
                interp' = get_interpretation(got("width")[2], got("height")[2],
                                             got("bit_depth")[2], c, got("rgb")[2])
            /\ UNCHANGED outcome
    /\ given' = None /\ frontend' = None
    /\ UNCHANGED <<gpu, trail, payload, count, needs, dng>>

Elements(p) == IF p.type = "list" THEN {p.elems[k] : k \in 1..Len(p.elems)} ELSE {p}
FramesOf(p) == IF p = None THEN {} ELSE Elements(p)

(* A buffer of no bytes may be more than a device can give (it is up to    *)
(* vulkano, whose answer is unwrapped); if it gives one, it gives all.     *)
NoBytes(p) == \E f \in FramesOf(p) : f.len = 0
Vanishes(r) ==
    /\ gpu /\ r.tag = "ok" /\ NoBytes(r.value)
    /\ ~NoBytes(payload) /\ (dng # None => dng.strip > 0)

(* What a node answered becomes the payload of the next one.               *)
Deliver(name, r) ==
    /\ trail' = Append(trail, name)
    /\ \/ /\ payload' = IF r.tag = "ok" THEN r.value ELSE None
          /\ outcome' = IF r.tag = "ok" THEN "flowing" ELSE r.tag
       \/ Vanishes(r) /\ payload' = None /\ outcome' = "no_buffer"
    /\ UNCHANGED <<gpu, frontend, given, interp, dng>>

(* Caps of a reader that knows its length, and of one that does not.       *)
Counted == count' = Stored /\ needs' = [f \in 0..(Stored - 1) |-> {f}]
Uncounted == count' = Endless /\ needs' = <<>>

ReadBlob ==
    \E file_len \in {0, Stored * required_bytes(interp)} :
        /\ Deliver("RawBlobReader", RawBlobReader(gpu, interp, file_len, 0))
        /\ Counted
ReadDirectory ==
    \E internal_loop \in BOOLEAN, n \in 0..Stored :
    \E len \in {required_bytes(interp) - 1, required_bytes(interp)} \cap Nat :
        /\ Deliver("RawDirectoryReader",
                   RawDirectoryReader(gpu, interp, [k \in 1..Stored |-> len], internal_loop, n))
        /\ IF internal_loop THEN Uncounted ELSE Counted
ReadStream ==
    \E name \in {"TcpReader", "ZstdBlobReader"}, ends \in BOOLEAN :
        /\ Deliver(name, StreamReader(gpu, interp, ends))
        /\ Uncounted
(* The webcam's width and height come with its format, which has one to    *)
(* four bytes per pixel (GREY, YUYV, RGB24, RGB32).                        *)
ReadWebcam ==
    \E bytes_per_pixel \in 1..4, bytesused \in 0..1 :
        /\ Deliver(IF bytes_per_pixel < 3 THEN "WebcamInput16" ELSE "WebcamInput",
                   WebcamInput(gpu, interp.width, interp.height,
                               interp.width * interp.height * bytes_per_pixel, bytesused))
        /\ Uncounted
(* Bound: a width or height that was negative in the file is more than     *)
(* there is memory for.                                                    *)
Read ==
    /\ interp # None /\ trail = <<>> /\ dng = None /\ outcome = "flowing"
    /\ \A side \in {interp.width, interp.height} : side < Word \div 2
    /\ ReadBlob \/ ReadDirectory \/ ReadStream \/ ReadWebcam

(* The frames that were written to DNG files are read again.               *)
ReadDng ==
    /\ dng # None /\ trail = <<>> /\ outcome = "flowing"
    /\ Deliver("CinemaDngReader", CinemaDngReader(gpu, dng))
    /\ Counted

-----------------------------------------------------------------------------
Flows ==
    /\ payload # None /\ outcome = "flowing"
    /\ trail # <<>> /\ Len(trail) <= MaxNodes

(* Most nodes answer frame f with the input's frame f.                     *)
SameFrames == UNCHANGED <<count, needs>>

ConvertBitDepth == \E to \in {8, 16} :
    /\ Deliver(IF to = 8 THEN "BitDepthConverter" ELSE "BitDepthConverter16",
               BitDepthConverter(gpu, payload, to))
    /\ SameFrames
ConvertFloats == Deliver("Fp32ToUInt16", Fp32ToUInt16(gpu, payload)) /\ SameFrames
Compress ==
    \E size \in {4, 8}, dims_from_frame \in BOOLEAN, on_nothing \in {"ok", "error", "panic"} :
        /\ Deliver("SZ3Compress", SZ3Compress(gpu, payload, size, dims_from_frame, on_nothing))
        /\ SameFrames
TakeElement == \E elem \in 0..2 : Deliver("Split", Split(payload, elem)) /\ SameFrames
RemoveRowNoise == \E m \in RowNoiseModels, strip \in BOOLEAN :
    Deliver("RowNoiseRemoval", RowNoiseRemoval(gpu, payload, m, strip)) /\ SameFrames

(* Variation: a rest of the frames makes one more average.                 *)
AverageCapsRoundedUp(n) ==
    IF count = Endless THEN SameFrames
    ELSE /\ count' = (count + n - 1) \div n
         /\ needs' = [f \in 0..(count' - 1) |-> {n * f + k : k \in 0..(n - 1)}]

(* Average::get_caps, and the frames pull starts at: n for each of its.    *)
AverageCaps(n) ==
    IF count = Endless THEN SameFrames
    ELSE /\ count' = count \div n
         /\ needs' = [f \in 0..(count' - 1) |->
                        UNION {needs[n * f + k] : k \in 0..(n - 1)}]
TakeAverage == \E n \in 1..MaxAveraged, std \in BOOLEAN :
    /\ Deliver(IF std THEN "AverageStd" ELSE "Average", Average(gpu, payload, NumThreads, std))
    /\ AverageCaps(n)

(* The decoder does not know how often it will slip; its inverse answers   *)
(* two frames per input frame.                                             *)
DecodeDualFrame == \E c \in Patterns :
    Deliver("DualFrameRawDecoder", DualFrameRawDecoder(gpu, payload, c)) /\ Uncounted
ReverseDualFrame == \E offset \in 0..1 :
    /\ Deliver("ReverseDualFrameRawDecoder", ReverseDualFrameRawDecoder(gpu, payload, offset))
    /\ IF count = Endless THEN SameFrames
       ELSE /\ count' = 2 * count
            /\ needs' = [f \in 0..(count' - 1) |-> needs[f \div 2]]

CpuStep ==
    /\ Flows
    /\ \/ ConvertBitDepth \/ ConvertFloats \/ Compress \/ TakeElement \/ RemoveRowNoise
       \/ TakeAverage \/ DecodeDualFrame \/ ReverseDualFrame

GpuStep ==
    /\ Flows /\ gpu
    /\ SameFrames
    /\ \/ Deliver("GpuBitDepthConverter", GpuBitDepthConverter(payload))
       \/ Deliver("Debayer", Debayer(payload))
       \/ Deliver("DebayerResolutionLoss", DebayerResolutionLoss(payload))
       \/ Deliver("ColorVoodoo", ColorVoodoo(payload))
       \/ (\E f \in CubeFiles : cube_is_read(f)) /\ Deliver("Lut3d", Lut3d(payload))
       \/ Deliver("DarkframeSubtract", DarkframeSubtract(payload))
       \/ Deliver("Histogram", Histogram(payload))

(* A Lut3d is only made of a cube that can be read; without one the        *)
(* program ends before any frame flows.                                    *)
RefuseCube ==
    /\ Flows /\ gpu
    /\ \E f \in CubeFiles : ~cube_is_read(f)
    /\ trail' = <<>> /\ payload' = None /\ outcome' = "error"
    /\ UNCHANGED <<gpu, frontend, given, interp, count, needs, dng>>

-----------------------------------------------------------------------------
(* A sink has taken the payload, or not; r is what it handed on.           *)
Sink(name, r) ==
    /\ payload # None /\ outcome = "flowing"
    /\ trail' = Append(trail, name)
    /\ payload' = IF r.tag = "ok" THEN r.value ELSE payload
    /\ outcome' = IF r.tag = "ok" THEN "written" ELSE r.tag
    /\ UNCHANGED <<gpu, frontend, given, interp, count, needs, dng>>

SinkStep ==
    \/ Sink("RawWriter", RawWriter(gpu, payload))
    \/ Sink("CinemaDngWriter", CinemaDngWriter(gpu, payload))
    \/ Sink("FfmpegWriter", FfmpegWriter(gpu, payload))
    \/ Sink("BenchmarkSink", BenchmarkSink(payload))
    \/ Sink("CinemaDngFrameserver", Frameserver(gpu, payload, count # Endless))
    \/ Sink("Display", Display(gpu, payload))
    \/ Sink("Plot", Plot(gpu, payload))

(* A node or a reader has refused its frame, and all others just as well:  *)
(* pull_ordered hangs up once the frames are used up, or at the end of the *)
(* file, and the frame server does not wait so long.  (That a reader was   *)
(* asked for a frame past its end, which refuses only that one, is not     *)
(* told apart.)                                                            *)
Starve ==
    /\ outcome = "error" /\ payload = None
    /\ trail # <<>> /\ Len(trail) <= MaxNodes + 1
    /\ \E name \in UnwrapFirst :
        /\ \/ count # Endless \/ trail[1] \in {"TcpReader", "ZstdBlobReader"}
           \/ name = "CinemaDngFrameserver"
        /\ trail' = Append(trail, name)
    /\ outcome' = "panic"
    /\ UNCHANGED <<gpu, frontend, given, interp, payload, count, needs, dng>>

(* The directory a CinemaDngWriter has filled is the next pipeline's input *)
(* (bound: once).                                                          *)
Reopen ==
    /\ outcome = "written" /\ dng = None
    /\ trail[Len(trail)] = "CinemaDngWriter"
    /\ dng' = dng_of(payload)
    /\ interp' = payload.interp
    /\ trail' = <<>>
    /\ payload' = None
    /\ outcome' = "flowing"
    /\ UNCHANGED <<gpu, frontend, given, count, needs>>

PipelineNext ==
    \/ Configure \/ Read \/ ReadDng \/ CpuStep \/ GpuStep \/ RefuseCube
    \/ SinkStep \/ Starve \/ Reopen

PipelineSpec == PipelineInit /\ [][PipelineNext]_pipelineVars

-----------------------------------------------------------------------------
Last == trail[Len(trail)]
Passed == {trail[k] : k \in 1..Len(trail)}

(* What a DNG file was made of is the affair of the chain before.          *)
SourceFits == dng # None => dng.strip = required_bytes(interp)
Even(i) == i.width % 2 = 0 /\ i.height % 2 = 0
EvenSides == Even(interp)

(* A buffer is as long as its interpretation requires, through every chain *)
(* of nodes: shaders and sinks index it by the interpretation alone.  Two  *)
(* nodes break this: Histogram, which passes its counters off as pixels,   *)
(* and ReverseDualFrameRawDecoder, for frames with an odd side.            *)
MustFit(passed) ==
    /\ "Histogram" \notin passed
    /\ SourceFits
    /\ "ReverseDualFrameRawDecoder" \in passed => EvenSides
LengthsFit ==
    payload # None /\ MustFit(Passed) =>
        \A f \in FramesOf(payload) : f.len = required_bytes(f.interp)

(* No byte of an uninitialised buffer is handed on, through every chain    *)
(* and for frames of every size, with these exceptions.  A webcam that is  *)
(* set to less than three bytes per pixel, and the nodes that do not ask   *)
(* for the depth they are made for; BitDepthConverter, for pixels of less  *)
(* than eight bits and for an odd number of twelve bit pixels; Average,    *)
(* when the reader's pixels cannot be shared out evenly among the threads, *)
(* or behind a node that makes frames smaller.                             *)
Careless ==
    {"WebcamInput16", "Fp32ToUInt16", "DarkframeSubtract", "ReverseDualFrameRawDecoder", "Histogram"}
Unpacking == {"BitDepthConverter", "BitDepthConverter16"}
Averages == {"Average", "AverageStd"}
Shared(i) == (i.width * i.height) % (2 * NumThreads) = 0
Resizing == {"DebayerResolutionLoss", "RowNoiseRemoval"}
Unpackable(i) == i.kind = "Raw" => i.bit_depth >= 8 /\ (i.bit_depth = 12 => Paired(i))
MustBeWhole(passed) ==
    /\ passed \cap Careless = {}
    /\ passed \cap Unpacking # {} => Unpackable(interp)
    /\ passed \cap Averages # {} => Shared(interp) /\ passed \cap Resizing = {}
    /\ SourceFits /\ (dng # None => dng.whole)
NothingUnwritten ==
    payload # None /\ MustBeWhole(Passed) => \A f \in FramesOf(payload) : f.whole

(* However nodes are connected, a frame takes no thread with it but at the *)
(* nodes that assert or unwrap what they need, and at the node after       *)
(* ColorVoodoo, whose buffer cannot be copied to the CPU; a frame without  *)
(* a byte also where a device refuses to give a buffer for it.  All others *)
(* refuse a frame with an error or take it, the nodes on the device among  *)
(* them, and so do the sinks when they get none.                           *)
Asserting ==
    {"RawBlobReader", "BitDepthConverter", "BitDepthConverter16", "Fp32ToUInt16",
     "SZ3Compress", "RowNoiseRemoval", "Average", "AverageStd", "DualFrameRawDecoder",
     "ReverseDualFrameRawDecoder", "FfmpegWriter", "CinemaDngFrameserver", "Display", "Plot"}
PanicsAreAsserted ==
    outcome \in {"panic", "no_buffer"} =>
        \/ Last \in Asserting
        \/ Len(trail) > 1 /\ trail[Len(trail) - 1] = "ColorVoodoo"
        \/ gpu /\ outcome = "no_buffer"

(* The chains of README.md:96, :102 and :107, config.yaml and              *)
(* darkframe.yml, on a machine with a device, take a twelve bit frame of   *)
(* at least two pixels a side, or what a webcam of three bytes per pixel   *)
(* makes of it, from the reader to the sink without an error; darkframe.yml *)
(* if the pixels can be shared out.  One of them does not: README.md:107   *)
(* asks for a loop, and the frame server panics for a reader that loops.   *)
(* (Last: a sink that unwraps its first frame is one that gets a frame.)   *)
DocumentedChains ==
    {<<"RawDirectoryReader", "BitDepthConverter", "Debayer", "FfmpegWriter">>,
     <<"RawDirectoryReader", "CinemaDngWriter">>,
     <<"RawDirectoryReader", "CinemaDngFrameserver">>,
     <<"RawDirectoryReader", "GpuBitDepthConverter", "DebayerResolutionLoss", "Display">>,
     <<"WebcamInput", "DualFrameRawDecoder", "Average", "RawWriter">>}
TwelveBits(i) == i.kind = "Raw" /\ i.bit_depth = 12
DocumentedOutcome(c) ==
    IF Len(trail) < Len(c) THEN "flowing"
    ELSE IF Last = "CinemaDngFrameserver" /\ count = Endless THEN "panic"
    ELSE "written"
DocumentedChainsFlow ==
    \A c \in DocumentedChains :
        /\ gpu /\ Len(trail) \in 2..Len(c) /\ trail = SubSeq(c, 1, Len(trail))
        /\ interp.width >= 2 /\ interp.height >= 2
        /\ Last \in UnwrapFirst => payload # None
        /\ trail[1] = "RawDirectoryReader" => TwelveBits(interp)
        /\ Last \in {"Average", "RawWriter"} => Shared(interp)
        => outcome = DocumentedOutcome(c)

(* The frame count a node announces never lets a sink ask for a frame that *)
(* some reader before it does not have, and later frames are never made of *)
(* earlier input frames: for each frame of the one there is one of the     *)
(* other that is as late, or as early.                                     *)
NotBefore(B, A) ==
    /\ \A b \in B : \E a \in A : a <= b
    /\ \A a \in A : \E b \in B : a <= b
CapsCoverRequests ==
    count # Endless =>
        \A f \in 0..(count - 1) :
            /\ needs[f] # {} /\ needs[f] \subseteq 0..(Stored - 1)
            /\ \A g \in 0..(f - 1) : NotBefore(needs[f], needs[g])

-----------------------------------------------------------------------------
(* Why these hold.  A payload is a frame, or the two frames of an Average, *)
(* and what is said of it goes on from node to node.                       *)
Interps ==
    [kind : {"Raw"}, width : Nat, height : Nat, bit_depth : Nat, cfa : Cfas]
    \cup [kind : {"Rgb"}, width : Nat, height : Nat]
    \cup [kind : {"SZ3"}, width : Nat, height : Nat, compressed_size : Nat]

WellFormed(f) ==
    /\ f = Frame(f.interp, f.place, f.len, f.whole)
    /\ f.interp \in Interps
    /\ f.place \in CpuPlaces \cup GpuPlaces /\ (f.place = "vec" => ~gpu)

FrameFits(f, passed) ==
    /\ WellFormed(f)
    /\ MustFit(passed) =>
           /\ f.len = required_bytes(f.interp)
           /\ EvenSides /\ f.interp.kind = "Raw" => Even(f.interp)
    /\ MustBeWhole(passed) =>
           /\ f.whole
           /\ passed \cap Resizing = {} /\ f.interp.kind # "SZ3" /\ Shared(interp) =>
                  Shared(f.interp)
           /\ Unpackable(interp) => Unpackable(f.interp)

PayloadFits(p, passed) ==
    \/ p.type = "frame" /\ FrameFits(p, passed)
    \/ /\ p = List(<<p.elems[1], p.elems[1]>>)
       /\ FrameFits(p.elems[1], passed) /\ p.elems[1].place = "vulkan"

FlowingFits ==
    payload # None =>
        /\ PayloadFits(payload, Passed)
        /\ trail # <<>>
        /\ outcome = "flowing" =>
               \A f \in FramesOf(payload) : f.place = "gpu-local" => Last = "ColorVoodoo"

(* What was written as a DNG file, and what is read from it again.         *)
WrittenFits ==
    /\ outcome = "written" /\ Last = "CinemaDngWriter" =>
           is_frame_of(payload, {"Raw"}) /\ WellFormed(payload)
    /\ dng # None =>
           /\ interp \in Interps /\ interp.kind = "Raw"
           /\ dng.width = interp.width /\ dng.height = interp.height
           /\ dng.bits = interp.bit_depth

Started ==
    /\ gpu \in BOOLEAN /\ trail \in Seq(Passed)
    /\ given # None =>
           /\ frontend \in {"cli", "file"}
           /\ given \in GivenTexts
           /\ interp = None /\ trail = <<>> /\ payload = None /\ dng = None /\ outcome = "flowing"
    /\ interp # None => interp \in Interps /\ interp.kind # "SZ3"

PipelineInv == Started /\ FlowingFits /\ WrittenFits /\ PanicsAreAsserted

(* What the documented chains carry from node to node.                     *)
Carried(kind, depth) ==
    /\ outcome = "flowing"
    /\ is_frame_of(payload, {kind}) /\ payload.place \in {"vulkan", "gpu"} /\ payload.len > 0
    /\ kind = "Raw" =>
           /\ payload.interp.bit_depth = depth
           /\ payload.interp.width >= 2 /\ payload.interp.height >= 2

TwelveBitChains ==
    /\ outcome = "flowing" /\ trail = <<"RawDirectoryReader">> => Carried("Raw", 12)
    /\ trail = <<"RawDirectoryReader", "BitDepthConverter">> => Carried("Raw", 8)
    /\ trail = <<"RawDirectoryReader", "BitDepthConverter", "Debayer">> => Carried("Rgb", 8)
    /\ trail = <<"RawDirectoryReader", "BitDepthConverter", "Debayer", "FfmpegWriter">>
       /\ payload # None => outcome = "written"
    /\ trail = <<"RawDirectoryReader", "CinemaDngWriter">> => outcome = "written"
    /\ trail = <<"RawDirectoryReader", "CinemaDngFrameserver">> /\ payload # None =>
           outcome = IF count = Endless THEN "panic" ELSE "written"
    /\ trail = <<"RawDirectoryReader", "GpuBitDepthConverter">> => Carried("Raw", 8)
    /\ trail = <<"RawDirectoryReader", "GpuBitDepthConverter", "DebayerResolutionLoss">> =>
           Carried("Rgb", 8)
    /\ trail = <<"RawDirectoryReader", "GpuBitDepthConverter", "DebayerResolutionLoss", "Display">> =>
           outcome = "written"

WebcamChain ==
    /\ outcome = "flowing" /\ trail = <<"WebcamInput">> =>
           /\ interp # None /\ interp.width * interp.height > 0
           /\ payload = Frame(Rgb(interp.width, interp.height), "vulkan",
                              interp.width * interp.height * 3, payload.whole)
    /\ trail = <<"WebcamInput", "DualFrameRawDecoder">> =>
           /\ interp # None /\ interp.width * interp.height > 0
           /\ Carried("Raw", 12) /\ payload.len = interp.width * interp.height * 6
           /\ payload.interp.width = 2 * interp.width /\ payload.interp.height = 2 * interp.height
    /\ Shared(interp) =>
           /\ trail = <<"WebcamInput", "DualFrameRawDecoder", "Average">> => Carried("Raw", 32)
           /\ trail = <<"WebcamInput", "DualFrameRawDecoder", "Average", "RawWriter">> =>
                  outcome = "written"

ChainsInv ==
    gpu /\ trail # <<>> /\ interp.width >= 2 /\ interp.height >= 2 =>
        (TwelveBits(interp) => TwelveBitChains) /\ WebcamChain

(* Frame counts go their own way.                                          *)
CapsInv == (count # Endless => count \in Nat) /\ CapsCoverRequests
=============================================================================
