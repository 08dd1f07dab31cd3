------------------------------ MODULE Endpoints ------------------------------
(***************************************************************************)
(* Where frames come from and where they go (nodes_io, zstd.rs): what the  *)
(* readers make of their files or of what a device delivers, and the       *)
(* sinks of a payload.  In what order sequential readers answer and sinks  *)
(* ask is the matter of SequentialReader, PullOrdered and PullUnordered.   *)
(***************************************************************************)
EXTENDS FrameFormats

(* get_interpretation, of parameters that were taken.                      *)
get_interpretation(w, h, d, c, rgb) == IF rgb THEN Rgb(w, h) ELSE Raw(w, h, d, c)

-----------------------------------------------------------------------------
(* RawBlobReader: as many frames as fit into the file; to count them       *)
(* from_parameters divides by their size.                                  *)
RawBlobReader(gpu, i, file_len, n) ==
    IF required_bytes(i) = 0 THEN Panic
    ELSE IF n >= file_len \div required_bytes(i) THEN Err
    ELSE OnCpu(gpu, i, TRUE)

(* RawDirectoryReader: one file per frame, over and over with              *)
(* internal-loop.  read_exact wants as many bytes as the frame has and     *)
(* does not mind that there are more.                                      *)
RawDirectoryReader(gpu, i, file_lens, internal_loop, n) ==
    LET count == Len(file_lens)
        index == IF internal_loop THEN n % count ELSE n IN
    IF index >= count THEN Err
    ELSE IF file_lens[index + 1] < required_bytes(i) THEN Err
    ELSE OnCpu(gpu, i, TRUE)

(* TcpReader, ZstdBlobReader: the bytes of the next frame, or the end of   *)
(* the file.                                                               *)
StreamReader(gpu, i, ends) == IF ends THEN Err ELSE OnCpu(gpu, i, TRUE)

(* WebcamInput: what the device calls a frame may be empty; else the bytes *)
(* of its buffer, whose length goes by the format it is set to, are turned *)
(* around in threes, as many as there are.                                 *)
WebcamInput(gpu, w, h, sizeimage, bytesused) ==
    IF bytesused = 0 THEN Err ELSE OnCpu(gpu, Rgb(w, h), sizeimage \div 3 >= w * h)

-----------------------------------------------------------------------------
(* A DNG file, as CinemaDngWriter::run makes it from a Raw frame; colours  *)
(* are numbered red, green, blue, row after row.                           *)
dng_of(p) ==
    [width |-> p.interp.width, height |-> p.interp.height, bits |-> p.interp.bit_depth,
     pattern |-> CASE p.interp.cfa.red_in_first_row /\ p.interp.cfa.red_in_first_col -> <<0, 1, 1, 2>>
                   [] p.interp.cfa.red_in_first_row /\ ~p.interp.cfa.red_in_first_col -> <<1, 0, 2, 1>>
                   [] ~p.interp.cfa.red_in_first_row /\ p.interp.cfa.red_in_first_col -> <<1, 2, 0, 1>>
                   [] OTHER -> <<2, 1, 1, 0>>,
     strip |-> p.len, whole |-> p.whole]

(* CinemaDngReader::pull.                                                  *)
CinemaDngReader(gpu, f) ==
    Ok(Frame(Raw(f.width, f.height, f.bits,
                 [red_in_first_col |-> f.pattern[1] = 0 \/ f.pattern[3] = 0,
                  red_in_first_row |-> f.pattern[1] = 0 \/ f.pattern[2] = 0]),
             CpuPlace(gpu), f.strip, f.whole))

-----------------------------------------------------------------------------
(* The sinks, up to the bytes they hand on.  RawBlobWriter and             *)
(* RawDirectoryWriter take any frame, CinemaDngWriter and the frame server *)
(* Raw frames, FfmpegWriter Rgb frames, BenchmarkSink anything at all.     *)
RawWriter(gpu, p) == ensure_cpu_buffer(gpu, p, AnyKind)
CinemaDngWriter(gpu, p) == ensure_cpu_buffer(gpu, p, {"Raw"})
FfmpegWriter(gpu, p) == ensure_cpu_buffer(gpu, p, {"Rgb"})
BenchmarkSink(p) == Ok(p)

(* FfmpegWriter::run unwraps the first frame, CDngFs::new that of the      *)
(* frame server; the other sinks end when none comes.                      *)
UnwrapFirst == {"FfmpegWriter", "CinemaDngFrameserver"}

(* CinemaDngFrameserver::run counts the frames of its input and looks at   *)
(* the first of them before it serves anything; it unwraps both.           *)
Frameserver(gpu, p, counted) ==
    LET r == ensure_cpu_buffer(gpu, p, {"Raw"}) IN
    IF ~counted \/ r.tag # "ok" THEN Panic ELSE r

(* Display and Plot run a thread of their own, which unwraps: without a    *)
(* device, and when the frame has the wrong format.  Plot takes the frame  *)
(* for counters of 32 bits.                                                *)
Display(gpu, p) ==
    IF ~gpu THEN Panic
    ELSE LET r == ensure_gpu_buffer(p, {"Rgb"}) IN IF r.tag = "ok" THEN r ELSE Panic
Plot(gpu, p) ==
    IF ~gpu THEN Panic
    ELSE LET c == ensure_cpu_buffer(gpu, p, {"Raw"}) IN
         IF c.tag # "ok" THEN Panic
         ELSE IF ~Castable(p, 4) \/ p.len = 0 THEN Panic ELSE ensure_gpu_buffer(p, {"Raw"})
=============================================================================
