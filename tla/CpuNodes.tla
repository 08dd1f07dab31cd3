------------------------------- MODULE CpuNodes -------------------------------
(***************************************************************************)
(* The nodes of nodes_cpu and Split: what `pull` makes of the payload its  *)
(* input delivered.  They ask for what they need of the interpretation to  *)
(* very different degrees: with an error, with an assertion that takes the *)
(* worker thread with it, or not at all.  Arithmetic on lengths is that of *)
(* a release build.                                                        *)
(***************************************************************************)
EXTENDS FrameFormats, Integers

MinOf(a, b) == IF a < b THEN a ELSE b
MaxOf(a, b) == IF a > b THEN a ELSE b

(* Two twelve bit pixels share three bytes; loops over such groups leave   *)
(* the last pixel of an odd number of them.                                *)
Paired(i) == (i.width * i.height) % 2 = 0

(* BitDepthConverter::pull: an input of the wanted depth is handed on as   *)
(* it is, twelve bit inputs are unpacked in groups of three bytes, and all *)
(* others only go to eight bits, one value per bit_depth bits and at most  *)
(* one per input byte; a value past the last pixel is out of bounds.       *)
BitDepthConverter(gpu, p, to) ==
    LET r == ensure_cpu_buffer(gpu, p, {"Raw"})
        i == r.value.interp
        pixels == i.width * i.height
        values == (p.len * 8) \div MaxOf(i.bit_depth, 8) IN
    IF r.tag # "ok" THEN r
    ELSE IF i.bit_depth = to THEN Ok(p)
    ELSE IF i.bit_depth = 12 /\ to = 16 /\ ~OutputCastable(gpu, [i EXCEPT !.bit_depth = 16])
         THEN Panic
    ELSE IF i.bit_depth = 12 /\ to \in {8, 16}
         THEN OnCpu(gpu, [i EXCEPT !.bit_depth = to], p.whole /\ Paired(i))
    ELSE IF to # 8 \/ values > pixels THEN Panic
    ELSE OnCpu(gpu, [i EXCEPT !.bit_depth = 8], p.whole /\ values = pixels)

(* Fp32ToUInt16::pull takes any depth for 32 bit floats.                   *)
Fp32ToUInt16(gpu, p) ==
    LET r == ensure_cpu_buffer(gpu, p, {"Raw"})
        i == r.value.interp IN
    IF r.tag # "ok" THEN r
    ELSE IF ~Castable(p, 4) \/ ~OutputCastable(gpu, [i EXCEPT !.bit_depth = 16]) THEN Panic
    ELSE OnCpu(gpu, [i EXCEPT !.bit_depth = 16], p.whole /\ p.len \div 4 >= i.width * i.height)

(* SZ3Compress::pull: the data type fixes the size of an element, the      *)
(* dimensions are the frame's or, with dims = -1, whatever there is; the   *)
(* library refuses dimensions that are not those of the data.  What it     *)
(* says to no data at all is left open: on_nothing.                        *)
SZ3Compress(gpu, p, size, dims_from_frame, on_nothing) ==
    LET r == ensure_cpu_buffer(gpu, p, {"Raw", "Rgb"})
        i == r.value.interp
        channels == IF i.kind = "Rgb" THEN 3 ELSE 1 IN
    IF r.tag # "ok" THEN r
    ELSE IF ~Castable(p, size) THEN Panic
    ELSE IF p.len = 0 /\ on_nothing # "ok" THEN [tag |-> on_nothing]
    ELSE IF dims_from_frame /\ p.len \div size # channels * i.width * i.height THEN Err
    ELSE OnCpu(gpu, SZ3Compressed(i), p.whole)

(* Split::pull takes an element out of a list.                             *)
Split(p, elem) ==
    IF p.type # "list" THEN Err
    ELSE IF elem >= Len(p.elems) THEN Err
    ELSE Ok(p.elems[elem + 1])

-----------------------------------------------------------------------------
(* The row noise models that are built in: lags of the green differences   *)
(* and pairs of rows of dark columns (the models' yml files).              *)
RowNoiseModels ==
    {[green |-> 3, dark |-> 3], [green |-> 0, dark |-> 3],
     [green |-> 3, dark |-> 0], [green |-> 0, dark |-> 1]}

num_uncorrectable(m) == MaxOf(m.green, (m.dark \div 2) * 2)

NUM_DARKCOLS == 8

(* get_col_parity_for_row: the column of the first green pixel.            *)
get_col_parity_for_row(i, row) ==
    IF (i.cfa.red_in_first_col = i.cfa.red_in_first_row) = (row % 2 = 0) THEN 1 ELSE 0

(* The rows and columns pull indexes lie inside the frame: the last pair   *)
(* of green pixels of the lowest row, and the rows of dark columns around  *)
(* the lowest row that is corrected.  There is no median of no pixels.     *)
GreenInside(m, i) ==
    m.green > 0 /\ i.height > num_uncorrectable(m) =>
        /\ i.width > 0
        /\ m.green = num_uncorrectable(m) =>
               i.width % 2 = 0 \/ get_col_parity_for_row(i, i.height - 1) = 0
DarkInside(m, i) ==
    LET U == num_uncorrectable(m)
        corrected == {r \in U..(i.height - 1) : r + U < i.height} IN
    m.dark > 0 /\ corrected # {} =>
        /\ i.width >= NUM_DARKCOLS
        /\ \A r \in corrected : (r - (r % 2)) + 1 + 2 * ((m.dark - 1) \div 2) < i.height

(* Variation: the rows that can be corrected.                              *)
RowsCorrected(m, i) == num_uncorrectable(m)..(i.height - num_uncorrectable(m) - 1)

(* The rows pull writes: the uncorrectable ones at either end are copied.  *)
RowsWritten(m, i) ==
    LET U == num_uncorrectable(m) IN
    (U..(i.height - U - 1)) \cup (0..(U - 1)) \cup ((i.height - U)..(i.height - 1))

(* RowNoiseRemoval::pull unwraps and asserts where others return errors.   *)
RowNoiseRemoval(gpu, p, m, strip) ==
    LET r == ensure_cpu_buffer(gpu, p, {"Raw"})
        i == r.value.interp
        cut == IF strip THEN 2 * NUM_DARKCOLS ELSE 0 IN
    IF r.tag # "ok" THEN Panic
    ELSE IF \/ i.bit_depth # 16 \/ i.height < num_uncorrectable(m) \/ i.width < cut
            \/ ~Castable(p, 2) \/ ~OutputCastable(gpu, [i EXCEPT !.width = @ - cut])
            \/ ~GreenInside(m, i) \/ ~DarkInside(m, i)
         THEN Panic
    ELSE OnCpu(gpu, [i EXCEPT !.width = @ - cut],
               p.whole /\ 0..(i.height - 1) \subseteq RowsWritten(m, i))

-----------------------------------------------------------------------------
(* Average::pull, the frames it makes: a sum of 32 bit floats, and for     *)
(* `std` a second one.  The buffers are cut into as many chunks as there   *)
(* are threads, of whole bytes, which only buffers of the device can be    *)
(* (ChunkedCpuBuffer::new).  A chunk is cast to floats, two pixels of it   *)
(* are written per three bytes of the input's chunk, and what is left over *)
(* at the end of a chunk or of the buffer stays unwritten (zip_with).      *)
ChunksFit(i, threads) == (i.width * i.height) % (2 * threads) = 0
Average(gpu, p, threads, std) ==
    LET r == ensure_cpu_buffer(gpu, p, {"Raw"})
        i == r.value.interp
        out == Frame([i EXCEPT !.bit_depth = 32], "vulkan", i.width * i.height * 4,
                     p.whole /\ ChunksFit(i, threads))
        chunk == out.len \div threads IN
    IF r.tag # "ok" THEN r
    ELSE IF \/ i.bit_depth # 12
            \/ ~gpu
            \/ p.len \div threads = 0
            \/ threads > 1 /\ chunk % 4 # 0
         THEN Panic
    ELSE Ok(IF std THEN List(<<out, out>>) ELSE out)

(* DualFrameRawDecoder::pull: the lines of two Rgb frames become those of  *)
(* a twelve bit frame of twice the size; which two frames fit together is  *)
(* the matter of DualFrameDecoder.                                         *)
DualFrameRawDecoder(gpu, p, c) ==
    LET r == ensure_cpu_buffer(gpu, p, {"Rgb"})
        i == r.value.interp IN
    IF r.tag # "ok" THEN r
    ELSE IF p.len < 3 \/ i.width = 0 THEN Panic
    ELSE OnCpu(gpu, Raw(2 * i.width, 2 * i.height, 12, c), p.whole /\ p.len >= 3 * i.width * i.height)

(* ReverseDualFrameRawDecoder::pull: every second line, taken for a line   *)
(* of twelve bit pixels whatever the depth is; the first or the second one *)
(* first.                                                                  *)
ReverseDualFrameRawDecoder(gpu, p, offset) ==
    LET r == ensure_cpu_buffer(gpu, p, {"Raw"})
        i == r.value.interp
        line_bytes == (i.width * 3) \div 2
        len == (line_bytes * i.height) \div 2
        lines == (p.len \div line_bytes + 1 - offset) \div 2
        written == MinOf(len \div line_bytes, lines) * line_bytes IN
    IF r.tag # "ok" THEN r
    ELSE IF line_bytes = 0 THEN Panic
    ELSE Ok(Frame(Rgb(i.width \div 2, i.height \div 2), CpuPlace(gpu), len,
                  p.whole /\ written = len))
=============================================================================
