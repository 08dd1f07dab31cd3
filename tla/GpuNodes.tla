------------------------------- MODULE GpuNodes -------------------------------
(***************************************************************************)
(* The nodes of nodes_gpu that pass frames on: what `pull` makes of the    *)
(* payload its input delivered.  from_parameters of each of them gives up  *)
(* without a Vulkan device (require_vulkan).  A shader that writes past    *)
(* the end of its buffer writes nothing there, and one that reads past the *)
(* end of its input reads some byte: only what a node leaves unwritten in  *)
(* its own buffer is followed here.                                        *)
(***************************************************************************)
EXTENDS FrameFormats

(* Does the node ask for eight or twelve bits?                             *)
RequireDepth(p, d) ==
    LET r == ensure_gpu_buffer(p, {"Raw"}) IN
    IF r.tag = "ok" /\ r.value.interp.bit_depth # d THEN Err ELSE r

(* GpuBitDepthConverter::pull and bitdepth_convert_12_8.glsl.  With an odd *)
(* width the last pair of a row spills into the next one.                  *)
GpuBitDepthConverter(p) ==
    LET r == RequireDepth(p, 12) IN
    IF r.tag # "ok" THEN r ELSE OnGpu([p.interp EXCEPT !.bit_depth = 8], p.whole)

(* Variation: the colours are put into a buffer of the input's size.       *)
DebayerIntoInputSize(p) ==
    LET r == RequireDepth(p, 8) IN
    IF r.tag # "ok" THEN r
    ELSE Ok(Frame(Rgb(p.interp.width, p.interp.height), "gpu", required_bytes(p.interp), p.whole))

(* Debayer::pull and debayer.glsl.                                         *)
Debayer(p) ==
    LET r == RequireDepth(p, 8) IN
    IF r.tag # "ok" THEN r ELSE OnGpu(Rgb(p.interp.width, p.interp.height), p.whole)

(* DebayerResolutionLoss::pull: four pixels become one.                    *)
DebayerResolutionLoss(p) ==
    LET r == RequireDepth(p, 8) IN
    IF r.tag # "ok" THEN r
    ELSE OnGpu(Rgb(p.interp.width \div 2, p.interp.height \div 2), p.whole)

(* ColorVoodoo::pull: its buffer is not created as the source of           *)
(* transfers, unlike those of all other nodes.                             *)
ColorVoodoo(p) ==
    LET r == ensure_gpu_buffer(p, {"Rgb"}) IN
    IF r.tag # "ok" THEN r ELSE Ok(Frame(p.interp, "gpu-local", required_bytes(p.interp), p.whole))

(* read_lut_texture_from_cube_file: the file declares a size and holds     *)
(* exactly the entries of a cube of it; read_cube_data takes the lines     *)
(* that start with a digit for entries and skips all others, those of a    *)
(* negative first value too.                                               *)
CubeFiles == [size : 0..2, entries : {0, 1, 7, 8}]
cube_is_read(f) == f.size > 0 /\ f.size * f.size * f.size = f.entries

(* Lut3d::pull; from_parameters has read the cube.                         *)
Lut3d(p) ==
    LET r == ensure_gpu_buffer(p, {"Rgb"}) IN
    IF r.tag # "ok" THEN r ELSE OnGpu(p.interp, p.whole)

(* DarkframeSubtract::pull asks for no depth; its shader goes through the  *)
(* bytes of twelve bit pixels and leaves the rest of deeper frames.        *)
DarkframeSubtract(p) ==
    LET r == ensure_gpu_buffer(p, {"Raw"}) IN
    IF r.tag # "ok" THEN r ELSE OnGpu(p.interp, p.whole /\ p.interp.bit_depth <= 12)

(* Bound: the counters of deeper frames do not fit on a device.            *)
MaxCounted == 16

(* Histogram::pull: a counter for every value of the input's depth, passed *)
(* off as 4096 pixels of 32 bits.                                          *)
Histogram(p) ==
    LET r == ensure_gpu_buffer(p, {"Raw"})
        i == p.interp IN
    IF r.tag # "ok" THEN r
    ELSE IF i.bit_depth > MaxCounted THEN Err
    ELSE Ok(Frame(Raw(4096, 1, 32, i.cfa), "gpu", (2 ^ i.bit_depth) * 4, p.whole))
=============================================================================
