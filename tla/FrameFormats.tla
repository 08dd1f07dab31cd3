---------------------------- MODULE FrameFormats ----------------------------
(***************************************************************************)
(* What travels between nodes (pipeline_processing/frame.rs, payload.rs,   *)
(* buffers.rs, gpu_util.rs and the buffer functions of                     *)
(* processing_context.rs): a payload is a frame, that is an interpretation *)
(* and a buffer, or a list of payloads.  Of a buffer the length counts,    *)
(* where it lies, and whether every byte of it has been written: buffers   *)
(* are allocated uninitialised.                                            *)
(*                                                                         *)
(* The operators that model a function take `gpu`, whether the processing  *)
(* context has a Vulkan device, and give what the function returns: a      *)
(* value, an error, or no return at all but a panic.                       *)
(***************************************************************************)
EXTENDS Naturals, Sequences

Cfas == [red_in_first_col : BOOLEAN, red_in_first_row : BOOLEAN]

Raw(w, h, d, c) == [kind |-> "Raw", width |-> w, height |-> h, bit_depth |-> d, cfa |-> c]
Rgb(w, h) == [kind |-> "Rgb", width |-> w, height |-> h]

(* SZ3Compressed: the size is whatever the compressor made of the data, at *)
(* least one byte; nothing depends on more than that.                      *)
SZ3Compressed(inner) ==
    [kind |-> "SZ3", width |-> inner.width, height |-> inner.height, compressed_size |-> 1]

required_bytes(i) ==
    CASE i.kind = "Raw" -> (i.width * i.height * i.bit_depth + 7) \div 8
      [] i.kind = "Rgb" -> i.width * i.height * 3
      [] i.kind = "SZ3" -> i.compressed_size

-----------------------------------------------------------------------------
(* Where a buffer lies: CpuBuffer::Vec, CpuBuffer::Vulkan, GpuBuffer.  A   *)
(* gpu buffer that was not created for transfers cannot be copied from.    *)
CpuPlaces == {"vec", "vulkan"}
GpuPlaces == {"gpu", "gpu-local"}

Frame(interp, place, len, whole) ==
    [type |-> "frame", interp |-> interp, place |-> place, len |-> len, whole |-> whole]
List(elems) == [type |-> "list", elems |-> elems]

Ok(v) == [tag |-> "ok", value |-> v]
Err == [tag |-> "error"]
Panic == [tag |-> "panic"]

(* Variation: plain memory whether there is a device or not.               *)
PlainCpuPlace(gpu) == "vec"

(* get_uninit_cpu_buffer: with a device it is memory the device can reach. *)
CpuPlace(gpu) == IF gpu THEN "vulkan" ELSE "vec"

(* The payload of a node that allocates what its output requires and       *)
(* writes all of it, or all but some bytes.                                *)
OnCpu(gpu, interp, whole) == Ok(Frame(interp, CpuPlace(gpu), required_bytes(interp), whole))

(* Variation: the buffer cannot be copied from.                            *)
OnGpuLocal(interp, whole) == Ok(Frame(interp, "gpu-local", required_bytes(interp), whole))
OnGpu(interp, whole) == Ok(Frame(interp, "gpu", required_bytes(interp), whole))

(* to_cpu_buffer: copy_buffer fails without the transfer usage, and its    *)
(* result is unwrapped.                                                    *)
to_cpu_buffer(gpu, p) ==
    IF ~gpu THEN Err
    ELSE IF p.place = "gpu-local" THEN Panic
    ELSE Ok([p EXCEPT !.place = "vulkan"])

is_frame_of(p, kinds) == p.type = "frame" /\ p.interp.kind \in kinds

(* ensure_cpu_buffer for one kind, ensure_any_cpu_buffer for all of them.  *)
ensure_cpu_buffer(gpu, p, kinds) ==
    IF ~is_frame_of(p, kinds) THEN Err
    ELSE IF p.place \in CpuPlaces THEN Ok(p)
    ELSE to_cpu_buffer(gpu, p)

AnyKind == {"Raw", "Rgb", "SZ3"}

(* ensure_gpu_buffer: a CpuBuffer::Vec has no cpu_accessible_buffer, which *)
(* is left unimplemented.                                                  *)
ensure_gpu_buffer(p, kinds) ==
    IF ~is_frame_of(p, kinds) THEN Err
    ELSE IF p.place = "vec" THEN Panic
    ELSE Ok([p EXCEPT !.place = IF p.place = "vulkan" THEN "gpu" ELSE p.place])

(* bytemuck::cast_slice of a whole buffer to elements of n bytes panics    *)
(* when some bytes are left over, or when the buffer is not aligned: a Vec *)
(* without a byte points nowhere.                                          *)
Castable(p, n) == p.len % n = 0 /\ (p.len = 0 => p.place # "vec")
OutputCastable(gpu, interp) == gpu \/ required_bytes(interp) > 0
=============================================================================
