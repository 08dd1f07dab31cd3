------------------------- MODULE FramePipelineProofs -------------------------
(***************************************************************************)
(* What a frame goes through, for every size, bit depth and pattern, every *)
(* number of threads and every chain of nodes: the payload a node gets is  *)
(* one it can read, its buffer is as long as its interpretation says and   *)
(* holds written bytes only, no panic is one the source does not assert,   *)
(* and a node never needs a frame its input does not have (PipelineInv,    *)
(* CapsInv); the documented chains work (ChainsInv).                       *)
(*                                                                         *)
(* At the end, the node of these chains that keeps a state of its own:     *)
(* what the dual frame decoder puts together, and how soon it finds back,  *)
(* for any counter, any number of read buffers from 2 to 4, and any losses *)
(* (DecoderInv).                                                           *)
(***************************************************************************)
EXTENDS DualFrameDecoder, FramePipeline, SequenceTheorems, TLAPS

(* What a payload is, and what ensure_cpu_buffer and ensure_gpu_buffer     *)
(* make of it.                                                             *)
IsPayload(p) == (p.type = "frame" /\ WellFormed(p)) \/ p.type = "list"

LEMMA FitsIsPayload ==
  ASSUME NEW p, NEW passed, PayloadFits(p, passed)
  PROVE  /\ IsPayload(p)
         /\ p.type = "frame" => FrameFits(p, passed)
         /\ p.type = "list" => /\ p = List(<<p.elems[1], p.elems[1]>>)
                               /\ FrameFits(p.elems[1], passed) /\ p.elems[1].place = "vulkan"
<1>1. CASE p.type = "frame" /\ FrameFits(p, passed)
  BY <1>1 DEF IsPayload, FrameFits
<1>2. CASE /\ p = List(<<p.elems[1], p.elems[1]>>)
           /\ FrameFits(p.elems[1], passed) /\ p.elems[1].place = "vulkan"
  <2>1. p.type = "list"
    BY <1>2 DEF List
  <2>2. QED
    BY <1>2, <2>1 DEF IsPayload
<1>3. QED
  BY <1>1, <1>2 DEF PayloadFits

LEMMA FrameFields ==
  ASSUME NEW i, NEW place, NEW l, NEW whole
  PROVE  LET f == Frame(i, place, l, whole)
         IN  f.type = "frame" /\ f.interp = i /\ f.place = place /\ f.len = l /\ f.whole = whole
BY DEF Frame

LEMMA EnsureCpu ==
  ASSUME gpu \in BOOLEAN, NEW p, IsPayload(p), NEW kinds
  PROVE  LET r == ensure_cpu_buffer(gpu, p, kinds) IN
         /\ r.tag \in {"ok", "error", "panic"}
         /\ r.tag = "panic" => p.type = "frame" /\ p.place = "gpu-local"
         /\ r.tag = "ok" =>
               /\ p.type = "frame" /\ WellFormed(p) /\ p.interp.kind \in kinds
               /\ p.place # "gpu-local"
               /\ r.value = Frame(p.interp, r.value.place, p.len, p.whole)
               /\ r.value.interp = p.interp
               /\ r.value.place \in CpuPlaces /\ (r.value.place = "vec" => ~gpu)
<1> DEFINE r == ensure_cpu_buffer(gpu, p, kinds)
<1>1. CASE ~is_frame_of(p, kinds)
  <2>1. r = Err
    BY <1>1 DEF ensure_cpu_buffer
  <2>2. QED
    BY <2>1 DEF Err
<1>2. CASE is_frame_of(p, kinds)
  <2>1. p.type = "frame" /\ WellFormed(p) /\ p.interp.kind \in kinds
    BY <1>2 DEF is_frame_of, IsPayload
  <2>2. p = Frame(p.interp, p.place, p.len, p.whole)
    BY <2>1 DEF WellFormed
  <2>3. CASE p.place \in CpuPlaces
    <3>1. r = Ok(p)
      BY <1>2, <2>3 DEF ensure_cpu_buffer
    <3>2. QED
      BY <2>1, <2>2, <2>3, <3>1 DEF Ok, WellFormed, CpuPlaces
  <2>4. CASE p.place \notin CpuPlaces
    <3>1. r = to_cpu_buffer(gpu, p)
      BY <1>2, <2>4 DEF ensure_cpu_buffer
    <3>2. CASE ~gpu
      BY <3>1, <3>2 DEF to_cpu_buffer, Err
    <3>3. CASE gpu /\ p.place = "gpu-local"
      BY <2>1, <3>1, <3>3 DEF to_cpu_buffer, Panic
    <3>4. CASE gpu /\ p.place # "gpu-local"
      <4>1. r = Ok([p EXCEPT !.place = "vulkan"])
        BY <3>1, <3>4 DEF to_cpu_buffer
      <4>2. [p EXCEPT !.place = "vulkan"] = Frame(p.interp, "vulkan", p.len, p.whole)
        BY <2>2 DEF Frame
      <4>3. r.tag = "ok" /\ r.value = Frame(p.interp, "vulkan", p.len, p.whole)
        BY <4>1, <4>2 DEF Ok
      <4>4. r.value.interp = p.interp /\ r.value.place = "vulkan"
        BY <4>3 DEF Frame
      <4>5. QED
        BY <2>1, <3>4, <4>3, <4>4 DEF CpuPlaces
    <3>5. QED
      BY <3>2, <3>3, <3>4
  <2>5. QED
    BY <2>3, <2>4
<1>3. QED
  BY <1>1, <1>2

LEMMA EnsureGpu ==
  ASSUME gpu = TRUE, NEW p, IsPayload(p), NEW kinds
  PROVE  LET r == ensure_gpu_buffer(p, kinds) IN
         /\ r.tag \in {"ok", "error"}
         /\ r.tag = "ok" =>
               /\ p.type = "frame" /\ WellFormed(p) /\ p.interp.kind \in kinds
               /\ r.value = Frame(p.interp, r.value.place, p.len, p.whole)
               /\ r.value.interp = p.interp
               /\ r.value.place \in GpuPlaces
<1> DEFINE r == ensure_gpu_buffer(p, kinds)
<1>1. CASE ~is_frame_of(p, kinds)
  <2>1. r = Err
    BY <1>1 DEF ensure_gpu_buffer
  <2>2. QED
    BY <2>1 DEF Err
<1>2. CASE is_frame_of(p, kinds)
  <2>1. p.type = "frame" /\ WellFormed(p) /\ p.interp.kind \in kinds
    BY <1>2 DEF is_frame_of, IsPayload
  <2>2. p = Frame(p.interp, p.place, p.len, p.whole) /\ p.place \in {"vulkan", "gpu", "gpu-local"}
    BY <2>1 DEF WellFormed, CpuPlaces, GpuPlaces
  <2> DEFINE place == IF p.place = "vulkan" THEN "gpu" ELSE p.place
  <2>3. r = Ok([p EXCEPT !.place = place])
    BY <1>2, <2>2 DEF ensure_gpu_buffer
  <2>4. [p EXCEPT !.place = place] = Frame(p.interp, place, p.len, p.whole)
    BY <2>2 DEF Frame
  <2>5. r.tag = "ok" /\ r.value = Frame(p.interp, place, p.len, p.whole)
    BY <2>3, <2>4 DEF Ok
  <2>6. QED
    BY <2>1, <2>2, <2>5, FrameFields DEF GpuPlaces
<1>3. QED
  BY <1>1, <1>2

-----------------------------------------------------------------------------
(* How many bytes there are.                                               *)
LEMMA Multiples ==
  ASSUME NEW S \in Nat \ {0}, NEW k \in Int
  PROVE  S * k \in Int /\ (k >= 1 => S * k >= S) /\ (k >= 2 => S * k >= 2 * S) /\ (k <= -1 => S * k <= -S)
<1>0. ASSUME k >= 1 PROVE S * k >= S
  <2>1. S * (k - 1) >= 0
    BY <1>0
  <2>2. QED
    BY <2>1
<1>1. ASSUME k >= 2 PROVE S * k >= 2 * S
  <2>1. S * (k - 2) >= 0
    BY <1>1
  <2>2. QED
    BY <2>1
<1>2. ASSUME k <= -1 PROVE S * k <= -S
  <2>1. S * (-1 - k) >= 0
    BY <1>2
  <2>2. QED
    BY <2>1
<1>3. QED
  BY <1>0, <1>1, <1>2

LEMMA Quotient ==
  ASSUME NEW S \in Nat \ {0}, NEW a \in Nat, NEW q \in Nat, S * q <= a, a < S * q + S
  PROVE  a \div S = q /\ a % S = a - S * q
<1> DEFINE p == a \div S
           e == a % S
           u == S * p
           v == S * q
           w == S * (p - q)
<1>1. p \in Int /\ e \in 0..(S - 1) /\ e = a - u
  OBVIOUS
<1>2. u \in Int /\ v \in Int /\ w \in Int /\ w = u - v
  BY <1>1
<1>3. p - q \in Int /\ (p - q >= 1 => w >= S) /\ (p - q <= -1 => w <= -S)
  BY <1>1, Multiples
<1>4. v <= a /\ a < v + S
  OBVIOUS
<1> HIDE DEF e, u, v, w, p
<1>5. p = q
  BY <1>1, <1>2, <1>3, <1>4
<1>6. QED
  BY <1>1, <1>5 DEF p, e, u, v

LEMMA NoRest ==
  ASSUME NEW S \in Nat \ {0}, NEW k \in Nat
  PROVE  (S * k) % S = 0
<1>1. S * k \in Nat
  OBVIOUS
<1>2. (S * k) % S = (S * k) - (S * k)
  BY <1>1, Quotient
<1>3. QED
  BY <1>1, <1>2

(* Values of eight bits or more, unpacked one by one.                      *)
LEMMA Unpacked ==
  ASSUME NEW x \in Nat, NEW d \in Nat, d >= 8
  PROVE  (((x * d + 7) \div 8) * 8) \div d = x
<1> DEFINE y == d * x
           l == (y + 7) \div 8
<1>1. y \in Nat /\ x * d = y
  OBVIOUS
<1>2. l \in Nat /\ y <= l * 8 /\ l * 8 <= y + 7
  BY <1>1
<1>3. d * x <= l * 8 /\ l * 8 < d * x + d
  BY <1>2
<1>4. QED
  BY <1>1, <1>2, <1>3, Quotient

LEMMA FourTimes ==
  ASSUME NEW w \in Nat, NEW h \in Nat, NEW S \in Nat \ {0}, (w * h) % S = 0
  PROVE  ((2 * w) * (2 * h)) % S = 0
<1> DEFINE q == (w * h) \div S
<1>1. q \in Nat /\ w * h \in Nat
  OBVIOUS
<1>2. w * h = S * q
  <2>1. (w * h) % S = (w * h) - S * q
    BY <1>1
  <2>2. S * q \in Int
    BY <1>1
  <2>3. QED
    BY <1>1, <2>1, <2>2
<1>3. (2 * w) * (2 * h) = 4 * (w * h)
  OBVIOUS
<1>4. (2 * w) * (2 * h) = S * (4 * q)
  BY <1>1, <1>2, <1>3
<1>5. 4 * q \in Nat
  BY <1>1
<1>6. QED
  BY <1>4, <1>5, NoRest

LEMMA RequiredBytes ==
  ASSUME NEW i \in Interps
  PROVE  /\ i.kind \in {"Raw", "Rgb", "SZ3"} /\ i.width \in Nat /\ i.height \in Nat
         /\ i.width * i.height \in Nat
         /\ i.kind = "Raw" =>
               /\ i.bit_depth \in Nat /\ i.cfa \in Cfas
               /\ i = Raw(i.width, i.height, i.bit_depth, i.cfa)
               /\ required_bytes(i) = (i.width * i.height * i.bit_depth + 7) \div 8
         /\ i.kind = "Rgb" =>
               i = Rgb(i.width, i.height) /\ required_bytes(i) = i.width * i.height * 3
         /\ i.kind = "SZ3" => required_bytes(i) = i.compressed_size
<1>1. CASE i \in [kind : {"Raw"}, width : Nat, height : Nat, bit_depth : Nat, cfa : Cfas]
  BY <1>1 DEF required_bytes, Raw
<1>2. CASE i \in [kind : {"Rgb"}, width : Nat, height : Nat]
  BY <1>2 DEF required_bytes, Rgb
<1>3. CASE i \in [kind : {"SZ3"}, width : Nat, height : Nat, compressed_size : Nat]
  BY <1>3 DEF required_bytes
<1>4. QED
  BY <1>1, <1>2, <1>3 DEF Interps

LEMMA MadeInterps ==
  ASSUME NEW w \in Nat, NEW h \in Nat, NEW d \in Nat, NEW c \in Cfas
  PROVE  /\ Raw(w, h, d, c) \in Interps
         /\ required_bytes(Raw(w, h, d, c)) = (w * h * d + 7) \div 8
         /\ Rgb(w, h) \in Interps
         /\ required_bytes(Rgb(w, h)) = w * h * 3
BY DEF Raw, Rgb, Interps, required_bytes

LEMMA WholeBytes ==
  ASSUME NEW x \in Nat
  PROVE  (x * 8 + 7) \div 8 = x /\ (x * 32 + 7) \div 8 = x * 4
OBVIOUS

-----------------------------------------------------------------------------
(* What has to be shown of node `name`, which answers the payload p with r *)
(* when the frame has passed the nodes of `passed` before.                 *)
NodeKeeps(name, p, r, passed) ==
    /\ r.tag \in {"ok", "error", "panic"}
    /\ r.tag = "panic" => name \in Asserting \/ (p.type = "frame" /\ p.place = "gpu-local")
    /\ r.tag = "ok" =>
           /\ PayloadFits(r.value, passed \cup {name})
           /\ \A f \in Elements(r.value) : f.place = "gpu-local" => name = "ColorVoodoo"

(* One more node makes fewer promises.                                     *)
LEMMA OneMore ==
  ASSUME NEW passed, NEW name
  PROVE  /\ MustFit(passed \cup {name}) =>
               /\ MustFit(passed) /\ name # "Histogram"
               /\ name = "ReverseDualFrameRawDecoder" => EvenSides
         /\ MustBeWhole(passed \cup {name}) =>
               /\ MustBeWhole(passed) /\ MustFit(passed) /\ name \notin Careless
               /\ name \in Averages => Shared(interp) /\ passed \cap Resizing = {}
               /\ name \in Unpacking => Unpackable(interp)
         /\ (passed \cup {name}) \cap Resizing = {} => passed \cap Resizing = {} /\ name \notin Resizing
<1>1. MustFit(passed \cup {name}) =>
        /\ MustFit(passed) /\ name # "Histogram"
        /\ name = "ReverseDualFrameRawDecoder" => EvenSides
  BY DEF MustFit
<1>2. MustBeWhole(passed \cup {name}) =>
        /\ MustBeWhole(passed) /\ name \notin Careless
        /\ name \in Averages => Shared(interp) /\ passed \cap Resizing = {}
        /\ name \in Unpacking => Unpackable(interp)
  BY DEF MustBeWhole
<1>3. MustBeWhole(passed) => MustFit(passed)
  BY DEF MustBeWhole, MustFit, Careless
<1>4. QED
  BY <1>1, <1>2, <1>3

LEMMA StillFits ==
  ASSUME NEW f, NEW passed, NEW name, FrameFits(f, passed)
  PROVE  FrameFits(f, passed \cup {name})
BY OneMore DEF FrameFits

LEMMA Refused ==
  ASSUME NEW name, NEW p, NEW passed, NEW r,
         r = Err \/ (r = Panic /\ (name \in Asserting \/ (p.type = "frame" /\ p.place = "gpu-local")))
  PROVE  NodeKeeps(name, p, r, passed)
BY DEF NodeKeeps, Err, Panic

(* The payload of most nodes is one frame.                                 *)
LEMMA OneFrame ==
  ASSUME NEW name, NEW p, NEW passed, NEW f, NEW r, r = Ok(f), f.type = "frame",
         FrameFits(f, passed \cup {name}),
         f.place = "gpu-local" => name = "ColorVoodoo"
  PROVE  NodeKeeps(name, p, r, passed)
<1>1. r.tag = "ok" /\ r.value = f
  BY DEF Ok
<1>2. PayloadFits(f, passed \cup {name}) /\ Elements(f) = {f}
  BY DEF PayloadFits, Elements
<1>3. QED
  BY <1>1, <1>2 DEF NodeKeeps

(* A frame of its own, and what it has to do with the input's.             *)
LEMMA NewFrame ==
  ASSUME NEW name, NEW p, NEW passed, NEW r, NEW i \in Interps, NEW place \in CpuPlaces \cup GpuPlaces,
         NEW l, NEW whole,
         p.type = "frame", FrameFits(p, passed),
         r = Ok(Frame(i, place, l, whole)),
         place = "vec" => ~gpu,
         place = "gpu-local" => name = "ColorVoodoo",
         ASSUME MustFit(passed \cup {name}), p.len = required_bytes(p.interp),
                EvenSides /\ p.interp.kind = "Raw" => Even(p.interp)
         PROVE  l = required_bytes(i) /\ (EvenSides /\ i.kind = "Raw" => Even(i)),
         ASSUME MustBeWhole(passed \cup {name}), p.whole, p.len = required_bytes(p.interp),
                passed \cap Resizing = {} /\ p.interp.kind # "SZ3" /\ Shared(interp) => Shared(p.interp),
                Unpackable(interp) => Unpackable(p.interp)
         PROVE  /\ whole
                /\ passed \cap Resizing = {} /\ name \notin Resizing /\ i.kind # "SZ3"
                   /\ Shared(interp) => Shared(i)
                /\ Unpackable(interp) => Unpackable(i)
  PROVE  NodeKeeps(name, p, r, passed)
<1> DEFINE f == Frame(i, place, l, whole)
<1>1. f.type = "frame" /\ f.interp = i /\ f.place = place /\ f.len = l /\ f.whole = whole
  BY DEF Frame
<1>2. WellFormed(f)
  BY <1>1 DEF WellFormed
<1> HIDE DEF f
<1>3. FrameFits(f, passed \cup {name})
  <2>1. MustFit(passed \cup {name}) =>
           f.len = required_bytes(f.interp) /\ (EvenSides /\ f.interp.kind = "Raw" => Even(f.interp))
    BY <1>1, OneMore DEF FrameFits
  <2>2. MustBeWhole(passed \cup {name}) =>
           /\ f.whole
           /\ (passed \cup {name}) \cap Resizing = {} /\ f.interp.kind # "SZ3" /\ Shared(interp) =>
                  Shared(f.interp)
           /\ Unpackable(interp) => Unpackable(f.interp)
    BY <1>1, OneMore DEF FrameFits
  <2>3. QED
    BY <1>2, <2>1, <2>2 DEF FrameFits
<1>4. QED
  BY <1>1, <1>3, OneFrame DEF f

LEMMA CpuPlaceFits == CpuPlace(gpu) \in CpuPlaces /\ (CpuPlace(gpu) = "vec" => ~gpu)
                      /\ CpuPlace(gpu) # "gpu-local"
BY DEF CpuPlace, CpuPlaces

(* A node that works on the CPU, or on the device: what it refuses, and    *)
(* what it has in hand when it goes on.                                    *)
LEMMA CpuRefuses ==
  ASSUME gpu \in BOOLEAN, NEW name, NEW p, NEW passed, PayloadFits(p, passed), NEW kinds,
         ensure_cpu_buffer(gpu, p, kinds).tag # "ok"
  PROVE  NodeKeeps(name, p, ensure_cpu_buffer(gpu, p, kinds), passed)
BY EnsureCpu, FitsIsPayload DEF NodeKeeps

LEMMA CpuTakes ==
  ASSUME gpu \in BOOLEAN, NEW p, NEW passed, PayloadFits(p, passed), NEW kinds,
         ensure_cpu_buffer(gpu, p, kinds).tag = "ok"
  PROVE  /\ p.type = "frame" /\ FrameFits(p, passed)
         /\ p.interp \in Interps /\ p.interp.kind \in kinds
         /\ p.place # "gpu-local" /\ ensure_cpu_buffer(gpu, p, kinds).value.interp = p.interp
BY EnsureCpu, FitsIsPayload DEF WellFormed

LEMMA GpuRefuses ==
  ASSUME gpu = TRUE, NEW name, NEW p, NEW passed, PayloadFits(p, passed), NEW kinds,
         ensure_gpu_buffer(p, kinds).tag # "ok"
  PROVE  NodeKeeps(name, p, ensure_gpu_buffer(p, kinds), passed)
BY EnsureGpu, FitsIsPayload DEF NodeKeeps

LEMMA GpuTakes ==
  ASSUME gpu = TRUE, NEW p, NEW passed, PayloadFits(p, passed), NEW kinds,
         ensure_gpu_buffer(p, kinds).tag = "ok"
  PROVE  /\ p.type = "frame" /\ FrameFits(p, passed)
         /\ p.interp \in Interps /\ p.interp.kind \in kinds
         /\ ensure_gpu_buffer(p, kinds).value.interp = p.interp
BY EnsureGpu, FitsIsPayload DEF WellFormed

(* The input's depth is changed.                                           *)
LEMMA NewDepth ==
  ASSUME NEW i \in Interps, i.kind = "Raw", NEW d \in Nat
  PROVE  /\ [i EXCEPT !.bit_depth = d] = Raw(i.width, i.height, d, i.cfa)
         /\ Raw(i.width, i.height, d, i.cfa) \in Interps
         /\ required_bytes(Raw(i.width, i.height, d, i.cfa)) = (i.width * i.height * d + 7) \div 8
<1>1. i = Raw(i.width, i.height, i.bit_depth, i.cfa) /\ i.width \in Nat /\ i.height \in Nat /\ i.cfa \in Cfas
  BY RequiredBytes
<1>2. [i EXCEPT !.bit_depth = d] = Raw(i.width, i.height, d, i.cfa)
  BY <1>1 DEF Raw
<1>3. QED
  BY <1>1, <1>2, MadeInterps

LEMMA RawFields ==
  ASSUME NEW w, NEW h, NEW d, NEW c
  PROVE  LET i == Raw(w, h, d, c)
         IN  i.kind = "Raw" /\ i.width = w /\ i.height = h /\ i.bit_depth = d /\ i.cfa = c
BY DEF Raw

LEMMA RgbFields ==
  ASSUME NEW w, NEW h
  PROVE  LET i == Rgb(w, h) IN i.kind = "Rgb" /\ i.width = w /\ i.height = h
BY DEF Rgb

LEMMA ManyBits ==
  ASSUME NEW i, i.kind = "Raw" => i.bit_depth \in Nat /\ i.bit_depth >= 8 /\ i.bit_depth # 12
  PROVE  Unpackable(i)
BY DEF Unpackable

LEMMA KeepsBitDepthConverter ==
  ASSUME gpu \in BOOLEAN, NEW p, NEW passed, PayloadFits(p, passed), NEW to \in {8, 16},
         NEW name \in {"BitDepthConverter", "BitDepthConverter16"}
  PROVE  NodeKeeps(name, p, BitDepthConverter(gpu, p, to), passed)
<1> DEFINE r == ensure_cpu_buffer(gpu, p, {"Raw"})
           i == p.interp
           pixels == i.width * i.height
           values == (p.len * 8) \div MaxOf(i.bit_depth, 8)
           w1 == p.whole /\ Paired(i)
           w2 == p.whole /\ values = pixels
           out(d, whole) == Frame([i EXCEPT !.bit_depth = d], CpuPlace(gpu),
                                  required_bytes([i EXCEPT !.bit_depth = d]), whole)
<1>1. CASE r.tag # "ok"
  <2>1. BitDepthConverter(gpu, p, to) = r
    BY <1>1 DEF BitDepthConverter
  <2>2. QED
    BY <1>1, <2>1, CpuRefuses
<1>2. CASE r.tag = "ok"
  <2>0. /\ p.type = "frame" /\ FrameFits(p, passed) /\ i \in Interps /\ i.kind = "Raw"
        /\ p.place # "gpu-local" /\ r.value.interp = i
    BY <1>2, CpuTakes
  <2>1. BitDepthConverter(gpu, p, to) =
            IF i.bit_depth = to THEN Ok(p)
            ELSE IF i.bit_depth = 12 /\ to = 16 /\ ~OutputCastable(gpu, [i EXCEPT !.bit_depth = 16])
                 THEN Panic
            ELSE IF i.bit_depth = 12 THEN Ok(out(to, w1))
            ELSE IF to # 8 \/ values > pixels THEN Panic
            ELSE Ok(out(8, w2))
    BY <1>2, <2>0 DEF BitDepthConverter, OnCpu
  <2>2. i.width \in Nat /\ i.height \in Nat /\ i.bit_depth \in Nat /\ i.cfa \in Cfas /\ pixels \in Nat
    BY <2>0, RequiredBytes
  <2>10. ASSUME NEW d \in {8, 16}
        PROVE  LET j == [i EXCEPT !.bit_depth = d] IN
               /\ j \in Interps /\ j.kind = "Raw" /\ j.bit_depth = d
               /\ j.width = i.width /\ j.height = i.height
    <3>1. d \in Nat
      OBVIOUS
    <3>2. /\ [i EXCEPT !.bit_depth = d] = Raw(i.width, i.height, d, i.cfa)
          /\ Raw(i.width, i.height, d, i.cfa) \in Interps
      BY <2>0, <3>1, NewDepth
    <3> DEFINE j == [i EXCEPT !.bit_depth = d]
    <3> HIDE DEF j
    <3>3. j = Raw(i.width, i.height, d, i.cfa) /\ j \in Interps
      BY <3>2 DEF j
    <3>4. j.kind = "Raw" /\ j.width = i.width /\ j.height = i.height /\ j.bit_depth = d
      BY <3>3, RawFields
    <3>5. QED
      BY <3>3, <3>4 DEF j
  <2>3. CASE i.bit_depth = to
    <3>1. FrameFits(p, passed \cup {name})
      BY <2>0, StillFits
    <3>2. QED
      BY <2>0, <2>1, <2>3, <3>1, OneFrame
  <2>8. CASE i.bit_depth = 12 /\ to = 16 /\ ~OutputCastable(gpu, [i EXCEPT !.bit_depth = 16])
    <3>1. i.bit_depth # to
      BY <2>8
    <3>2. BitDepthConverter(gpu, p, to) = Panic
      BY <2>1, <2>8, <3>1, Zenon
    <3>3. QED
      BY <3>2, Refused DEF Asserting
  <2>4. CASE i.bit_depth = 12 /\ ~(to = 16 /\ ~OutputCastable(gpu, [i EXCEPT !.bit_depth = 16]))
    <3>1. [i EXCEPT !.bit_depth = to] \in Interps /\ [i EXCEPT !.bit_depth = to].kind = "Raw"
          /\ [i EXCEPT !.bit_depth = to].bit_depth = to
          /\ [i EXCEPT !.bit_depth = to].width = i.width
          /\ [i EXCEPT !.bit_depth = to].height = i.height
      BY <2>10
    <3>0. i.bit_depth # to
      BY <2>4
    <3>2. BitDepthConverter(gpu, p, to) = Ok(out(to, w1))
      BY <2>1, <2>4, <3>0, Zenon
    <3> DEFINE j == [i EXCEPT !.bit_depth = to]
    <3> HIDE DEF j
    <3>3. j \in Interps /\ j.kind = "Raw" /\ j.bit_depth = to /\ j.width = i.width /\ j.height = i.height
      BY <3>1 DEF j
    <3>4. BitDepthConverter(gpu, p, to) = Ok(Frame(j, CpuPlace(gpu), required_bytes(j), w1))
      BY <3>2 DEF j
    <3>5. EvenSides /\ Even(i) => Even(j)
      BY <3>3 DEF Even
    <3>6. Shared(i) => Shared(j)
      BY <3>3 DEF Shared
    <3>7. to >= 8 /\ to # 12 /\ name \notin Resizing /\ name # "ColorVoodoo"
      BY DEF Resizing
    <3> HIDE DEF w1
    <3>8. NodeKeeps(name, p, Ok(Frame(j, CpuPlace(gpu), required_bytes(j), w1)), passed)
      <4> DEFINE l == required_bytes(j)
                 rr == Ok(Frame(j, CpuPlace(gpu), l, w1))
      <4>1. ASSUME MustFit(passed \cup {name}), p.len = required_bytes(p.interp),
                   EvenSides /\ p.interp.kind = "Raw" => Even(p.interp)
            PROVE  l = required_bytes(j) /\ (EvenSides /\ j.kind = "Raw" => Even(j))
        BY <2>0, <3>5, <4>1
      <4>2. ASSUME MustBeWhole(passed \cup {name}), p.whole, p.len = required_bytes(p.interp),
                passed \cap Resizing = {} /\ p.interp.kind # "SZ3" /\ Shared(interp) => Shared(p.interp),
                Unpackable(interp) => Unpackable(p.interp)
            PROVE  /\ w1
                   /\ passed \cap Resizing = {} /\ name \notin Resizing /\ j.kind # "SZ3"
                      /\ Shared(interp) => Shared(j)
                   /\ Unpackable(interp) => Unpackable(j)
        <5>1. Unpackable(i) /\ i.kind = "Raw" /\ i.bit_depth = 12
          BY <2>0, <2>4, <4>2, OneMore DEF Unpacking
        <5>2. w1
          BY <4>2, <5>1, Zenon DEF w1, Unpackable
        <5>3. Unpackable(j)
          BY <3>3, <3>7, ManyBits
        <5>4. QED
          BY <2>0, <3>3, <3>6, <3>7, <4>2, <5>2, <5>3
      <4> HIDE DEF l
      <4>3. rr = Ok(Frame(j, CpuPlace(gpu), l, w1))
        OBVIOUS
      <4> HIDE DEF rr
      <4>4. NodeKeeps(name, p, rr, passed)
        BY <2>0, <3>3, <3>7, <4>1, <4>2, <4>3, NewFrame, CpuPlaceFits
      <4>5. QED
        BY <4>4 DEF rr, l
    <3>9. QED
      BY <3>4, <3>8
  <2>5. CASE i.bit_depth # to /\ i.bit_depth # 12 /\ (to # 8 \/ values > pixels)
    BY <2>1, <2>5, Refused DEF Asserting
  <2>6. CASE i.bit_depth # to /\ i.bit_depth # 12 /\ ~(to # 8 \/ values > pixels)
    <3> DEFINE j == [i EXCEPT !.bit_depth = 8]
    <3>1. j \in Interps /\ j.kind = "Raw" /\ j.bit_depth = 8 /\ j.width = i.width /\ j.height = i.height
      BY <2>10
    <3>2. BitDepthConverter(gpu, p, to) = Ok(Frame(j, CpuPlace(gpu), required_bytes(j), w2))
      BY <2>1, <2>6
    <3> HIDE DEF j
    <3>3. Even(i) => Even(j)
      BY <3>1 DEF Even
    <3>4. Shared(i) => Shared(j)
      BY <3>1 DEF Shared
    <3>5. ASSUME p.whole, p.len = required_bytes(i), i.bit_depth >= 8
          PROVE  w2
      <4>1. MaxOf(i.bit_depth, 8) = i.bit_depth
        BY <2>2, <3>5 DEF MaxOf
      <4>2. p.len = (pixels * i.bit_depth + 7) \div 8
        BY <2>0, <3>5, RequiredBytes
      <4>3. values = pixels
        <5> DEFINE d == i.bit_depth
                   l == p.len
        <5>1. pixels \in Nat /\ d \in Nat /\ d >= 8
          BY <2>2, <3>5
        <5>2. l = (pixels * d + 7) \div 8
          BY <4>2
        <5>3. values = (l * 8) \div d
          BY <4>1
        <5> HIDE DEF d, l, pixels
        <5>4. (((pixels * d + 7) \div 8) * 8) \div d = pixels
          BY <5>1, Unpacked
        <5>5. QED
          BY <5>2, <5>3, <5>4
      <4>4. QED
        BY <3>5, <4>3
    <3> HIDE DEF w2
    <3>6. name \notin Resizing /\ name # "ColorVoodoo"
      BY DEF Resizing
    <3> DEFINE l == required_bytes(j)
               rr == Ok(Frame(j, CpuPlace(gpu), l, w2))
    <3>7. ASSUME MustFit(passed \cup {name}), p.len = required_bytes(p.interp),
                 EvenSides /\ p.interp.kind = "Raw" => Even(p.interp)
          PROVE  l = required_bytes(j) /\ (EvenSides /\ j.kind = "Raw" => Even(j))
      BY <2>0, <3>3, <3>7
    <3>8. ASSUME MustBeWhole(passed \cup {name}), p.whole, p.len = required_bytes(p.interp),
              passed \cap Resizing = {} /\ p.interp.kind # "SZ3" /\ Shared(interp) => Shared(p.interp),
              Unpackable(interp) => Unpackable(p.interp)
          PROVE  /\ w2
                 /\ passed \cap Resizing = {} /\ name \notin Resizing /\ j.kind # "SZ3"
                    /\ Shared(interp) => Shared(j)
                 /\ Unpackable(interp) => Unpackable(j)
      <4>1. Unpackable(i)
        BY <3>8, OneMore DEF Unpacking
      <4>2. w2
        BY <2>0, <3>5, <3>8, <4>1 DEF Unpackable
      <4>3. Unpackable(j)
        BY <3>1, ManyBits
      <4>4. QED
        BY <2>0, <3>1, <3>4, <3>8, <4>2, <4>3
    <3> HIDE DEF l
    <3>9. rr = Ok(Frame(j, CpuPlace(gpu), l, w2))
      OBVIOUS
    <3> HIDE DEF rr
    <3>10. NodeKeeps(name, p, rr, passed)
      BY <2>0, <3>1, <3>6, <3>7, <3>8, <3>9, NewFrame, CpuPlaceFits
    <3>11. QED
      BY <3>2, <3>10 DEF rr, l
  <2>7. QED
    BY <2>3, <2>4, <2>5, <2>6, <2>8
<1>3. QED
  BY <1>1, <1>2

LEMMA KeepsFp32ToUInt16 ==
  ASSUME gpu \in BOOLEAN, NEW p, NEW passed, PayloadFits(p, passed)
  PROVE  NodeKeeps("Fp32ToUInt16", p, Fp32ToUInt16(gpu, p), passed)
<1> DEFINE r == ensure_cpu_buffer(gpu, p, {"Raw"})
           i == p.interp
           name == "Fp32ToUInt16"
           j == [i EXCEPT !.bit_depth = 16]
           l == required_bytes(j)
           w == p.whole /\ p.len \div 4 >= i.width * i.height
           rr == Ok(Frame(j, CpuPlace(gpu), l, w))
<1>1. CASE r.tag # "ok"
  <2>1. Fp32ToUInt16(gpu, p) = r
    BY <1>1 DEF Fp32ToUInt16
  <2>2. QED
    BY <1>1, <2>1, CpuRefuses
<1>2. CASE r.tag = "ok"
  <2>0. /\ p.type = "frame" /\ FrameFits(p, passed) /\ i \in Interps /\ i.kind = "Raw"
        /\ r.value.interp = i
    BY <1>2, CpuTakes
  <2>1. Fp32ToUInt16(gpu, p) =
            IF ~Castable(p, 4) \/ ~OutputCastable(gpu, j) THEN Panic ELSE rr
    BY <1>2, <2>0 DEF Fp32ToUInt16, OnCpu
  <2>2. CASE ~Castable(p, 4) \/ ~OutputCastable(gpu, j)
    BY <2>1, <2>2, Refused DEF Asserting
  <2>3. CASE ~(~Castable(p, 4) \/ ~OutputCastable(gpu, j))
    <3>1. j \in Interps /\ j.kind = "Raw" /\ j.width = i.width /\ j.height = i.height
      <4>1. i.width \in Nat /\ i.height \in Nat /\ i.cfa \in Cfas
        BY <2>0, RequiredBytes
      <4>2. j = Raw(i.width, i.height, 16, i.cfa) /\ Raw(i.width, i.height, 16, i.cfa) \in Interps
        BY <2>0, NewDepth
      <4> HIDE DEF j
      <4>3. QED
        BY <4>2, RawFields
    <3> HIDE DEF w, j
    <3>2. Even(i) => Even(j)
      BY <3>1 DEF Even
    <3>3. ~MustBeWhole(passed \cup {name}) /\ name # "ColorVoodoo"
      BY OneMore DEF Careless
    <3>4. ASSUME MustFit(passed \cup {name}), p.len = required_bytes(p.interp),
                 EvenSides /\ p.interp.kind = "Raw" => Even(p.interp)
          PROVE  l = required_bytes(j) /\ (EvenSides /\ j.kind = "Raw" => Even(j))
      BY <2>0, <3>2, <3>4
    <3> HIDE DEF l, name
    <3>5. rr = Ok(Frame(j, CpuPlace(gpu), l, w))
      OBVIOUS
    <3> HIDE DEF rr
    <3>6. NodeKeeps(name, p, rr, passed)
      BY <2>0, <3>1, <3>3, <3>4, <3>5, NewFrame, CpuPlaceFits
    <3>7. Fp32ToUInt16(gpu, p) = rr
      BY <2>1, <2>3 DEF rr, l, j
    <3>8. QED
      BY <3>6, <3>7 DEF name
  <2>4. QED
    BY <2>2, <2>3
<1>3. QED
  BY <1>1, <1>2

LEMMA KeepsSZ3Compress ==
  ASSUME gpu \in BOOLEAN, NEW p, NEW passed, PayloadFits(p, passed),
         NEW size \in {4, 8}, NEW dims_from_frame \in BOOLEAN,
         NEW on_nothing \in {"ok", "error", "panic"}
  PROVE  NodeKeeps("SZ3Compress", p, SZ3Compress(gpu, p, size, dims_from_frame, on_nothing), passed)
<1> DEFINE r == ensure_cpu_buffer(gpu, p, {"Raw", "Rgb"})
           i == p.interp
           name == "SZ3Compress"
           j == SZ3Compressed(i)
           l == required_bytes(j)
           rr == Ok(Frame(j, CpuPlace(gpu), l, p.whole))
<1>1. CASE r.tag # "ok"
  <2>1. SZ3Compress(gpu, p, size, dims_from_frame, on_nothing) = r
    BY <1>1 DEF SZ3Compress
  <2>2. QED
    BY <1>1, <2>1, CpuRefuses
<1>2. CASE r.tag = "ok"
  <2>0. /\ p.type = "frame" /\ FrameFits(p, passed) /\ i \in Interps
        /\ r.value.interp = i
    BY <1>2, CpuTakes
  <2>1. SZ3Compress(gpu, p, size, dims_from_frame, on_nothing) \in {Panic, Err, rr}
    BY <1>2, <2>0 DEF SZ3Compress, OnCpu, Panic, Err
  <2>2. CASE SZ3Compress(gpu, p, size, dims_from_frame, on_nothing) \in {Panic, Err}
    BY <2>2, Refused DEF Asserting
  <2>3. CASE SZ3Compress(gpu, p, size, dims_from_frame, on_nothing) = rr
    <3>1. j \in Interps /\ j.kind = "SZ3"
      <4>1. i.width \in Nat /\ i.height \in Nat
        BY <2>0, RequiredBytes
      <4>2. QED
        BY <4>1 DEF SZ3Compressed, Interps
    <3> HIDE DEF j
    <3>3. Unpackable(j)
      BY <3>1, ManyBits
    <3>2. name # "ColorVoodoo" /\ l = required_bytes(j)
      OBVIOUS
    <3> HIDE DEF l, name
    <3>5. rr = Ok(Frame(j, CpuPlace(gpu), l, p.whole))
      OBVIOUS
    <3> HIDE DEF rr
    <3>6. NodeKeeps(name, p, rr, passed)
      BY <2>0, <3>1, <3>2, <3>3, <3>5, NewFrame, CpuPlaceFits
    <3>8. QED
      BY <2>3, <3>6 DEF name
  <2>4. QED
    BY <2>1, <2>2, <2>3
<1>3. QED
  BY <1>1, <1>2

LEMMA KeepsSplit ==
  ASSUME NEW p, NEW passed, PayloadFits(p, passed), NEW elem \in 0..2
  PROVE  NodeKeeps("Split", p, Split(p, elem), passed)
<1>1. CASE p.type # "list"
  BY <1>1, Refused DEF Split
<1>2. CASE p.type = "list"
  <2> DEFINE e == p.elems[1]
  <2>1. p = List(<<e, e>>) /\ FrameFits(e, passed) /\ e.place = "vulkan"
    BY <1>2, FitsIsPayload
  <2>2. p.elems = <<e, e>>
    <3> HIDE DEF e
    <3>1. QED
      BY <2>1 DEF List
  <2> HIDE DEF e
  <2>3. Len(p.elems) = 2 /\ (elem \in {0, 1} => p.elems[elem + 1] = e)
    BY <2>2
  <2>4. e.type = "frame"
    BY <2>1 DEF FrameFits, WellFormed, Frame
  <2>5. CASE elem = 2
    BY <1>2, <2>3, <2>5, Refused DEF Split
  <2>6. CASE elem \in {0, 1}
    <3>1. Split(p, elem) = Ok(e)
      BY <1>2, <2>3, <2>6 DEF Split
    <3>2. FrameFits(e, passed \cup {"Split"})
      BY <2>1, StillFits
    <3>3. QED
      BY <2>1, <2>4, <3>1, <3>2, OneFrame
  <2>7. QED
    BY <2>5, <2>6
<1>3. QED
  BY <1>1, <1>2

(* Every row is corrected or copied.                                       *)
LEMMA EveryRow ==
  ASSUME NEW m \in RowNoiseModels, NEW i, i.height \in Nat, i.height >= num_uncorrectable(m)
  PROVE  0..(i.height - 1) \subseteq RowsWritten(m, i)
<1> DEFINE U == num_uncorrectable(m)
<1>1. U \in Nat
  BY DEF num_uncorrectable, RowNoiseModels, MaxOf
<1> HIDE DEF U
<1>2. RowsWritten(m, i) =
        (U..(i.height - U - 1)) \cup (0..(U - 1)) \cup ((i.height - U)..(i.height - 1))
  BY DEF RowsWritten, U
<1>3. QED
  BY <1>1, <1>2

LEMMA KeepsRowNoiseRemoval ==
  ASSUME gpu \in BOOLEAN, NEW p, NEW passed, PayloadFits(p, passed),
         NEW m \in RowNoiseModels, NEW strip \in BOOLEAN
  PROVE  NodeKeeps("RowNoiseRemoval", p, RowNoiseRemoval(gpu, p, m, strip), passed)
<1> DEFINE r == ensure_cpu_buffer(gpu, p, {"Raw"})
           i == p.interp
           name == "RowNoiseRemoval"
           cut == IF strip THEN 2 * NUM_DARKCOLS ELSE 0
           j == [i EXCEPT !.width = @ - cut]
           l == required_bytes(j)
           w == p.whole /\ 0..(i.height - 1) \subseteq RowsWritten(m, i)
           rr == Ok(Frame(j, CpuPlace(gpu), l, w))
<1>1. CASE r.tag # "ok"
  <2>1. RowNoiseRemoval(gpu, p, m, strip) = Panic
    BY <1>1 DEF RowNoiseRemoval
  <2>2. QED
    BY <2>1, Refused DEF Asserting
<1>2. CASE r.tag = "ok"
  <2>0. /\ p.type = "frame" /\ FrameFits(p, passed) /\ i \in Interps /\ i.kind = "Raw"
        /\ r.value.interp = i
    BY <1>2, CpuTakes
  <2> DEFINE bad == \/ i.bit_depth # 16 \/ i.height < num_uncorrectable(m) \/ i.width < cut
                    \/ ~Castable(p, 2) \/ ~OutputCastable(gpu, j)
                    \/ ~GreenInside(m, i) \/ ~DarkInside(m, i)
  <2>1. RowNoiseRemoval(gpu, p, m, strip) = IF bad THEN Panic ELSE rr
    BY <1>2, <2>0 DEF RowNoiseRemoval, OnCpu
  <2>2. CASE bad
    BY <2>1, <2>2, Refused DEF Asserting
  <2>3. CASE ~bad
    <3>0. /\ i.width \in Nat /\ i.height \in Nat /\ i.cfa \in Cfas /\ cut \in {0, 16}
          /\ i = Raw(i.width, i.height, i.bit_depth, i.cfa) /\ i.bit_depth = 16
          /\ i.width >= cut /\ i.height >= num_uncorrectable(m)
      <4>1. cut \in {0, 16}
        BY DEF NUM_DARKCOLS
      <4>2. num_uncorrectable(m) \in Nat
        BY DEF num_uncorrectable, RowNoiseModels, MaxOf
      <4>3. i.width \in Nat /\ i.height \in Nat /\ i.cfa \in Cfas
            /\ i = Raw(i.width, i.height, i.bit_depth, i.cfa)
        BY <2>0, RequiredBytes
      <4>4. QED
        BY <2>3, <4>1, <4>2, <4>3
    <3> HIDE DEF cut
    <3>1. j \in Interps /\ j.kind = "Raw" /\ j.width = i.width - cut /\ j.height = i.height /\ j.bit_depth = 16
      <4>1. j = Raw(i.width - cut, i.height, 16, i.cfa)
        BY <3>0 DEF Raw
      <4>2. i.width - cut \in Nat
        BY <3>0
      <4>3. Raw(i.width - cut, i.height, 16, i.cfa) \in Interps
        BY <3>0, <4>2, MadeInterps
      <4> HIDE DEF j
      <4>4. QED
        BY <4>1, <4>3, RawFields
    <3>2. Even(i) => Even(j)
      <4> HIDE DEF j
      <4>1. QED
        BY <3>0, <3>1 DEF Even
    <3>3. 0..(i.height - 1) \subseteq RowsWritten(m, i)
      BY <3>0, EveryRow
    <3>4. p.whole => w
      BY <3>3
    <3>5. name \in Resizing /\ name # "ColorVoodoo"
      BY DEF Resizing
    <3> HIDE DEF w, j
    <3>6. ASSUME MustFit(passed \cup {name}), p.len = required_bytes(p.interp),
                 EvenSides /\ p.interp.kind = "Raw" => Even(p.interp)
          PROVE  l = required_bytes(j) /\ (EvenSides /\ j.kind = "Raw" => Even(j))
      BY <2>0, <3>2, <3>6
    <3>7. ASSUME MustBeWhole(passed \cup {name}), p.whole
          PROVE  /\ w
                 /\ passed \cap Resizing = {} /\ name \notin Resizing /\ j.kind # "SZ3"
                    /\ Shared(interp) => Shared(j)
                 /\ Unpackable(interp) => Unpackable(j)
      BY <3>1, <3>4, <3>5, <3>7, ManyBits
    <3> HIDE DEF l, name
    <3>8. rr = Ok(Frame(j, CpuPlace(gpu), l, w))
      OBVIOUS
    <3> HIDE DEF rr
    <3>9. NodeKeeps(name, p, rr, passed)
      BY <2>0, <3>1, <3>5, <3>6, <3>7, <3>8, NewFrame, CpuPlaceFits
    <3>10. RowNoiseRemoval(gpu, p, m, strip) = rr
      BY <2>1, <2>3 DEF rr, l, j, cut
    <3>11. QED
      BY <3>9, <3>10 DEF name
  <2>4. QED
    BY <2>2, <2>3
<1>3. QED
  BY <1>1, <1>2

LEMMA KeepsDualFrameRawDecoder ==
  ASSUME gpu \in BOOLEAN, NEW p, NEW passed, PayloadFits(p, passed), NEW c \in Cfas
  PROVE  NodeKeeps("DualFrameRawDecoder", p, DualFrameRawDecoder(gpu, p, c), passed)
<1> DEFINE r == ensure_cpu_buffer(gpu, p, {"Rgb"})
           i == p.interp
           name == "DualFrameRawDecoder"
           j == Raw(2 * i.width, 2 * i.height, 12, c)
           l == required_bytes(j)
           w == p.whole /\ p.len >= 3 * i.width * i.height
           rr == Ok(Frame(j, CpuPlace(gpu), l, w))
<1>1. CASE r.tag # "ok"
  <2>1. DualFrameRawDecoder(gpu, p, c) = r
    BY <1>1 DEF DualFrameRawDecoder
  <2>2. QED
    BY <1>1, <2>1, CpuRefuses
<1>2. CASE r.tag = "ok"
  <2>0. /\ p.type = "frame" /\ FrameFits(p, passed) /\ i \in Interps /\ i.kind = "Rgb"
        /\ r.value.interp = i
    BY <1>2, CpuTakes
  <2>1. DualFrameRawDecoder(gpu, p, c) \in {Panic, rr}
    BY <1>2, <2>0 DEF DualFrameRawDecoder, OnCpu
  <2>2. CASE DualFrameRawDecoder(gpu, p, c) = Panic
    BY <2>2, Refused DEF Asserting
  <2>3. CASE DualFrameRawDecoder(gpu, p, c) = rr
    <3>0. /\ i.width \in Nat /\ i.height \in Nat /\ required_bytes(i) = i.width * i.height * 3
      BY <2>0, RequiredBytes
    <3>1. /\ j \in Interps /\ j.kind = "Raw" /\ j.width = 2 * i.width /\ j.height = 2 * i.height
          /\ j.bit_depth = 12
      <4>1. 2 * i.width \in Nat /\ 2 * i.height \in Nat /\ 12 \in Nat
        BY <3>0
      <4>2. j \in Interps
        BY <4>1, MadeInterps
      <4>3. QED
        BY <4>2, RawFields
    <3> HIDE DEF j
    <3>2. Even(j)
      BY <3>0, <3>1 DEF Even
    <3>3. Paired(j)
      <4>1. 2 * i.width * (2 * i.height) = 2 * (i.width * (2 * i.height)) /\ i.width * (2 * i.height) \in Nat
        BY <3>0
      <4>2. (2 * (i.width * (2 * i.height))) % 2 = 0
        BY <4>1
      <4>3. j.width * j.height = 2 * (i.width * (2 * i.height))
        BY <3>1, <4>1
      <4>4. QED
        BY <4>2, <4>3 DEF Paired
    <3>4. Shared(i) => Shared(j)
      <4>1. 2 * NumThreads \in Nat \ {0}
        BY PipelineAssumption
      <4>2. (i.width * i.height) % (2 * NumThreads) = 0 =>
                (2 * i.width * (2 * i.height)) % (2 * NumThreads) = 0
        BY <3>0, <4>1, FourTimes
      <4>3. QED
        BY <3>1, <4>2 DEF Shared
    <3>5. p.len = required_bytes(i) => p.len >= 3 * i.width * i.height
      BY <3>0
    <3>6. name # "ColorVoodoo" /\ name \notin Resizing
      BY DEF Resizing
    <3>7. ASSUME p.whole, p.len = required_bytes(i)
          PROVE  w
      BY <3>5, <3>7
    <3> HIDE DEF w
    <3>8. ASSUME MustFit(passed \cup {name})
          PROVE  l = required_bytes(j) /\ (EvenSides /\ j.kind = "Raw" => Even(j))
      BY <3>2
    <3>9. ASSUME MustBeWhole(passed \cup {name}), p.whole, p.len = required_bytes(p.interp),
                 passed \cap Resizing = {} /\ p.interp.kind # "SZ3" /\ Shared(interp) =>
                     Shared(p.interp)
          PROVE  /\ w
                 /\ passed \cap Resizing = {} /\ name \notin Resizing /\ j.kind # "SZ3"
                    /\ Shared(interp) => Shared(j)
                 /\ Unpackable(interp) => Unpackable(j)
      <4>1. Unpackable(j)
        BY <3>1, <3>3 DEF Unpackable
      <4>2. QED
        BY <2>0, <3>1, <3>4, <3>7, <3>9, <4>1
    <3> HIDE DEF l, name
    <3>10. rr = Ok(Frame(j, CpuPlace(gpu), l, w))
      OBVIOUS
    <3> HIDE DEF rr
    <3>11. NodeKeeps(name, p, rr, passed)
      BY <2>0, <3>1, <3>6, <3>8, <3>9, <3>10, NewFrame, CpuPlaceFits
    <3>12. QED
      BY <2>3, <3>11 DEF name
  <2>4. QED
    BY <2>1, <2>2, <2>3
<1>3. QED
  BY <1>1, <1>2

(* The lines of twelve bit pixels that every second line is taken for make *)
(* three bytes of each four pixels.                                        *)
LEMMA HalfTheLines ==
  ASSUME NEW a \in Nat, NEW b \in Nat
  PROVE  ((((2 * a) * 3) \div 2) * (2 * b)) \div 2 = ((2 * a) \div 2) * ((2 * b) \div 2) * 3
<1>1. ((2 * a) * 3) \div 2 = 3 * a /\ (2 * a) \div 2 = a /\ (2 * b) \div 2 = b
  OBVIOUS
<1>2. (3 * a) * (2 * b) = 2 * (3 * a * b) /\ 3 * a * b \in Nat /\ a * b * 3 = 3 * a * b
  OBVIOUS
<1>3. (2 * (3 * a * b)) \div 2 = 3 * a * b
  BY <1>2
<1>4. QED
  BY <1>1, <1>2, <1>3

LEMMA KeepsReverseDualFrameRawDecoder ==
  ASSUME gpu \in BOOLEAN, NEW p, NEW passed, PayloadFits(p, passed), NEW offset \in 0..1
  PROVE  NodeKeeps("ReverseDualFrameRawDecoder", p, ReverseDualFrameRawDecoder(gpu, p, offset), passed)
<1> DEFINE r == ensure_cpu_buffer(gpu, p, {"Raw"})
           i == p.interp
           name == "ReverseDualFrameRawDecoder"
           line_bytes == (i.width * 3) \div 2
           l == (line_bytes * i.height) \div 2
           lines == (p.len \div line_bytes + 1 - offset) \div 2
           written == MinOf(l \div line_bytes, lines) * line_bytes
           w == p.whole /\ written = l
           j == Rgb(i.width \div 2, i.height \div 2)
           rr == Ok(Frame(j, CpuPlace(gpu), l, w))
<1>1. CASE r.tag # "ok"
  <2>1. ReverseDualFrameRawDecoder(gpu, p, offset) = r
    BY <1>1 DEF ReverseDualFrameRawDecoder
  <2>2. QED
    BY <1>1, <2>1, CpuRefuses
<1>2. CASE r.tag = "ok"
  <2>0. /\ p.type = "frame" /\ FrameFits(p, passed) /\ i \in Interps /\ i.kind = "Raw"
        /\ r.value.interp = i
    BY <1>2, CpuTakes
  <2>1. ReverseDualFrameRawDecoder(gpu, p, offset) \in {Panic, rr}
    BY <1>2, <2>0 DEF ReverseDualFrameRawDecoder
  <2>2. CASE ReverseDualFrameRawDecoder(gpu, p, offset) = Panic
    BY <2>2, Refused DEF Asserting
  <2>3. CASE ReverseDualFrameRawDecoder(gpu, p, offset) = rr
    <3> HIDE DEF w
    <3>0. i.width \in Nat /\ i.height \in Nat
      BY <2>0, RequiredBytes
    <3>1. i.width \div 2 \in Nat /\ i.height \div 2 \in Nat
      BY <3>0
    <3>2. j \in Interps /\ j.kind = "Rgb" /\ required_bytes(j) = (i.width \div 2) * (i.height \div 2) * 3
      BY <3>1 DEF Rgb, Interps, required_bytes
    <3>3. ASSUME Even(i)
          PROVE  l = (i.width \div 2) * (i.height \div 2) * 3
      <4> DEFINE a == i.width \div 2
                 b == i.height \div 2
      <4>1. i.width % 2 = 0 /\ i.height % 2 = 0
        BY <3>3 DEF Even
      <4>2. i.width = 2 * a /\ i.height = 2 * b /\ a \in Nat /\ b \in Nat
        BY <3>0, <4>1
      <4> HIDE DEF a, b
      <4>3. QED
        BY <4>2, HalfTheLines
    <3>4. name # "ColorVoodoo" /\ name \in Careless
      BY DEF Careless
    <3>5. ~MustBeWhole(passed \cup {name}) /\ (MustFit(passed \cup {name}) => EvenSides)
      BY <3>4, OneMore
    <3> HIDE DEF l, j, name
    <3>6. ASSUME MustFit(passed \cup {name}), EvenSides /\ p.interp.kind = "Raw" => Even(p.interp)
          PROVE  l = required_bytes(j) /\ (EvenSides /\ j.kind = "Raw" => Even(j))
      <4>1. Even(i)
        BY <2>0, <3>5, <3>6
      <4>2. l = (i.width \div 2) * (i.height \div 2) * 3
        BY <3>3, <4>1
      <4>3. QED
        BY <3>2, <4>2
    <3>7. rr = Ok(Frame(j, CpuPlace(gpu), l, w))
      OBVIOUS
    <3> HIDE DEF rr
    <3>8. NodeKeeps(name, p, rr, passed)
      BY <2>0, <3>2, <3>4, <3>5, <3>6, <3>7, NewFrame, CpuPlaceFits
    <3>9. QED
      BY <2>3, <3>8 DEF name
  <2>4. QED
    BY <2>1, <2>2, <2>3
<1>3. QED
  BY <1>1, <1>2

LEMMA KeepsAverage ==
  ASSUME gpu \in BOOLEAN, NEW p, NEW passed, PayloadFits(p, passed), NEW std \in BOOLEAN,
         NEW name, name = IF std THEN "AverageStd" ELSE "Average"
  PROVE  NodeKeeps(name, p, Average(gpu, p, NumThreads, std), passed)
<1> DEFINE r == ensure_cpu_buffer(gpu, p, {"Raw"})
           i == p.interp
           j == [i EXCEPT !.bit_depth = 32]
           l == i.width * i.height * 4
           w == p.whole /\ ChunksFit(i, NumThreads)
           out == Frame(j, "vulkan", l, w)
<1>1. CASE r.tag # "ok"
  <2>1. Average(gpu, p, NumThreads, std) = r
    BY <1>1 DEF Average
  <2>2. QED
    BY <1>1, <2>1, CpuRefuses
<1>2. CASE r.tag = "ok"
  <2>0. /\ p.type = "frame" /\ FrameFits(p, passed) /\ i \in Interps /\ i.kind = "Raw"
        /\ r.value.interp = i
    BY <1>2, CpuTakes
  <2>1. \/ Average(gpu, p, NumThreads, std) = Panic
        \/ gpu /\ Average(gpu, p, NumThreads, std) = Ok(IF std THEN List(<<out, out>>) ELSE out)
    BY <1>2, <2>0 DEF Average
  <2>11. name \in Averages /\ name \in Asserting /\ name \notin Resizing /\ name # "ColorVoodoo"
    BY DEF Averages, Asserting, Resizing
  <2>2. CASE Average(gpu, p, NumThreads, std) = Panic
    BY <2>2, <2>11, Refused
  <2>3. CASE gpu /\ Average(gpu, p, NumThreads, std) = Ok(IF std THEN List(<<out, out>>) ELSE out)
    <3>0. i.width \in Nat /\ i.height \in Nat /\ i.cfa \in Cfas /\ i.width * i.height \in Nat
      BY <2>0, RequiredBytes
    <3>1. /\ j \in Interps /\ j.kind = "Raw" /\ j.width = i.width /\ j.height = i.height
          /\ j.bit_depth = 32 /\ required_bytes(j) = (i.width * i.height * 32 + 7) \div 8
      <4>1. /\ j = Raw(i.width, i.height, 32, i.cfa) /\ Raw(i.width, i.height, 32, i.cfa) \in Interps
            /\ required_bytes(Raw(i.width, i.height, 32, i.cfa)) = (i.width * i.height * 32 + 7) \div 8
        BY <2>0, NewDepth
      <4> HIDE DEF j
      <4>2. QED
        BY <4>1, RawFields
    <3> HIDE DEF j
    <3>2. Even(i) => Even(j)
      BY <3>1 DEF Even
    <3>3. Shared(i) => Shared(j) /\ ChunksFit(i, NumThreads)
      BY <3>1 DEF Shared, ChunksFit
    <3>4. l = required_bytes(j)
      BY <3>0, <3>1, WholeBytes
    <3>5. p.whole /\ Shared(i) => w
      BY <3>3
    <3> HIDE DEF w, l
    <3>6. out.type = "frame" /\ out.interp = j /\ out.place = "vulkan" /\ out.len = l /\ out.whole = w
      BY FrameFields
    <3> HIDE DEF out
    <3>7. WellFormed(out)
      <4>1. out = Frame(j, "vulkan", l, w)
        BY DEF out
      <4>2. QED
        BY <3>1, <3>6, <4>1 DEF WellFormed, CpuPlaces, GpuPlaces
    <3>8. MustFit(passed \cup {name}) =>
              out.len = required_bytes(out.interp) /\ (EvenSides /\ out.interp.kind = "Raw" => Even(out.interp))
      BY <2>0, <3>2, <3>4, <3>6, OneMore DEF FrameFits
    <3>9. ASSUME MustBeWhole(passed \cup {name})
          PROVE  /\ w
                 /\ (passed \cup {name}) \cap Resizing = {} /\ j.kind # "SZ3" /\ Shared(interp) =>
                        Shared(j)
                 /\ Unpackable(interp) => Unpackable(j)
      <4>1. MustBeWhole(passed) /\ passed \cap Resizing = {} /\ Shared(interp)
        BY <2>11, <3>9, OneMore
      <4>2. p.whole /\ Shared(i)
        BY <2>0, <4>1 DEF FrameFits
      <4>3. w /\ Shared(j)
        BY <3>3, <3>5, <4>2
      <4>4. Unpackable(j)
        BY <3>1, ManyBits
      <4>5. QED
        BY <4>3, <4>4
    <3>10. FrameFits(out, passed \cup {name})
      <4>1. MustBeWhole(passed \cup {name}) =>
              /\ out.whole
              /\ (passed \cup {name}) \cap Resizing = {} /\ out.interp.kind # "SZ3" /\ Shared(interp) =>
                     Shared(out.interp)
              /\ Unpackable(interp) => Unpackable(out.interp)
        BY <3>6, <3>9
      <4>2. QED
        BY <3>7, <3>8, <4>1 DEF FrameFits
    <3>11. CASE ~std
      <4>1. Average(gpu, p, NumThreads, std) = Ok(out)
        BY <2>3, <3>11
      <4>2. QED
        BY <3>6, <3>10, <4>1, OneFrame
    <3>12. CASE std
      <4> DEFINE q == List(<<out, out>>)
      <4>1. Average(gpu, p, NumThreads, std) = Ok(q)
        BY <2>3, <3>12
      <4>2. q.type = "list" /\ q.elems = <<out, out>>
        BY DEF List
      <4>3. q = List(<<q.elems[1], q.elems[1]>>) /\ q.elems[1] = out
        BY <4>2
      <4>4. Elements(q) = {out}
        BY <4>2 DEF Elements
      <4> HIDE DEF q
      <4>5. PayloadFits(q, passed \cup {name})
        BY <3>6, <3>10, <4>3 DEF PayloadFits
      <4>6. Ok(q).tag = "ok" /\ Ok(q).value = q
        BY DEF Ok
      <4>7. QED
        BY <3>6, <4>1, <4>4, <4>5, <4>6 DEF NodeKeeps
    <3>13. QED
      BY <3>11, <3>12
  <2>4. QED
    BY <2>1, <2>2, <2>3
<1>3. QED
  BY <1>1, <1>2

(* The nodes of the device.                                                *)
LEMMA Depth ==
  ASSUME gpu = TRUE, NEW p, NEW passed, PayloadFits(p, passed), NEW d
  PROVE  LET r == RequireDepth(p, d) IN
         \/ r.tag = "error"
         \/ /\ r.tag = "ok" /\ p.type = "frame" /\ FrameFits(p, passed)
            /\ p.interp \in Interps /\ p.interp.kind = "Raw" /\ p.interp.bit_depth = d
<1> DEFINE r == ensure_gpu_buffer(p, {"Raw"})
<1>1. CASE r.tag # "ok"
  <2>1. r.tag = "error"
    BY <1>1, EnsureGpu, FitsIsPayload
  <2>2. QED
    BY <2>1 DEF RequireDepth
<1>2. CASE r.tag = "ok"
  <2>1. /\ p.type = "frame" /\ FrameFits(p, passed) /\ p.interp \in Interps /\ p.interp.kind = "Raw"
        /\ r.value.interp = p.interp
    BY <1>2, GpuTakes
  <2>2. CASE p.interp.bit_depth # d
    BY <1>2, <2>1, <2>2 DEF RequireDepth, Err
  <2>3. CASE p.interp.bit_depth = d
    BY <1>2, <2>1, <2>3 DEF RequireDepth
  <2>4. QED
    BY <2>2, <2>3
<1>3. QED
  BY <1>1, <1>2

LEMMA ErrorKeeps ==
  ASSUME NEW name, NEW p, NEW passed, NEW r, r.tag = "error"
  PROVE  NodeKeeps(name, p, r, passed)
BY DEF NodeKeeps

(* A frame with the input's wholeness, on the device.                      *)
LEMMA NewOnGpu ==
  ASSUME NEW name, NEW p, NEW passed, PayloadFits(p, passed), p.type = "frame", FrameFits(p, passed),
         name # "ColorVoodoo", NEW j \in Interps, NEW whole,
         MustBeWhole(passed \cup {name}) => whole = p.whole,
         j.kind = "Raw" => p.interp.kind = "Raw" /\ j.bit_depth \in Nat
                           /\ (j.bit_depth = 8 \/ j = p.interp),
         name \notin Resizing => j.width = p.interp.width /\ j.height = p.interp.height,
         j.kind = "SZ3" \/ p.interp.kind # "SZ3",
         j.kind = "Raw" => name \notin Resizing
  PROVE  NodeKeeps(name, p, OnGpu(j, whole), passed)
<1> DEFINE i == p.interp
           l == required_bytes(j)
           rr == Ok(Frame(j, "gpu", l, whole))
<1>1. j.kind = "Raw" /\ Even(i) => Even(j)
  BY DEF Even
<1>2. name \notin Resizing /\ Shared(i) => Shared(j)
  BY DEF Shared
<1>3. ASSUME MustFit(passed \cup {name}), EvenSides /\ p.interp.kind = "Raw" => Even(p.interp)
      PROVE  l = required_bytes(j) /\ (EvenSides /\ j.kind = "Raw" => Even(j))
  BY <1>1, <1>3
<1>4. ASSUME MustBeWhole(passed \cup {name}), p.whole,
             passed \cap Resizing = {} /\ p.interp.kind # "SZ3" /\ Shared(interp) => Shared(p.interp),
             Unpackable(interp) => Unpackable(p.interp)
      PROVE  /\ whole
             /\ passed \cap Resizing = {} /\ name \notin Resizing /\ j.kind # "SZ3"
                /\ Shared(interp) => Shared(j)
             /\ Unpackable(interp) => Unpackable(j)
  <2>1. whole
    BY <1>4
  <2>2. passed \cap Resizing = {} /\ name \notin Resizing /\ j.kind # "SZ3" /\ Shared(interp) =>
            Shared(j)
    BY <1>2, <1>4
  <2>3. Unpackable(interp) => Unpackable(j)
    BY <1>4 DEF Unpackable
  <2>4. QED
    BY <2>1, <2>2, <2>3
<1> HIDE DEF l
<1>5. rr = Ok(Frame(j, "gpu", l, whole)) /\ "gpu" \in CpuPlaces \cup GpuPlaces
  BY DEF GpuPlaces
<1> HIDE DEF rr
<1>6. NodeKeeps(name, p, rr, passed)
  BY <1>3, <1>4, <1>5, NewFrame
<1>7. OnGpu(j, whole) = rr
  BY DEF OnGpu, rr, l
<1>8. QED
  BY <1>6, <1>7

LEMMA KeepsGpuBitDepthConverter ==
  ASSUME gpu = TRUE, NEW p, NEW passed, PayloadFits(p, passed)
  PROVE  NodeKeeps("GpuBitDepthConverter", p, GpuBitDepthConverter(p), passed)
<1> DEFINE r == RequireDepth(p, 12)
           i == p.interp
           j == [i EXCEPT !.bit_depth = 8]
           name == "GpuBitDepthConverter"
<1>1. CASE r.tag = "error"
  <2>1. GpuBitDepthConverter(p) = r
    BY <1>1 DEF GpuBitDepthConverter
  <2>2. QED
    BY <1>1, <2>1, ErrorKeeps
<1>2. CASE r.tag # "error"
  <2>1. r.tag = "ok" /\ p.type = "frame" /\ FrameFits(p, passed) /\ i \in Interps /\ i.kind = "Raw"
    BY <1>2, Depth
  <2>2. j \in Interps /\ j.kind = "Raw" /\ j.width = i.width /\ j.height = i.height /\ j.bit_depth = 8
    <3>1. j = Raw(i.width, i.height, 8, i.cfa) /\ Raw(i.width, i.height, 8, i.cfa) \in Interps
      BY <2>1, NewDepth
    <3> HIDE DEF j
    <3>2. QED
      BY <3>1, RawFields
  <2> HIDE DEF j
  <2>3. name # "ColorVoodoo" /\ name \notin Resizing
    BY DEF Resizing
  <2> HIDE DEF name
  <2>11. i.kind # "SZ3" /\ j.bit_depth \in Nat
    BY <2>1, <2>2
  <2> DEFINE whole == p.whole
  <2>12. whole = p.whole
    OBVIOUS
  <2> HIDE DEF whole
  <2>13. NodeKeeps(name, p, OnGpu(j, whole), passed)
    BY <2>1, <2>2, <2>3, <2>11, <2>12, NewOnGpu
  <2>4. NodeKeeps(name, p, OnGpu(j, p.whole), passed)
    BY <2>13 DEF whole
  <2>5. GpuBitDepthConverter(p) = OnGpu(j, p.whole)
    BY <2>1 DEF GpuBitDepthConverter, j
  <2>6. QED
    BY <2>4, <2>5 DEF name
<1>3. QED
  BY <1>1, <1>2

LEMMA KeepsDebayer ==
  ASSUME gpu = TRUE, NEW p, NEW passed, PayloadFits(p, passed)
  PROVE  NodeKeeps("Debayer", p, Debayer(p), passed)
<1> DEFINE r == RequireDepth(p, 8)
           i == p.interp
           j == Rgb(i.width, i.height)
           name == "Debayer"
<1>1. CASE r.tag = "error"
  <2>1. Debayer(p) = r
    BY <1>1 DEF Debayer
  <2>2. QED
    BY <1>1, <2>1, ErrorKeeps
<1>2. CASE r.tag # "error"
  <2>1. r.tag = "ok" /\ p.type = "frame" /\ FrameFits(p, passed) /\ i \in Interps /\ i.kind = "Raw"
    BY <1>2, Depth
  <2>2. j \in Interps /\ j.kind = "Rgb" /\ j.width = i.width /\ j.height = i.height
    BY <2>1, RequiredBytes DEF Rgb, Interps
  <2> HIDE DEF j
  <2>3. name # "ColorVoodoo"
    OBVIOUS
  <2> HIDE DEF name
  <2>4. NodeKeeps(name, p, OnGpu(j, p.whole), passed)
    BY <2>1, <2>2, <2>3, NewOnGpu
  <2>5. Debayer(p) = OnGpu(j, p.whole)
    BY <2>1 DEF Debayer, j
  <2>6. QED
    BY <2>4, <2>5 DEF name
<1>3. QED
  BY <1>1, <1>2

LEMMA KeepsDebayerResolutionLoss ==
  ASSUME gpu = TRUE, NEW p, NEW passed, PayloadFits(p, passed)
  PROVE  NodeKeeps("DebayerResolutionLoss", p, DebayerResolutionLoss(p), passed)
<1> DEFINE r == RequireDepth(p, 8)
           i == p.interp
           j == Rgb(i.width \div 2, i.height \div 2)
           name == "DebayerResolutionLoss"
<1>1. CASE r.tag = "error"
  <2>1. DebayerResolutionLoss(p) = r
    BY <1>1 DEF DebayerResolutionLoss
  <2>2. QED
    BY <1>1, <2>1, ErrorKeeps
<1>2. CASE r.tag # "error"
  <2>1. r.tag = "ok" /\ p.type = "frame" /\ FrameFits(p, passed) /\ i \in Interps /\ i.kind = "Raw"
    BY <1>2, Depth
  <2>2. j \in Interps /\ j.kind = "Rgb"
    <3>1. i.width \div 2 \in Nat /\ i.height \div 2 \in Nat
      BY <2>1, RequiredBytes
    <3>2. QED
      BY <3>1 DEF Rgb, Interps
  <2> HIDE DEF j
  <2>3. name # "ColorVoodoo" /\ name \in Resizing
    BY DEF Resizing
  <2> HIDE DEF name
  <2>4. NodeKeeps(name, p, OnGpu(j, p.whole), passed)
    BY <2>1, <2>2, <2>3, NewOnGpu
  <2>5. DebayerResolutionLoss(p) = OnGpu(j, p.whole)
    BY <2>1 DEF DebayerResolutionLoss, j
  <2>6. QED
    BY <2>4, <2>5 DEF name
<1>3. QED
  BY <1>1, <1>2

LEMMA KeepsColorVoodoo ==
  ASSUME gpu = TRUE, NEW p, NEW passed, PayloadFits(p, passed)
  PROVE  NodeKeeps("ColorVoodoo", p, ColorVoodoo(p), passed)
<1> DEFINE r == ensure_gpu_buffer(p, {"Rgb"})
           i == p.interp
           l == required_bytes(i)
           rr == Ok(Frame(i, "gpu-local", l, p.whole))
           name == "ColorVoodoo"
<1>1. CASE r.tag # "ok"
  <2>1. ColorVoodoo(p) = r
    BY <1>1 DEF ColorVoodoo
  <2>2. QED
    BY <1>1, <2>1, GpuRefuses
<1>2. CASE r.tag = "ok"
  <2>1. p.type = "frame" /\ FrameFits(p, passed) /\ i \in Interps /\ i.kind = "Rgb"
    BY <1>2, GpuTakes
  <2>2. ColorVoodoo(p) = rr
    BY <1>2 DEF ColorVoodoo
  <2>3. l = required_bytes(i) /\ "gpu-local" \in CpuPlaces \cup GpuPlaces
    BY DEF GpuPlaces
  <2> HIDE DEF l
  <2>4. rr = Ok(Frame(i, "gpu-local", l, p.whole)) /\ name = "ColorVoodoo"
    OBVIOUS
  <2> HIDE DEF rr, name
  <2>5. ASSUME p.whole, Unpackable(interp) => Unpackable(p.interp),
               passed \cap Resizing = {} /\ p.interp.kind # "SZ3" /\ Shared(interp) => Shared(p.interp)
        PROVE  /\ p.whole
               /\ passed \cap Resizing = {} /\ name \notin Resizing /\ i.kind # "SZ3"
                  /\ Shared(interp) => Shared(i)
               /\ Unpackable(interp) => Unpackable(i)
    BY <2>1, <2>5
  <2>6. NodeKeeps(name, p, rr, passed)
    BY <2>1, <2>3, <2>4, <2>5, NewFrame
  <2>7. QED
    BY <2>2, <2>6 DEF name
<1>3. QED
  BY <1>1, <1>2

LEMMA KeepsLut3d ==
  ASSUME gpu = TRUE, NEW p, NEW passed, PayloadFits(p, passed)
  PROVE  NodeKeeps("Lut3d", p, Lut3d(p), passed)
<1> DEFINE r == ensure_gpu_buffer(p, {"Rgb"})
           i == p.interp
           name == "Lut3d"
<1>1. CASE r.tag # "ok"
  <2>1. Lut3d(p) = r
    BY <1>1 DEF Lut3d
  <2>2. QED
    BY <1>1, <2>1, GpuRefuses
<1>2. CASE r.tag = "ok"
  <2>1. p.type = "frame" /\ FrameFits(p, passed) /\ i \in Interps /\ i.kind = "Rgb"
    BY <1>2, GpuTakes
  <2>2. Lut3d(p) = OnGpu(i, p.whole)
    BY <1>2 DEF Lut3d
  <2>3. name # "ColorVoodoo"
    OBVIOUS
  <2> HIDE DEF name
  <2>4. NodeKeeps(name, p, OnGpu(i, p.whole), passed)
    BY <2>1, <2>3, NewOnGpu
  <2>5. QED
    BY <2>2, <2>4 DEF name
<1>3. QED
  BY <1>1, <1>2

LEMMA KeepsDarkframeSubtract ==
  ASSUME gpu = TRUE, NEW p, NEW passed, PayloadFits(p, passed)
  PROVE  NodeKeeps("DarkframeSubtract", p, DarkframeSubtract(p), passed)
<1> DEFINE r == ensure_gpu_buffer(p, {"Raw"})
           i == p.interp
           w == p.whole /\ p.interp.bit_depth <= 12
           name == "DarkframeSubtract"
<1>1. CASE r.tag # "ok"
  <2>1. DarkframeSubtract(p) = r
    BY <1>1 DEF DarkframeSubtract
  <2>2. QED
    BY <1>1, <2>1, GpuRefuses
<1>2. CASE r.tag = "ok"
  <2>1. p.type = "frame" /\ FrameFits(p, passed) /\ i \in Interps /\ i.kind = "Raw"
    BY <1>2, GpuTakes
  <2>2. DarkframeSubtract(p) = OnGpu(i, w)
    BY <1>2 DEF DarkframeSubtract
  <2>3. name # "ColorVoodoo" /\ name \in Careless /\ name \notin Resizing
    BY DEF Careless, Resizing
  <2>4. ~MustBeWhole(passed \cup {name}) /\ i.bit_depth \in Nat
    BY <2>1, <2>3, OneMore, RequiredBytes
  <2> HIDE DEF name, w
  <2>5. NodeKeeps(name, p, OnGpu(i, w), passed)
    BY <2>1, <2>3, <2>4, NewOnGpu
  <2>6. QED
    BY <2>2, <2>5 DEF name
<1>3. QED
  BY <1>1, <1>2

LEMMA KeepsHistogram ==
  ASSUME gpu = TRUE, NEW p, NEW passed, PayloadFits(p, passed)
  PROVE  NodeKeeps("Histogram", p, Histogram(p), passed)
<1> DEFINE r == ensure_gpu_buffer(p, {"Raw"})
           i == p.interp
           j == Raw(4096, 1, 32, i.cfa)
           l == (2 ^ i.bit_depth) * 4
           rr == Ok(Frame(j, "gpu", l, p.whole))
           name == "Histogram"
<1>1. CASE r.tag # "ok"
  <2>1. Histogram(p) = r
    BY <1>1 DEF Histogram
  <2>2. QED
    BY <1>1, <2>1, GpuRefuses
<1>2. CASE r.tag = "ok"
  <2>1. p.type = "frame" /\ FrameFits(p, passed) /\ i \in Interps /\ i.kind = "Raw"
    BY <1>2, GpuTakes
  <2> HIDE DEF l
  <2>2. Histogram(p) \in {Err, rr}
    BY <1>2 DEF Histogram, l
  <2>3. CASE Histogram(p) = Err
    BY <2>3, Refused
  <2>4. CASE Histogram(p) = rr
    <3>1. i.cfa \in Cfas
      BY <2>1, RequiredBytes
    <3>2. j \in Interps /\ "gpu" \in CpuPlaces \cup GpuPlaces
      BY <3>1, MadeInterps DEF GpuPlaces
    <3>3. name # "ColorVoodoo" /\ name \in Careless
      BY DEF Careless
    <3>4. ~MustBeWhole(passed \cup {name}) /\ ~MustFit(passed \cup {name})
      BY <3>3, OneMore
    <3> HIDE DEF j, name
    <3>5. rr = Ok(Frame(j, "gpu", l, p.whole))
      OBVIOUS
    <3> HIDE DEF rr
    <3>6. NodeKeeps(name, p, rr, passed)
      BY <2>1, <3>2, <3>3, <3>4, <3>5, NewFrame
    <3>7. QED
      BY <2>4, <3>6 DEF name
  <2>5. QED
    BY <2>2, <2>3, <2>4
<1>3. QED
  BY <1>1, <1>2

-----------------------------------------------------------------------------
(* The readers.                                                            *)
(* What has to be shown of reader `name`, which delivers r.                *)
ReaderDelivers(name, r) ==
    /\ r.tag \in {"ok", "error", "panic"}
    /\ r.tag = "panic" => name \in Asserting
    /\ r.tag = "ok" =>
           /\ PayloadFits(r.value, {name})
           /\ \A f \in Elements(r.value) : f.place # "gpu-local"

LEMMA ReaderFrame ==
  ASSUME gpu \in BOOLEAN, NEW name, NEW i \in Interps, NEW l, NEW whole,
         MustFit({name}) => l = required_bytes(i) /\ (EvenSides /\ i.kind = "Raw" => Even(i)),
         MustBeWhole({name}) => whole /\ (Shared(interp) => Shared(i))
                                /\ (Unpackable(interp) => Unpackable(i))
  PROVE  ReaderDelivers(name, Ok(Frame(i, CpuPlace(gpu), l, whole)))
<1> DEFINE f == Frame(i, CpuPlace(gpu), l, whole)
<1>1. /\ f.type = "frame" /\ f.interp = i /\ f.place = CpuPlace(gpu) /\ f.len = l /\ f.whole = whole
      /\ f = Frame(f.interp, f.place, f.len, f.whole)
  BY DEF Frame
<1>2. Ok(f).tag = "ok" /\ Ok(f).value = f
  BY DEF Ok
<1> HIDE DEF f
<1>3. WellFormed(f)
  BY <1>1, CpuPlaceFits DEF WellFormed
<1>4. ASSUME MustBeWhole({name})
      PROVE  /\ f.whole
             /\ Shared(interp) => Shared(f.interp)
             /\ Unpackable(interp) => Unpackable(f.interp)
  BY <1>1, <1>4
<1>5. FrameFits(f, {name})
  BY <1>1, <1>3, <1>4 DEF FrameFits
<1>6. PayloadFits(f, {name}) /\ Elements(f) = {f} /\ f.place # "gpu-local"
  BY <1>1, <1>5, CpuPlaceFits DEF PayloadFits, Elements
<1>7. ReaderDelivers(name, Ok(f))
  BY <1>2, <1>6 DEF ReaderDelivers
<1>8. QED
  BY <1>7 DEF f

LEMMA ReaderRefuses ==
  ASSUME NEW name, NEW r, r = Err \/ (r = Panic /\ name \in Asserting)
  PROVE  ReaderDelivers(name, r)
BY DEF ReaderDelivers, Err, Panic

LEMMA OwnFrame ==
  ASSUME gpu \in BOOLEAN, interp \in Interps, NEW name
  PROVE  ReaderDelivers(name, OnCpu(gpu, interp, TRUE))
<1> DEFINE l == required_bytes(interp)
           whole == TRUE
<1>1. MustFit({name}) => l = required_bytes(interp) /\ (EvenSides /\ interp.kind = "Raw" => Even(interp))
  BY DEF EvenSides
<1>2. MustBeWhole({name}) => whole /\ (Shared(interp) => Shared(interp))
                             /\ (Unpackable(interp) => Unpackable(interp))
  OBVIOUS
<1>3. OnCpu(gpu, interp, TRUE) = Ok(Frame(interp, CpuPlace(gpu), l, whole))
  BY DEF OnCpu
<1> HIDE DEF l, whole
<1>4. ReaderDelivers(name, Ok(Frame(interp, CpuPlace(gpu), l, whole)))
  BY <1>1, <1>2, ReaderFrame
<1>5. QED
  BY <1>3, <1>4

(* The webcam's frame, for its number of bytes per pixel.                  *)
WebcamName(b) == IF b < 3 THEN "WebcamInput16" ELSE "WebcamInput"
WebcamFrame(b, bytesused) ==
    WebcamInput(gpu, interp.width, interp.height, interp.width * interp.height * b, bytesused)

LEMMA ReadersDeliver ==
  ASSUME gpu \in BOOLEAN, interp \in Interps
  PROVE  /\ \A file_len, n : ReaderDelivers("RawBlobReader", RawBlobReader(gpu, interp, file_len, n))
         /\ \A file_lens, internal_loop, n :
                ReaderDelivers("RawDirectoryReader",
                               RawDirectoryReader(gpu, interp, file_lens, internal_loop, n))
         /\ \A name, ends : ReaderDelivers(name, StreamReader(gpu, interp, ends))
         /\ \A bytes_per_pixel \in 1..4 : \A bytesused :
                ReaderDelivers(WebcamName(bytes_per_pixel), WebcamFrame(bytes_per_pixel, bytesused))
<1>1. ASSUME NEW file_len, NEW n
      PROVE  ReaderDelivers("RawBlobReader", RawBlobReader(gpu, interp, file_len, n))
  <2> DEFINE r == RawBlobReader(gpu, interp, file_len, n)
  <2>1. r \in {Panic, Err, OnCpu(gpu, interp, TRUE)}
    BY DEF RawBlobReader
  <2>2. "RawBlobReader" \in Asserting
    BY DEF Asserting
  <2> HIDE DEF r
  <2>3. ReaderDelivers("RawBlobReader", r)
    BY <2>1, <2>2, OwnFrame, ReaderRefuses
  <2>4. QED
    BY <2>3 DEF r
<1>2. ASSUME NEW file_lens, NEW internal_loop, NEW n
      PROVE  ReaderDelivers("RawDirectoryReader",
                            RawDirectoryReader(gpu, interp, file_lens, internal_loop, n))
  <2> DEFINE r == RawDirectoryReader(gpu, interp, file_lens, internal_loop, n)
  <2>1. r \in {Err, OnCpu(gpu, interp, TRUE)}
    BY DEF RawDirectoryReader
  <2> HIDE DEF r
  <2>2. ReaderDelivers("RawDirectoryReader", r)
    BY <2>1, OwnFrame, ReaderRefuses
  <2>3. QED
    BY <2>2 DEF r
<1>3. ASSUME NEW name, NEW ends
      PROVE  ReaderDelivers(name, StreamReader(gpu, interp, ends))
  <2>1. StreamReader(gpu, interp, ends) \in {Err, OnCpu(gpu, interp, TRUE)}
    BY DEF StreamReader
  <2>2. QED
    BY <2>1, OwnFrame, ReaderRefuses
<1>4. ASSUME NEW b \in 1..4, NEW bytesused
      PROVE  ReaderDelivers(WebcamName(b), WebcamFrame(b, bytesused))
  <2> DEFINE i == Rgb(interp.width, interp.height)
             n == interp.width * interp.height
             l == required_bytes(i)
             whole == (n * b) \div 3 >= n
             name == WebcamName(b)
             r == WebcamFrame(b, bytesused)
  <2>1. /\ i \in Interps /\ i.kind = "Rgb" /\ i.width = interp.width /\ i.height = interp.height
        /\ n \in Nat
    BY RequiredBytes DEF Rgb, Interps
  <2>2. r \in {Err, Ok(Frame(i, CpuPlace(gpu), l, whole))}
    BY DEF WebcamFrame, WebcamInput, OnCpu
  <2>3. name \notin Careless => whole
    <3>1. b < 3 => name \in Careless
      BY DEF WebcamName, Careless
    <3> HIDE DEF name, n
    <3>2. CASE b = 3
      <4>1. (n * 3) \div 3 = n
        BY <2>1
      <4>2. QED
        BY <2>1, <3>2, <4>1
    <3>3. CASE b = 4
      <4>1. (n * 4) \div 3 >= n
        BY <2>1
      <4>2. QED
        BY <3>3, <4>1
    <3>4. QED
      BY <3>1, <3>2, <3>3
  <2> HIDE DEF i, name, whole
  <2>4. MustFit({name}) => l = required_bytes(i) /\ (EvenSides /\ i.kind = "Raw" => Even(i))
    BY <2>1
  <2>5. MustBeWhole({name}) => whole /\ (Shared(interp) => Shared(i))
                               /\ (Unpackable(interp) => Unpackable(i))
    BY <2>1, <2>3 DEF MustBeWhole, Shared, Unpackable
  <2> HIDE DEF l, r
  <2>6. ReaderDelivers(name, Ok(Frame(i, CpuPlace(gpu), l, whole)))
    BY <2>1, <2>4, <2>5, ReaderFrame
  <2>7. ReaderDelivers(name, r)
    BY <2>2, <2>6, ReaderRefuses
  <2>8. QED
    BY <2>7 DEF name, r
<1>5. QED
  BY <1>1, <1>2, <1>3, <1>4

LEMMA DngReaderDelivers ==
  ASSUME gpu \in BOOLEAN, dng # None, WrittenFits
  PROVE  ReaderDelivers("CinemaDngReader", CinemaDngReader(gpu, dng))
<1> DEFINE c == [red_in_first_col |-> dng.pattern[1] = 0 \/ dng.pattern[3] = 0,
                 red_in_first_row |-> dng.pattern[1] = 0 \/ dng.pattern[2] = 0]
           i == Raw(dng.width, dng.height, dng.bits, c)
           name == "CinemaDngReader"
<1>1. CinemaDngReader(gpu, dng) = Ok(Frame(i, CpuPlace(gpu), dng.strip, dng.whole))
  BY DEF CinemaDngReader
<1>2. c \in Cfas
  BY DEF Cfas
<1> HIDE DEF c
<1>3. /\ interp \in Interps /\ interp.kind = "Raw"
      /\ dng.width = interp.width /\ dng.height = interp.height /\ dng.bits = interp.bit_depth
  BY DEF WrittenFits
<1>4. /\ interp.width \in Nat /\ interp.height \in Nat /\ interp.bit_depth \in Nat
      /\ required_bytes(interp) = (interp.width * interp.height * interp.bit_depth + 7) \div 8
  BY <1>3, RequiredBytes
<1>5. i \in Interps /\ required_bytes(i) = required_bytes(interp)
  <2>1. /\ i \in Interps
        /\ required_bytes(i) = (dng.width * dng.height * dng.bits + 7) \div 8
    <3>1. dng.width \in Nat /\ dng.height \in Nat /\ dng.bits \in Nat
      BY <1>3, <1>4
    <3>2. QED
      BY <1>2, <3>1, MadeInterps
  <2> HIDE DEF i
  <2>2. QED
    BY <1>3, <1>4, <2>1
<1>6. i.kind = "Raw" /\ i.width = interp.width /\ i.height = interp.height /\ i.bit_depth = interp.bit_depth
  BY <1>3, RawFields
<1> HIDE DEF i, name
<1>7. MustFit({name}) => dng.strip = required_bytes(i) /\ (EvenSides /\ i.kind = "Raw" => Even(i))
  BY <1>5, <1>6 DEF MustFit, SourceFits, EvenSides, Even
<1>8. MustBeWhole({name}) => dng.whole /\ (Shared(interp) => Shared(i))
                             /\ (Unpackable(interp) => Unpackable(i))
  BY <1>3, <1>6 DEF MustBeWhole, Shared, Unpackable, Paired
<1> DEFINE whole == dng.whole
           l == dng.strip
<1>9. l = dng.strip /\ whole = dng.whole
  OBVIOUS
<1> HIDE DEF whole, l
<1>10. ReaderDelivers(name, Ok(Frame(i, CpuPlace(gpu), l, whole)))
  BY <1>5, <1>7, <1>8, <1>9, ReaderFrame
<1>11. QED
  BY <1>1, <1>9, <1>10 DEF name

-----------------------------------------------------------------------------
(* The sinks.  What has to be shown of sink `name`, which makes r of the   *)
(* payload p.                                                              *)
SinkTakes(name, p, r, passed) ==
    /\ r.tag \in {"ok", "error", "panic"}
    /\ r.tag = "panic" => name \in Asserting \/ (p.type = "frame" /\ p.place = "gpu-local")
    /\ r.tag = "ok" =>
           /\ PayloadFits(r.value, passed)
           /\ name = "CinemaDngWriter" => is_frame_of(r.value, {"Raw"}) /\ WellFormed(r.value)

LEMMA CopyFits ==
  ASSUME NEW p, NEW passed, FrameFits(p, passed), NEW place \in CpuPlaces \cup GpuPlaces,
         place = "vec" => ~gpu, NEW v, v = Frame(p.interp, place, p.len, p.whole)
  PROVE  FrameFits(v, passed) /\ v.type = "frame" /\ v.interp = p.interp /\ PayloadFits(v, passed)
<1> DEFINE w == p.whole
<1>1. v = Frame(p.interp, place, p.len, w)
  OBVIOUS
<1> HIDE DEF w
<1>2. v.type = "frame" /\ v.interp = p.interp /\ v.place = place /\ v.len = p.len /\ v.whole = w
  BY <1>1 DEF Frame
<1>3. p.interp \in Interps
  BY DEF FrameFits, WellFormed
<1>4. WellFormed(v)
  BY <1>1, <1>2, <1>3 DEF WellFormed
<1>5. MustFit(passed) =>
        v.len = required_bytes(v.interp) /\ (EvenSides /\ v.interp.kind = "Raw" => Even(v.interp))
  BY <1>2 DEF FrameFits
<1>6. MustBeWhole(passed) =>
        /\ w
        /\ passed \cap Resizing = {} /\ v.interp.kind # "SZ3" /\ Shared(interp) =>
               Shared(v.interp)
        /\ Unpackable(interp) => Unpackable(v.interp)
  <2>1. MustBeWhole(passed) => w
    BY DEF FrameFits, w
  <2>2. QED
    BY <1>2, <2>1 DEF FrameFits
<1>7. FrameFits(v, passed)
  BY <1>2, <1>4, <1>5, <1>6 DEF FrameFits
<1>8. QED
  BY <1>2, <1>7 DEF PayloadFits

LEMMA CpuSink ==
  ASSUME gpu \in BOOLEAN, NEW name, NEW p, NEW passed, PayloadFits(p, passed), NEW kinds,
         name = "CinemaDngWriter" => kinds = {"Raw"}
  PROVE  SinkTakes(name, p, ensure_cpu_buffer(gpu, p, kinds), passed)
<1> DEFINE r == ensure_cpu_buffer(gpu, p, kinds)
<1>1. /\ r.tag \in {"ok", "error", "panic"}
      /\ r.tag = "panic" => p.type = "frame" /\ p.place = "gpu-local"
  BY EnsureCpu, FitsIsPayload
<1>2. ASSUME r.tag = "ok"
      PROVE  /\ PayloadFits(r.value, passed)
             /\ name = "CinemaDngWriter" => is_frame_of(r.value, {"Raw"}) /\ WellFormed(r.value)
  <2>1. p.type = "frame" /\ FrameFits(p, passed) /\ p.interp.kind \in kinds
    BY <1>2, CpuTakes
  <2>2. /\ r.value = Frame(p.interp, r.value.place, p.len, p.whole)
        /\ r.value.place \in CpuPlaces \cup GpuPlaces /\ (r.value.place = "vec" => ~gpu)
    BY <1>2, EnsureCpu, FitsIsPayload
  <2>3. FrameFits(r.value, passed) /\ r.value.type = "frame" /\ r.value.interp = p.interp
        /\ PayloadFits(r.value, passed)
    BY <2>1, <2>2, CopyFits
  <2>4. QED
    BY <2>1, <2>3 DEF is_frame_of, FrameFits
<1> HIDE DEF r
<1>3. SinkTakes(name, p, r, passed)
  BY <1>1, <1>2 DEF SinkTakes
<1>4. QED
  BY <1>3 DEF r

LEMMA GpuSink ==
  ASSUME gpu = TRUE, NEW name, NEW p, NEW passed, PayloadFits(p, passed), NEW kinds,
         name # "CinemaDngWriter"
  PROVE  SinkTakes(name, p, ensure_gpu_buffer(p, kinds), passed)
<1> DEFINE r == ensure_gpu_buffer(p, kinds)
<1>1. r.tag \in {"ok", "error"}
  BY EnsureGpu, FitsIsPayload
<1>2. ASSUME r.tag = "ok"
      PROVE  PayloadFits(r.value, passed)
  <2>1. p.type = "frame" /\ FrameFits(p, passed)
    BY <1>2, GpuTakes
  <2>2. /\ r.value = Frame(p.interp, r.value.place, p.len, p.whole)
        /\ r.value.place \in CpuPlaces \cup GpuPlaces /\ r.value.place # "vec"
    BY <1>2, EnsureGpu, FitsIsPayload DEF GpuPlaces
  <2>3. QED
    BY <2>1, <2>2, CopyFits
<1> HIDE DEF r
<1>3. SinkTakes(name, p, r, passed)
  BY <1>1, <1>2 DEF SinkTakes
<1>4. QED
  BY <1>3 DEF r

LEMMA AssertingSink ==
  ASSUME NEW name \in Asserting, NEW p, NEW passed
  PROVE  SinkTakes(name, p, Panic, passed)
BY DEF SinkTakes, Panic

LEMMA SinksTake ==
  ASSUME gpu \in BOOLEAN, NEW p, NEW passed, PayloadFits(p, passed), NEW counted \in BOOLEAN
  PROVE  /\ SinkTakes("RawWriter", p, RawWriter(gpu, p), passed)
         /\ SinkTakes("CinemaDngWriter", p, CinemaDngWriter(gpu, p), passed)
         /\ SinkTakes("FfmpegWriter", p, FfmpegWriter(gpu, p), passed)
         /\ SinkTakes("BenchmarkSink", p, BenchmarkSink(p), passed)
         /\ SinkTakes("CinemaDngFrameserver", p, Frameserver(gpu, p, counted), passed)
         /\ SinkTakes("Display", p, Display(gpu, p), passed)
         /\ SinkTakes("Plot", p, Plot(gpu, p), passed)
<1>1. SinkTakes("RawWriter", p, RawWriter(gpu, p), passed)
  BY CpuSink DEF RawWriter
<1>2. SinkTakes("CinemaDngWriter", p, CinemaDngWriter(gpu, p), passed)
  BY CpuSink DEF CinemaDngWriter
<1>3. SinkTakes("FfmpegWriter", p, FfmpegWriter(gpu, p), passed)
  BY CpuSink DEF FfmpegWriter
<1>4. SinkTakes("BenchmarkSink", p, BenchmarkSink(p), passed)
  BY DEF BenchmarkSink, SinkTakes, Ok
<1>5. SinkTakes("CinemaDngFrameserver", p, Frameserver(gpu, p, counted), passed)
  <2> DEFINE r == ensure_cpu_buffer(gpu, p, {"Raw"})
             name == "CinemaDngFrameserver"
  <2>1. Frameserver(gpu, p, counted) \in {Panic, r}
    BY DEF Frameserver
  <2>2. name \in Asserting /\ name # "CinemaDngWriter"
    BY DEF Asserting
  <2> HIDE DEF name
  <2>3. SinkTakes(name, p, Panic, passed) /\ SinkTakes(name, p, r, passed)
    BY <2>2, AssertingSink, CpuSink
  <2>4. QED
    BY <2>1, <2>3 DEF name
<1>6. SinkTakes("Display", p, Display(gpu, p), passed)
  <2> DEFINE r == ensure_gpu_buffer(p, {"Rgb"})
             name == "Display"
  <2>1. Display(gpu, p) = Panic \/ (gpu = TRUE /\ Display(gpu, p) = r)
    BY DEF Display
  <2>2. name \in Asserting /\ name # "CinemaDngWriter"
    BY DEF Asserting
  <2> HIDE DEF name
  <2>3. SinkTakes(name, p, Panic, passed) /\ (gpu = TRUE => SinkTakes(name, p, r, passed))
    BY <2>2, AssertingSink, GpuSink
  <2>4. QED
    BY <2>1, <2>3 DEF name
<1>7. SinkTakes("Plot", p, Plot(gpu, p), passed)
  <2> DEFINE r == ensure_gpu_buffer(p, {"Raw"})
             name == "Plot"
  <2>1. Plot(gpu, p) = Panic \/ (gpu = TRUE /\ Plot(gpu, p) = r)
    BY DEF Plot
  <2>2. name \in Asserting /\ name # "CinemaDngWriter"
    BY DEF Asserting
  <2> HIDE DEF name
  <2>3. SinkTakes(name, p, Panic, passed) /\ (gpu = TRUE => SinkTakes(name, p, r, passed))
    BY <2>2, AssertingSink, GpuSink
  <2>4. QED
    BY <2>1, <2>3 DEF name
<1>8. QED
  BY <1>1, <1>2, <1>3, <1>4, <1>5, <1>6, <1>7

-----------------------------------------------------------------------------
(* The steps.                                                              *)
LEMMA Trail ==
  ASSUME trail \in Seq(Passed), NEW name, trail' = Append(trail, name)
  PROVE  /\ trail' \in Seq(Passed') /\ trail' # <<>>
         /\ Last' = name /\ Passed' = Passed \cup {name}
         /\ trail = <<>> => Passed' = {name}
         /\ trail # <<>> => Len(trail') > 1 /\ trail'[Len(trail') - 1] = Last
<1> DEFINE n == Len(trail)
           S == Passed \cup {name}
<1>0. trail \in Seq(S) /\ name \in S
  <2>1. Passed \subseteq S
    OBVIOUS
  <2>2. name \in S
    OBVIOUS
  <2> HIDE DEF S
  <2>3. trail \in Seq(S)
    BY <2>1, SeqMonotonic
  <2>4. QED
    BY <2>2, <2>3
<1> HIDE DEF S
<1>1. n \in Nat /\ Len(trail') = n + 1
  BY <1>0, AppendProperties
<1>2. trail'[n + 1] = name /\ \A k \in 1..n : trail'[k] = trail[k]
  BY <1>0, AppendProperties
<1>3. trail' \in Seq(S) /\ trail' # <<>>
  BY <1>0, AppendProperties
<1>4. Last' = name
  BY <1>1, <1>2 DEF Last
<1>5. Passed' = Passed \cup {name}
  <2>1. Passed' = {trail'[k] : k \in 1..(n + 1)}
    BY <1>1 DEF Passed
  <2>2. Passed = {trail[k] : k \in 1..n}
    BY DEF Passed
  <2> HIDE DEF n
  <2>3. ASSUME NEW x
        PROVE  x \in Passed' <=> x \in Passed \cup {name}
    <3>1. x \in Passed' <=> \E k \in 1..(n + 1) : x = trail'[k]
      BY <2>1
    <3>2. x \in Passed <=> \E k \in 1..n : x = trail[k]
      BY <2>2
    <3>3. 1..(n + 1) = 1..n \cup {n + 1}
      BY <1>1
    <3>4. (\E k \in 1..(n + 1) : x = trail'[k]) <=> (\E k \in 1..n : x = trail'[k]) \/ x = trail'[n + 1]
      BY <3>3
    <3>5. (\E k \in 1..n : x = trail'[k]) <=> \E k \in 1..n : x = trail[k]
      BY <1>2
    <3>6. QED
      BY <1>2, <3>1, <3>2, <3>4, <3>5
  <2>4. QED
    BY <2>3
<1>6. trail = <<>> => Passed' = {name}
  <2>1. trail = <<>> => Passed = {}
    BY DEF Passed
  <2>2. QED
    BY <1>5, <2>1
<1>7. ASSUME trail # <<>>
      PROVE  Len(trail') > 1 /\ trail'[Len(trail') - 1] = Last
  <2>1. n > 0
    BY <1>7
  <2>2. Len(trail') - 1 = n /\ n \in 1..n
    BY <1>1, <2>1
  <2>3. QED
    BY <1>1, <1>2, <2>1, <2>2 DEF Last
<1>8. trail' \in Seq(Passed')
  BY <1>3, <1>5 DEF S
<1>9. QED
  BY <1>3, <1>4, <1>5, <1>6, <1>7, <1>8

(* What is said of a payload depends on the device, the reader's           *)
(* interpretation and the DNG file alone.                                  *)
LEMMA Unmoved ==
  ASSUME UNCHANGED <<gpu, interp, dng>>, NEW passed
  PROVE  /\ MustFit(passed)' <=> MustFit(passed)
         /\ MustBeWhole(passed)' <=> MustBeWhole(passed)
         /\ EvenSides' <=> EvenSides
<1>1. interp' = interp /\ dng' = dng
  OBVIOUS
<1>2. (SourceFits' <=> SourceFits) /\ (EvenSides' <=> EvenSides)
  BY <1>1 DEF SourceFits, EvenSides
<1>3. QED
  BY <1>1, <1>2 DEF MustFit, MustBeWhole

LEMMA FitsNow ==
  ASSUME UNCHANGED <<gpu, interp, dng>>, NEW s, Passed' = s, PayloadFits(payload', s)
  PROVE  PayloadFits(payload, Passed)'
<1>1. gpu' = gpu
  OBVIOUS
<1>2. (MustFit(Passed)' <=> MustFit(s)) /\ (MustBeWhole(Passed)' <=> MustBeWhole(s))
      /\ (EvenSides' <=> EvenSides)
  BY Unmoved DEF MustFit, MustBeWhole, EvenSides, SourceFits
<1>3. QED
  BY <1>1, <1>2 DEF PayloadFits, FrameFits, WellFormed

(* A step that leaves no payload behind.                                   *)
LEMMA NothingFlows ==
  ASSUME PipelineInv, given = None, payload' = None, UNCHANGED <<gpu, frontend, given, interp, dng>>,
         trail' \in Seq(Passed'), outcome' # "written", PanicsAreAsserted'
  PROVE  PipelineInv'
<1>1. Started /\ WrittenFits
  BY DEF PipelineInv
<1>2. None' = None
  BY DEF None
<1>3. Started'
  BY <1>1, <1>2 DEF Started
<1>4. FlowingFits'
  BY <1>2 DEF FlowingFits
<1>5. WrittenFits'
  BY <1>1, <1>2 DEF WrittenFits
<1>6. QED
  BY <1>3, <1>4, <1>5 DEF PipelineInv

(* Deliver's two alternatives.                                             *)
Delivers(name, r) ==
    /\ trail' = Append(trail, name)
    /\ payload' = IF r.tag = "ok" THEN r.value ELSE None
    /\ outcome' = IF r.tag = "ok" THEN "flowing" ELSE r.tag
    /\ UNCHANGED <<gpu, frontend, given, interp, dng>>
Loses(name, r) ==
    /\ trail' = Append(trail, name)
    /\ Vanishes(r) /\ payload' = None /\ outcome' = "no_buffer"
    /\ UNCHANGED <<gpu, frontend, given, interp, dng>>

LEMMA DeliversOrLoses ==
  ASSUME NEW name, NEW r, Deliver(name, r)
  PROVE  Delivers(name, r) \/ Loses(name, r)
BY DEF Deliver, Delivers, Loses

LEMMA LosesKeeps ==
  ASSUME PipelineInv, given = None, NEW name, NEW r, Loses(name, r)
  PROVE  PipelineInv'
<1>1. trail' \in Seq(Passed')
  BY Trail DEF PipelineInv, Started, Loses
<1>2. outcome' = "no_buffer" /\ gpu /\ gpu' = gpu
  BY DEF Loses, Vanishes
<1>3. PanicsAreAsserted'
  BY <1>2 DEF PanicsAreAsserted
<1>4. QED
  BY <1>1, <1>2, <1>3, NothingFlows DEF Loses

LEMMA DeliversKeeps ==
  ASSUME PipelineInv, NEW name, NEW r, Delivers(name, r),
         payload # None, trail # <<>>, outcome = "flowing",
         NodeKeeps(name, payload, r, Passed)
  PROVE  PipelineInv'
<1>1. /\ trail' = Append(trail, name)
      /\ payload' = IF r.tag = "ok" THEN r.value ELSE None
      /\ outcome' = IF r.tag = "ok" THEN "flowing" ELSE r.tag
      /\ UNCHANGED <<gpu, frontend, given, interp, dng>>
  BY DEF Delivers
<1>2. Started /\ FlowingFits /\ WrittenFits
  BY DEF PipelineInv
<1>3. /\ trail' \in Seq(Passed') /\ trail' # <<>> /\ Last' = name /\ Passed' = Passed \cup {name}
      /\ Len(trail') > 1 /\ trail'[Len(trail') - 1] = Last
  BY <1>1, <1>2, Trail DEF Started
<1>4. Started'
  BY <1>1, <1>2, <1>3 DEF Started, None
<1>5. FlowingFits'
  <2>1. ASSUME payload' # None
        PROVE  /\ r.tag = "ok" /\ payload' = r.value
               /\ PayloadFits(payload, Passed)'
               /\ \A f \in FramesOf(payload') : f.place = "gpu-local" => name = "ColorVoodoo"
    <3>1. r.tag = "ok" /\ payload' = r.value
      BY <1>1, <2>1
    <3>2. PayloadFits(payload', Passed \cup {name})
          /\ \A f \in Elements(payload') : f.place = "gpu-local" => name = "ColorVoodoo"
      BY <3>1 DEF NodeKeeps
    <3>3. PayloadFits(payload, Passed)'
      BY <1>1, <1>3, <3>2, FitsNow
    <3>4. FramesOf(payload') = Elements(payload')
      BY <2>1 DEF FramesOf
    <3>5. QED
      BY <3>1, <3>2, <3>3, <3>4
  <2>2. FramesOf(payload)' = FramesOf(payload')
    BY DEF FramesOf, Elements, None
  <2>3. None' = None
    BY DEF None
  <2>4. QED
    BY <1>3, <2>1, <2>2, <2>3 DEF FlowingFits
<1>6. WrittenFits'
  <2>1. outcome' # "written"
    BY <1>1 DEF NodeKeeps
  <2>2. QED
    BY <1>1, <1>2, <2>1 DEF WrittenFits, None
<1>7. PanicsAreAsserted'
  <2>0. outcome' # "no_buffer"
    BY <1>1 DEF NodeKeeps
  <2>1. ASSUME outcome' = "panic", name \notin Asserting
        PROVE  Last = "ColorVoodoo"
    <3>1. payload.type = "frame" /\ payload.place = "gpu-local"
      BY <1>1, <2>1 DEF NodeKeeps
    <3>2. FramesOf(payload) = {payload}
      BY <3>1 DEF FramesOf, Elements
    <3>3. QED
      BY <1>2, <3>1, <3>2 DEF FlowingFits
  <2>2. QED
    BY <1>3, <2>0, <2>1 DEF PanicsAreAsserted, Asserting
<1>8. QED
  BY <1>4, <1>5, <1>6, <1>7 DEF PipelineInv

LEMMA DeliverKeeps ==
  ASSUME PipelineInv, NEW name, NEW r, Deliver(name, r),
         payload # None, trail # <<>>, outcome = "flowing",
         NodeKeeps(name, payload, r, Passed)
  PROVE  PipelineInv'
<1>1. given = None
  BY DEF PipelineInv, Started
<1>2. QED
  BY <1>1, DeliversOrLoses, DeliversKeeps, LosesKeeps

LEMMA ReaderDeliversKeeps ==
  ASSUME PipelineInv, NEW name, NEW r, Delivers(name, r),
         trail = <<>>, outcome = "flowing", given = None, ReaderDelivers(name, r)
  PROVE  PipelineInv'
<1>1. /\ trail' = Append(trail, name)
      /\ payload' = IF r.tag = "ok" THEN r.value ELSE None
      /\ outcome' = IF r.tag = "ok" THEN "flowing" ELSE r.tag
      /\ UNCHANGED <<gpu, frontend, given, interp, dng>>
  BY DEF Delivers
<1>2. Started /\ FlowingFits /\ WrittenFits
  BY DEF PipelineInv
<1>3. /\ trail' \in Seq(Passed') /\ trail' # <<>> /\ Last' = name /\ Passed' = {name}
  BY <1>1, <1>2, Trail DEF Started
<1>4. Started'
  BY <1>1, <1>2, <1>3 DEF Started, None
<1>5. FlowingFits'
  <2>1. ASSUME payload' # None
        PROVE  /\ PayloadFits(payload, Passed)'
               /\ \A f \in FramesOf(payload') : f.place # "gpu-local"
    <3>1. r.tag = "ok" /\ payload' = r.value
      BY <1>1, <2>1
    <3>2. PayloadFits(payload', {name}) /\ \A f \in Elements(payload') : f.place # "gpu-local"
      BY <3>1 DEF ReaderDelivers
    <3>3. PayloadFits(payload, Passed)'
      BY <1>1, <1>3, <3>2, FitsNow
    <3>4. FramesOf(payload') = Elements(payload')
      BY <2>1 DEF FramesOf
    <3>5. QED
      BY <3>2, <3>3, <3>4
  <2>2. FramesOf(payload)' = FramesOf(payload')
    BY DEF FramesOf, Elements, None
  <2>3. None' = None
    BY DEF None
  <2>4. QED
    BY <1>3, <2>1, <2>2, <2>3 DEF FlowingFits
<1>6. WrittenFits'
  <2>1. outcome' # "written"
    BY <1>1 DEF ReaderDelivers
  <2>2. QED
    BY <1>1, <1>2, <2>1 DEF WrittenFits, None
<1>7. PanicsAreAsserted'
  <2>1. outcome' # "no_buffer" /\ (outcome' = "panic" => name \in Asserting)
    BY <1>1 DEF ReaderDelivers
  <2>2. QED
    BY <1>3, <2>1 DEF PanicsAreAsserted, Asserting
<1>8. QED
  BY <1>4, <1>5, <1>6, <1>7 DEF PipelineInv

LEMMA ReaderKeeps ==
  ASSUME PipelineInv, NEW name, NEW r, Deliver(name, r),
         trail = <<>>, outcome = "flowing", given = None, ReaderDelivers(name, r)
  PROVE  PipelineInv'
BY DeliversOrLoses, ReaderDeliversKeeps, LosesKeeps

LEMMA SinkKeeps ==
  ASSUME PipelineInv, NEW name, NEW r, Sink(name, r),
         SinkTakes(name, payload, r, Passed)
  PROVE  PipelineInv'
<1>1. /\ payload # None /\ outcome = "flowing"
      /\ trail' = Append(trail, name)
      /\ payload' = IF r.tag = "ok" THEN r.value ELSE payload
      /\ outcome' = IF r.tag = "ok" THEN "written" ELSE r.tag
      /\ UNCHANGED <<gpu, frontend, given, interp, dng>>
  BY DEF Sink
<1>2. Started /\ FlowingFits /\ WrittenFits
  BY DEF PipelineInv
<1>3. /\ trail' \in Seq(Passed') /\ trail' # <<>> /\ Last' = name /\ Passed' = Passed \cup {name}
      /\ Len(trail') > 1 /\ trail'[Len(trail') - 1] = Last
  BY <1>1, <1>2, Trail DEF Started, FlowingFits
<1>4. Started'
  BY <1>1, <1>2, <1>3 DEF Started, None
<1>5. FlowingFits'
  <2>1. PayloadFits(payload', Passed)
    BY <1>1, <1>2 DEF SinkTakes, FlowingFits
  <2>2. PayloadFits(payload', Passed \cup {name})
    BY <2>1, StillFits DEF PayloadFits
  <2>3. PayloadFits(payload, Passed)'
    BY <1>1, <1>3, <2>2, FitsNow
  <2>4. outcome' # "flowing"
    BY <1>1 DEF SinkTakes
  <2>5. QED
    BY <1>3, <2>3, <2>4 DEF FlowingFits
<1>6. WrittenFits'
  <2>1. ASSUME outcome' = "written", name = "CinemaDngWriter"
        PROVE  is_frame_of(payload', {"Raw"}) /\ WellFormed(payload')
    BY <1>1, <2>1 DEF SinkTakes
  <2>2. ASSUME outcome' = "written", Last' = "CinemaDngWriter"
        PROVE  (is_frame_of(payload, {"Raw"}) /\ WellFormed(payload))'
    BY <1>1, <1>3, <2>1, <2>2 DEF WellFormed
  <2>3. (dng # None =>
           /\ interp \in Interps /\ interp.kind = "Raw"
           /\ dng.width = interp.width /\ dng.height = interp.height
           /\ dng.bits = interp.bit_depth)'
    BY <1>1, <1>2 DEF WrittenFits, None
  <2>4. QED
    BY <2>2, <2>3 DEF WrittenFits
<1>7. PanicsAreAsserted'
  <2>0. outcome' # "no_buffer"
    BY <1>1 DEF SinkTakes
  <2>1. ASSUME outcome' = "panic", name \notin Asserting
        PROVE  Last = "ColorVoodoo"
    <3>1. payload.type = "frame" /\ payload.place = "gpu-local"
      BY <1>1, <2>1 DEF SinkTakes
    <3>2. FramesOf(payload) = {payload}
      BY <1>1, <3>1 DEF FramesOf, Elements
    <3>3. QED
      BY <1>1, <1>2, <3>1, <3>2 DEF FlowingFits
  <2>2. QED
    BY <1>3, <2>0, <2>1 DEF PanicsAreAsserted, Asserting
<1>8. QED
  BY <1>4, <1>5, <1>6, <1>7 DEF PipelineInv

(* What a reader takes from the texts it is given.                         *)
LEMMA TextFields ==
  ASSUME NEW text \in Texts
  PROVE  /\ \A r \in {text.cli, text.yaml} :
               /\ r.int # Unread => r.int \in Int
               /\ r.bool # Unread => r.bool \in BOOLEAN
         /\ text # Absent
<1>1. text.cli \in Readings /\ text.yaml \in Readings
  BY DEF Texts
<1>2. ASSUME NEW r \in Readings
      PROVE  (r.int # Unread => r.int \in Int) /\ (r.bool # Unread => r.bool \in BOOLEAN)
  BY DEF Readings
<1>3. text # Absent
  BY WordAssumption
<1>4. QED
  BY <1>1, <1>2, <1>3

LEMMA FailedFields == Failed[1] = "failed"
BY DEF Failed

LEMMA Parsed ==
  ASSUME NEW text \in Texts, NEW ty
  PROVE  LET v == parse(ty, text) IN
         /\ ty.of = "int" => v = Failed \/ (v = <<"int", text.cli.int>> /\ text.cli.int # Unread)
         /\ ty.of = "bool" => v = Failed \/ (v = <<"bool", text.cli.bool>> /\ text.cli.bool # Unread)
<1>1. CASE ty.of = "int"
  BY <1>1 DEF parse
<1>2. CASE ty.of = "bool"
  BY <1>2 DEF parse
<1>3. QED
  BY <1>1, <1>2

LEMMA Deserialized ==
  ASSUME NEW text \in Texts
  PROVE  LET v == deserialize(text) IN
         /\ v[1] \in {"int", "float", "bool", "node", "string"}
         /\ v[1] = "int" => v = <<"int", text.yaml.int>> /\ text.yaml.int # Unread
         /\ v[1] = "bool" => v = <<"bool", text.yaml.bool>> /\ text.yaml.bool # Unread
<1> DEFINE v == deserialize(text)
           i == text.yaml.int
           f == text.yaml.float
           b == text.yaml.bool
<1>1. \/ v = <<"int", i>> /\ i # Unread
      \/ v = <<"float", f>>
      \/ v = <<"bool", b>> /\ b # Unread
      \/ v = <<"node", TRUE>>
      \/ v = <<"string", text>>
  <2>1. CASE i # Unread
    BY <2>1 DEF deserialize
  <2>2. CASE i = Unread /\ f # Unread
    BY <2>2 DEF deserialize
  <2>3. CASE i = Unread /\ f = Unread /\ b # Unread
    BY <2>3 DEF deserialize
  <2>4. CASE i = Unread /\ f = Unread /\ b = Unread
    BY <2>4 DEF deserialize
  <2>5. QED
    BY <2>1, <2>2, <2>3, <2>4
<1> HIDE DEF v, i, f, b
<1>2. CASE v = <<"int", i>> /\ i # Unread
  <2>1. v[1] = "int"
    BY <1>2
  <2>2. QED
    BY <1>2, <2>1 DEF v, i
<1>3. CASE v = <<"float", f>>
  <2>1. v[1] = "float"
    BY <1>3
  <2>2. QED
    BY <2>1 DEF v
<1>4. CASE v = <<"bool", b>> /\ b # Unread
  <2>1. v[1] = "bool"
    BY <1>4
  <2>2. QED
    BY <1>4, <2>1 DEF v, b
<1>5. CASE v = <<"node", TRUE>>
  <2>1. v[1] = "node"
    BY <1>5
  <2>2. QED
    BY <2>1 DEF v
<1>6. CASE v = <<"string", text>>
  <2>1. v[1] = "string"
    BY <1>6
  <2>2. QED
    BY <2>1 DEF v
<1>7. QED
  BY <1>1, <1>2, <1>3, <1>4, <1>5, <1>6

LEMMA Took ==
  ASSUME NEW v
  PROVE  /\ take(v, "u64") = IF v[1] # "int" THEN Failed ELSE <<"int", v[2] % Word>>
         /\ take(v, "bool") = IF v[1] # "bool" THEN Failed ELSE v
<1>1. Kind["u64"] = "int" /\ Kind["bool"] = "bool"
  BY DEF Kind
<1>2. take(v, "u64") = IF v[1] # "int" THEN Failed ELSE <<"int", v[2] % Word>>
  BY <1>1 DEF take
<1>3. take(v, "bool") = IF v[1] # "bool" THEN Failed ELSE v
  BY <1>1 DEF take
<1>4. QED
  BY <1>2, <1>3

LEMMA GivenText ==
  ASSUME NEW text \in Texts, NEW name
  PROVE  /\ Given("file", name, text) = deserialize(text)
         /\ Given("cli", name, text) = parse(Declared[name].type, text)
<1>1. text # Absent
  BY TextFields
<1>2. deserialize(text) # Failed
  <2> DEFINE v == deserialize(text)
  <2>1. v[1] \in {"int", "float", "bool", "node", "string"}
    BY Deserialized
  <2> HIDE DEF v
  <2>2. v # Failed
    BY <2>1, FailedFields
  <2>3. QED
    BY <2>2 DEF v
<1>3. Given("file", name, text) = deserialize(text)
  BY <1>1, <1>2 DEF Given, FromFile, add_defaults
<1>4. Given("cli", name, text) = parse(Declared[name].type, text)
  BY <1>1 DEF Given, FromCommandline
<1>5. QED
  BY <1>3, <1>4

LEMMA GivenNothing ==
  ASSUME NEW from, NEW name
  PROVE  Given(from, name, Absent) = IF Declared[name].default # Absent THEN Declared[name].default ELSE Failed
<1>1. Given("cli", name, Absent) =
          IF Declared[name].default # Absent THEN Declared[name].default ELSE Failed
  BY DEF Given, FromCommandline
<1>2. FromFile(Declared[name], Absent) =
          IF Declared[name].default # Absent THEN Declared[name].default ELSE Failed
  BY DEF FromFile, add_defaults
<1>3. QED
  BY <1>1, <1>2 DEF Given

LEMMA Declarations ==
  /\ Declared["width"].type.of = "int" /\ TakenAs["width"] = "u64"
  /\ Declared["height"].type.of = "int" /\ TakenAs["height"] = "u64"
  /\ Declared["bit_depth"].type.of = "int" /\ TakenAs["bit_depth"] = "u64"
  /\ Declared["bit_depth"].default = <<"int", 12>>
  /\ Declared["rgb"].type.of = "bool" /\ TakenAs["rgb"] = "bool"
  /\ Declared["rgb"].default = <<"bool", FALSE>>
<1>1. /\ Declared["width"] = Mandatory(NaturalWithZero) /\ Declared["height"] = Mandatory(NaturalWithZero)
      /\ Declared["bit_depth"] = WithDefault(NaturalGreaterZero, <<"int", 12>>)
      /\ Declared["rgb"] = Optional(BoolParameter)
  BY DEF Declared
<1>2. /\ Declared["width"].type.of = "int" /\ Declared["height"].type.of = "int"
      /\ Declared["bit_depth"].type.of = "int" /\ Declared["bit_depth"].default = <<"int", 12>>
  BY <1>1 DEF Mandatory, WithDefault, NaturalWithZero, NaturalGreaterZero, IntRange
<1>3. Declared["rgb"].type.of = "bool" /\ Declared["rgb"].default = <<"bool", FALSE>>
  <2>1. BoolParameter.of = "bool"
    BY DEF BoolParameter
  <2>2. default_value(BoolParameter) = <<"bool", FALSE>>
    BY <2>1 DEF default_value
  <2> DEFINE ty == BoolParameter
  <2>3. Declared["rgb"] = [type |-> ty, default |-> <<"bool", FALSE>>] /\ ty.of = "bool"
    BY <1>1, <2>1, <2>2 DEF Optional, WithDefault
  <2> DEFINE switch == <<"bool", FALSE>>
  <2>4. Declared["rgb"] = [type |-> ty, default |-> switch]
    BY <2>3
  <2> HIDE DEF ty, switch
  <2>5. Declared["rgb"].type = ty /\ Declared["rgb"].default = switch
    BY <2>4
  <2>6. QED
    BY <2>3, <2>5 DEF switch
<1>4. /\ TakenAs["width"] = "u64" /\ TakenAs["height"] = "u64" /\ TakenAs["bit_depth"] = "u64"
      /\ TakenAs["rgb"] = "bool"
  BY DEF TakenAs
<1>5. QED
  BY <1>2, <1>3, <1>4

(* Sizes and depths arrive as natural numbers, of a negative one the file  *)
(* gave as well; the switch arrives as a switch.                           *)
LEMMA TakenSize ==
  ASSUME NEW from \in {"cli", "file"}, NEW name \in {"width", "height", "bit_depth"},
         NEW text \in Texts \cup {Absent}, name # "bit_depth" => text \in Texts,
         Taken(from, name, text) # Failed
  PROVE  Taken(from, name, text)[2] \in Nat
<1> DEFINE v == Given(from, name, text)
<1>1. TakenAs[name] = "u64" /\ Declared[name].type.of = "int"
      /\ (name = "bit_depth" => Declared[name].default = <<"int", 12>>)
  BY Declarations
<1>2. v[1] = "int" => v[2] \in Int
  <2>1. CASE text \in Texts /\ from = "file"
    <3>1. v = deserialize(text)
      BY <2>1, GivenText
    <3> HIDE DEF v
    <3>2. v[1] # "int" \/ (v = <<"int", text.yaml.int>> /\ text.yaml.int # Unread)
      BY <2>1, <3>1, Deserialized
    <3>3. QED
      BY <2>1, <3>2, TextFields
  <2>2. CASE text \in Texts /\ from = "cli"
    <3>1. v = parse(Declared[name].type, text)
      BY <1>1, <2>2, GivenText
    <3> HIDE DEF v
    <3>2. v = Failed \/ (v = <<"int", text.cli.int>> /\ text.cli.int # Unread)
      BY <1>1, <2>2, <3>1, Parsed
    <3>3. QED
      BY <2>2, <3>2, TextFields, FailedFields
  <2>3. CASE text = Absent /\ text \notin Texts
    <3>1. name = "bit_depth"
      BY <2>3
    <3>2. v \in {<<"int", 12>>, Failed}
      BY <1>1, <2>3, <3>1, GivenNothing
    <3> HIDE DEF v
    <3>3. QED
      BY <3>2, FailedFields
  <2>4. QED
    BY <2>1, <2>2, <2>3
<1>3. Taken(from, name, text) = IF v[1] # "int" THEN Failed ELSE <<"int", v[2] % Word>>
  BY <1>1, Took DEF Taken
<1> HIDE DEF v
<1>4. v[1] = "int" /\ Taken(from, name, text) = <<"int", v[2] % Word>>
  BY <1>3
<1>5. v[2] % Word \in Nat
  BY <1>2, <1>4, WordAssumption
<1>6. QED
  BY <1>4, <1>5

LEMMA TakenSwitch ==
  ASSUME NEW from \in {"cli", "file"}, NEW text \in Texts \cup {Absent},
         Taken(from, "rgb", text) # Failed
  PROVE  Taken(from, "rgb", text)[2] \in BOOLEAN
<1> DEFINE v == Given(from, "rgb", text)
<1>1. TakenAs["rgb"] = "bool" /\ Declared["rgb"].type.of = "bool"
      /\ Declared["rgb"].default = <<"bool", FALSE>>
  BY Declarations
<1>2. v[1] = "bool" => v[2] \in BOOLEAN
  <2>1. CASE text \in Texts /\ from = "file"
    <3>1. v = deserialize(text)
      BY <2>1, GivenText
    <3> HIDE DEF v
    <3>2. v[1] # "bool" \/ (v = <<"bool", text.yaml.bool>> /\ text.yaml.bool # Unread)
      BY <2>1, <3>1, Deserialized
    <3>3. QED
      BY <2>1, <3>2, TextFields
  <2>2. CASE text \in Texts /\ from = "cli"
    <3>1. v = parse(Declared["rgb"].type, text)
      BY <1>1, <2>2, GivenText
    <3> HIDE DEF v
    <3>2. v = Failed \/ (v = <<"bool", text.cli.bool>> /\ text.cli.bool # Unread)
      BY <1>1, <2>2, <3>1, Parsed
    <3>3. QED
      BY <2>2, <3>2, TextFields, FailedFields
  <2>3. CASE text = Absent /\ text \notin Texts
    <3>1. v = <<"bool", FALSE>> \/ v = Failed
      BY <1>1, <2>3, GivenNothing
    <3> HIDE DEF v
    <3>2. CASE v = Failed
      BY <3>2, FailedFields
    <3>3. CASE v = <<"bool", FALSE>>
      BY <3>3
    <3>4. QED
      BY <3>1, <3>2, <3>3
  <2>4. QED
    BY <2>1, <2>2, <2>3
<1>3. Taken(from, "rgb", text) = IF v[1] # "bool" THEN Failed ELSE v
  BY <1>1, Took DEF Taken
<1> HIDE DEF v
<1>4. QED
  BY <1>2, <1>3

LEMMA ConfigureKeeps ==
  ASSUME PipelineInv, Configure
  PROVE  PipelineInv'
<1> DEFINE got(name) == Taken(frontend, name, given[name])
<1>1. Started /\ FlowingFits /\ WrittenFits
  BY DEF PipelineInv
<1>2. /\ given # None /\ given' = None
      /\ UNCHANGED <<gpu, trail, payload, count, needs, dng>>
  BY DEF Configure
<1>3. /\ frontend \in {"cli", "file"} /\ gpu \in BOOLEAN
      /\ given \in GivenTexts
      /\ interp = None /\ trail = <<>> /\ payload = None /\ dng = None /\ outcome = "flowing"
  BY <1>1, <1>2 DEF Started
<1>4. /\ DOMAIN given = {"width", "height", "bit_depth", "rgb", "fps"}
      /\ given["width"] \in Texts /\ given["height"] \in Texts
      /\ given["bit_depth"] \in Texts \cup {Absent} /\ given["rgb"] \in Texts \cup {Absent}
  BY <1>3, PipelineAssumption DEF GivenTexts
<1>5. /\ outcome' \in {"error", "flowing"}
      /\ interp' = interp \/ (interp' \in Interps /\ interp'.kind # "SZ3")
  <2>1. CASE \E name \in DOMAIN given : got(name) = Failed
    BY <1>3, <2>1 DEF Configure
  <2>2. CASE ~\E name \in DOMAIN given : got(name) = Failed
    <3>1. PICK c \in Patterns :
            interp' = get_interpretation(got("width")[2], got("height")[2],
                                         got("bit_depth")[2], c, got("rgb")[2])
      BY <2>2 DEF Configure
    <3>2. got("width")[2] \in Nat /\ got("height")[2] \in Nat /\ got("bit_depth")[2] \in Nat
      BY <1>3, <1>4, <2>2, TakenSize
    <3>3. got("rgb")[2] \in BOOLEAN
      BY <1>3, <1>4, <2>2, TakenSwitch
    <3> DEFINE w == got("width")[2]
               h == got("height")[2]
               d == got("bit_depth")[2]
               rgb == got("rgb")[2]
    <3>4. interp' \in {Rgb(w, h), Raw(w, h, d, c)}
      BY <3>1, <3>3 DEF get_interpretation
    <3>5. c \in Cfas
      BY PipelineAssumption
    <3>6. outcome' = outcome
      BY <2>2 DEF Configure
    <3>7. w \in Nat /\ h \in Nat /\ d \in Nat
      BY <3>2
    <3> HIDE DEF w, h, d, rgb
    <3>8. Rgb(w, h) \in Interps /\ Raw(w, h, d, c) \in Interps
      BY <3>5, <3>7, MadeInterps
    <3>9. Rgb(w, h).kind = "Rgb" /\ Raw(w, h, d, c).kind = "Raw"
      BY DEF Rgb, Raw
    <3>10. interp' \in Interps /\ interp'.kind # "SZ3"
      BY <3>4, <3>8, <3>9
    <3>11. QED
      BY <1>3, <3>6, <3>10
  <2>3. QED
    BY <2>1, <2>2
<1>6. None' = None
  BY DEF None
<1>7. Started'
  <2>1. (gpu \in BOOLEAN /\ trail \in Seq(Passed))'
    BY <1>1, <1>2 DEF Started
  <2>2. (given # None)' <=> FALSE
    BY <1>2, <1>6
  <2>3. (interp # None => interp \in Interps /\ interp.kind # "SZ3")'
    BY <1>3, <1>5, <1>6 DEF Interps
  <2>4. QED
    BY <2>1, <2>2, <2>3 DEF Started
<1>8. FlowingFits'
  BY <1>2, <1>3, <1>6 DEF FlowingFits
<1>9. WrittenFits'
  BY <1>2, <1>3, <1>5, <1>6 DEF WrittenFits
<1>10. PanicsAreAsserted'
  BY <1>5 DEF PanicsAreAsserted
<1>11. QED
  BY <1>7, <1>8, <1>9, <1>10 DEF PipelineInv

LEMMA ReadKeeps ==
  ASSUME PipelineInv, Read \/ ReadDng
  PROVE  PipelineInv'
<1>1. Started /\ FlowingFits /\ WrittenFits
  BY DEF PipelineInv
<1>2. gpu \in BOOLEAN /\ trail = <<>> /\ outcome = "flowing" /\ given = None
  BY <1>1 DEF Started, Read, ReadDng
<1>3. ASSUME NEW name, NEW r, Deliver(name, r), ReaderDelivers(name, r)
      PROVE  PipelineInv'
  BY <1>2, <1>3, ReaderKeeps
<1>4. CASE Read
  <2>1. interp \in Interps
    BY <1>1, <1>4 DEF Read, Started
  <2>2. CASE ReadBlob
    <3>1. PICK file_len \in {0, Stored * required_bytes(interp)} :
            Deliver("RawBlobReader", RawBlobReader(gpu, interp, file_len, 0))
      BY <2>2 DEF ReadBlob
    <3>2. ReaderDelivers("RawBlobReader", RawBlobReader(gpu, interp, file_len, 0))
      BY <1>2, <2>1, ReadersDeliver
    <3> DEFINE name == "RawBlobReader"
               r == RawBlobReader(gpu, interp, file_len, 0)
    <3>3. Deliver(name, r) /\ ReaderDelivers(name, r)
      BY <3>1, <3>2
    <3> HIDE DEF name, r
    <3>4. QED
      BY <1>3, <3>3
  <2>3. CASE ReadDirectory
    <3>1. PICK internal_loop \in BOOLEAN, n \in 0..Stored,
               len \in {required_bytes(interp) - 1, required_bytes(interp)} \cap Nat :
            Deliver("RawDirectoryReader",
                    RawDirectoryReader(gpu, interp, [k \in 1..Stored |-> len], internal_loop, n))
      BY <2>3 DEF ReadDirectory
    <3> DEFINE name == "RawDirectoryReader"
               lens == [k \in 1..Stored |-> len]
               r == RawDirectoryReader(gpu, interp, lens, internal_loop, n)
    <3>2. ReaderDelivers(name, r)
      <4> HIDE DEF lens
      <4>1. QED
        BY <1>2, <2>1, ReadersDeliver
    <3>3. Deliver(name, r)
      BY <3>1
    <3> HIDE DEF name, r
    <3>4. QED
      BY <1>3, <3>2, <3>3
  <2>4. CASE ReadStream
    <3>1. PICK name \in {"TcpReader", "ZstdBlobReader"}, ends \in BOOLEAN :
            Deliver(name, StreamReader(gpu, interp, ends))
      BY <2>4 DEF ReadStream
    <3>2. ReaderDelivers(name, StreamReader(gpu, interp, ends))
      BY <1>2, <2>1, ReadersDeliver
    <3>3. QED
      BY <1>3, <3>1, <3>2
  <2>5. CASE ReadWebcam
    <3>1. PICK b \in 1..4, bytesused \in 0..1 : Deliver(WebcamName(b), WebcamFrame(b, bytesused))
      BY <2>5 DEF ReadWebcam, WebcamName, WebcamFrame
    <3> DEFINE name == WebcamName(b)
               r == WebcamFrame(b, bytesused)
    <3>2. ReaderDelivers(name, r)
      BY <1>2, <2>1, ReadersDeliver
    <3>3. Deliver(name, r)
      BY <3>1
    <3> HIDE DEF name, r
    <3>4. QED
      BY <1>3, <3>2, <3>3
  <2>6. QED
    BY <1>4, <2>2, <2>3, <2>4, <2>5 DEF Read
<1>5. CASE ReadDng
  <2> DEFINE name == "CinemaDngReader"
             r == CinemaDngReader(gpu, dng)
  <2>1. dng # None /\ Deliver(name, r)
    BY <1>5 DEF ReadDng
  <2>2. ReaderDelivers(name, r)
    BY <1>1, <1>2, <2>1, DngReaderDelivers
  <2> HIDE DEF name, r
  <2>3. QED
    BY <1>3, <2>1, <2>2
<1>6. QED
  BY <1>4, <1>5

LEMMA SinkStepKeeps ==
  ASSUME PipelineInv, SinkStep
  PROVE  PipelineInv'
<1>1. ASSUME NEW name, NEW r, Sink(name, r), SinkTakes(name, payload, r, Passed)
      PROVE  PipelineInv'
  BY <1>1, SinkKeeps
<1>2. payload # None
  BY DEF SinkStep, Sink
<1>3. gpu \in BOOLEAN /\ PayloadFits(payload, Passed)
  BY <1>2 DEF PipelineInv, Started, FlowingFits
<1> DEFINE counted == count # Endless
<1>4. counted \in BOOLEAN
  OBVIOUS
<1>5. SinkStep =>
        \/ Sink("RawWriter", RawWriter(gpu, payload))
        \/ Sink("CinemaDngWriter", CinemaDngWriter(gpu, payload))
        \/ Sink("FfmpegWriter", FfmpegWriter(gpu, payload))
        \/ Sink("BenchmarkSink", BenchmarkSink(payload))
        \/ Sink("CinemaDngFrameserver", Frameserver(gpu, payload, counted))
        \/ Sink("Display", Display(gpu, payload))
        \/ Sink("Plot", Plot(gpu, payload))
  BY DEF SinkStep
<1> HIDE DEF counted
<1>6. CASE Sink("RawWriter", RawWriter(gpu, payload))
  BY <1>1, <1>3, <1>4, <1>6, SinksTake
<1>7. CASE Sink("CinemaDngWriter", CinemaDngWriter(gpu, payload))
  BY <1>1, <1>3, <1>4, <1>7, SinksTake
<1>8. CASE Sink("FfmpegWriter", FfmpegWriter(gpu, payload))
  BY <1>1, <1>3, <1>4, <1>8, SinksTake
<1>9. CASE Sink("BenchmarkSink", BenchmarkSink(payload))
  BY <1>1, <1>3, <1>4, <1>9, SinksTake
<1>10. CASE Sink("CinemaDngFrameserver", Frameserver(gpu, payload, counted))
  BY <1>1, <1>3, <1>4, <1>10, SinksTake
<1>11. CASE Sink("Display", Display(gpu, payload))
  BY <1>1, <1>3, <1>4, <1>11, SinksTake
<1>12. CASE Sink("Plot", Plot(gpu, payload))
  BY <1>1, <1>3, <1>4, <1>12, SinksTake
<1>13. QED
  BY <1>5, <1>6, <1>7, <1>8, <1>9, <1>10, <1>11, <1>12

LEMMA ReopenKeeps ==
  ASSUME PipelineInv, Reopen
  PROVE  PipelineInv'
<1>1. Started /\ FlowingFits /\ WrittenFits
  BY DEF PipelineInv
<1>2. /\ outcome = "written" /\ Last = "CinemaDngWriter"
      /\ dng' = dng_of(payload) /\ interp' = payload.interp
      /\ trail' = <<>> /\ payload' = None /\ outcome' = "flowing"
      /\ UNCHANGED <<gpu, frontend, given, count, needs>>
  BY DEF Reopen, Last
<1>3. payload.interp \in Interps /\ payload.interp.kind = "Raw"
  BY <1>1, <1>2 DEF WrittenFits, is_frame_of, WellFormed
<1>4. None' = None
  BY DEF None
<1>5. given = None
  BY <1>1, <1>2 DEF Started
<1>6. Started'
  BY <1>1, <1>2, <1>3, <1>4, <1>5 DEF Started
<1>7. FlowingFits'
  BY <1>2, <1>4 DEF FlowingFits
<1>8. WrittenFits'
  <2> DEFINE i == payload.interp
  <2>1. dng'.width = i.width /\ dng'.height = i.height /\ dng'.bits = i.bit_depth
    BY <1>2 DEF dng_of
  <2>2. QED
    BY <1>2, <1>3, <2>1 DEF WrittenFits
<1>9. PanicsAreAsserted'
  BY <1>2 DEF PanicsAreAsserted
<1>10. QED
  BY <1>6, <1>7, <1>8, <1>9 DEF PipelineInv

LEMMA CpuStepKeeps ==
  ASSUME PipelineInv, CpuStep
  PROVE  PipelineInv'
<1>1. payload # None /\ outcome = "flowing" /\ trail # <<>>
  BY DEF CpuStep, Flows
<1>2. gpu \in BOOLEAN /\ PayloadFits(payload, Passed)
  BY <1>1 DEF PipelineInv, Started, FlowingFits
<1>3. ASSUME NEW name, NEW r, Deliver(name, r), NodeKeeps(name, payload, r, Passed)
      PROVE  PipelineInv'
  BY <1>1, <1>3, DeliverKeeps
<1>4. CASE ConvertBitDepth
  <2>1. PICK to \in {8, 16} :
          Deliver(IF to = 8 THEN "BitDepthConverter" ELSE "BitDepthConverter16",
                  BitDepthConverter(gpu, payload, to))
    BY <1>4 DEF ConvertBitDepth
  <2> DEFINE name == IF to = 8 THEN "BitDepthConverter" ELSE "BitDepthConverter16"
  <2>2. name \in {"BitDepthConverter", "BitDepthConverter16"} /\ Deliver(name, BitDepthConverter(gpu, payload, to))
    BY <2>1
  <2> HIDE DEF name
  <2>3. NodeKeeps(name, payload, BitDepthConverter(gpu, payload, to), Passed)
    BY <1>2, <2>2, KeepsBitDepthConverter
  <2>4. QED
    BY <1>3, <2>2, <2>3
<1>5. CASE ConvertFloats
  <2>1. NodeKeeps("Fp32ToUInt16", payload, Fp32ToUInt16(gpu, payload), Passed)
    BY <1>2, KeepsFp32ToUInt16
  <2>2. QED
    BY <1>3, <1>5, <2>1 DEF ConvertFloats
<1>6. CASE Compress
  <2>1. PICK size \in {4, 8}, dims_from_frame \in BOOLEAN, on_nothing \in {"ok", "error", "panic"} :
          Deliver("SZ3Compress", SZ3Compress(gpu, payload, size, dims_from_frame, on_nothing))
    BY <1>6 DEF Compress
  <2>2. NodeKeeps("SZ3Compress", payload,
                  SZ3Compress(gpu, payload, size, dims_from_frame, on_nothing), Passed)
    BY <1>2, KeepsSZ3Compress
  <2>3. QED
    BY <1>3, <2>1, <2>2
<1>7. CASE TakeElement
  <2>1. PICK elem \in 0..2 : Deliver("Split", Split(payload, elem))
    BY <1>7 DEF TakeElement
  <2>2. NodeKeeps("Split", payload, Split(payload, elem), Passed)
    BY <1>2, KeepsSplit
  <2>3. QED
    BY <1>3, <2>1, <2>2
<1>8. CASE RemoveRowNoise
  <2>1. PICK m \in RowNoiseModels, strip \in BOOLEAN :
          Deliver("RowNoiseRemoval", RowNoiseRemoval(gpu, payload, m, strip))
    BY <1>8 DEF RemoveRowNoise
  <2>2. NodeKeeps("RowNoiseRemoval", payload, RowNoiseRemoval(gpu, payload, m, strip), Passed)
    BY <1>2, KeepsRowNoiseRemoval
  <2>3. QED
    BY <1>3, <2>1, <2>2
<1>9. CASE TakeAverage
  <2>1. PICK n \in 1..MaxAveraged, std \in BOOLEAN :
          Deliver(IF std THEN "AverageStd" ELSE "Average", Average(gpu, payload, NumThreads, std))
    BY <1>9 DEF TakeAverage
  <2> DEFINE name == IF std THEN "AverageStd" ELSE "Average"
  <2>2. NodeKeeps(name, payload, Average(gpu, payload, NumThreads, std), Passed)
    BY <1>2, KeepsAverage
  <2> HIDE DEF name
  <2>3. QED
    BY <1>3, <2>1, <2>2 DEF name
<1>10. CASE DecodeDualFrame
  <2>1. PICK c \in Patterns : Deliver("DualFrameRawDecoder", DualFrameRawDecoder(gpu, payload, c))
    BY <1>10 DEF DecodeDualFrame
  <2>2. c \in Cfas
    BY PipelineAssumption
  <2>3. NodeKeeps("DualFrameRawDecoder", payload, DualFrameRawDecoder(gpu, payload, c), Passed)
    BY <1>2, <2>2, KeepsDualFrameRawDecoder
  <2>4. QED
    BY <1>3, <2>1, <2>3
<1>11. CASE ReverseDualFrame
  <2>1. PICK offset \in 0..1 :
          Deliver("ReverseDualFrameRawDecoder", ReverseDualFrameRawDecoder(gpu, payload, offset))
    BY <1>11 DEF ReverseDualFrame
  <2>2. NodeKeeps("ReverseDualFrameRawDecoder", payload,
                  ReverseDualFrameRawDecoder(gpu, payload, offset), Passed)
    BY <1>2, KeepsReverseDualFrameRawDecoder
  <2>3. QED
    BY <1>3, <2>1, <2>2
<1>12. QED
  BY <1>4, <1>5, <1>6, <1>7, <1>8, <1>9, <1>10, <1>11 DEF CpuStep

LEMMA GpuStepKeeps ==
  ASSUME PipelineInv, GpuStep
  PROVE  PipelineInv'
<1>1. payload # None /\ outcome = "flowing" /\ trail # <<>> /\ gpu
  BY DEF GpuStep, Flows
<1>2. gpu = TRUE /\ PayloadFits(payload, Passed)
  BY <1>1 DEF PipelineInv, Started, FlowingFits
<1>3. ASSUME NEW name, NEW r, Deliver(name, r), NodeKeeps(name, payload, r, Passed)
      PROVE  PipelineInv'
  BY <1>1, <1>3, DeliverKeeps
<1>4. CASE Deliver("GpuBitDepthConverter", GpuBitDepthConverter(payload))
  BY <1>2, <1>3, <1>4, KeepsGpuBitDepthConverter
<1>5. CASE Deliver("Debayer", Debayer(payload))
  BY <1>2, <1>3, <1>5, KeepsDebayer
<1>6. CASE Deliver("DebayerResolutionLoss", DebayerResolutionLoss(payload))
  BY <1>2, <1>3, <1>6, KeepsDebayerResolutionLoss
<1>7. CASE Deliver("ColorVoodoo", ColorVoodoo(payload))
  BY <1>2, <1>3, <1>7, KeepsColorVoodoo
<1>8. CASE Deliver("Lut3d", Lut3d(payload))
  BY <1>2, <1>3, <1>8, KeepsLut3d
<1>9. CASE Deliver("DarkframeSubtract", DarkframeSubtract(payload))
  BY <1>2, <1>3, <1>9, KeepsDarkframeSubtract
<1>10. CASE Deliver("Histogram", Histogram(payload))
  BY <1>2, <1>3, <1>10, KeepsHistogram
<1>11. QED
  BY <1>4, <1>5, <1>6, <1>7, <1>8, <1>9, <1>10 DEF GpuStep

LEMMA RefuseCubeKeeps ==
  ASSUME PipelineInv, RefuseCube
  PROVE  PipelineInv'
<1>1. given = None
  BY DEF PipelineInv, Started, RefuseCube, Flows
<1>2. /\ trail' = <<>> /\ payload' = None /\ outcome' = "error"
      /\ UNCHANGED <<gpu, frontend, given, interp, dng>>
  BY DEF RefuseCube
<1>3. trail' \in Seq(Passed') /\ PanicsAreAsserted'
  BY <1>2 DEF PanicsAreAsserted
<1>4. QED
  BY <1>1, <1>2, <1>3, NothingFlows

LEMMA StarveKeeps ==
  ASSUME PipelineInv, Starve
  PROVE  PipelineInv'
<1>1. given = None
  BY DEF PipelineInv, Started, Starve
<1>2. PICK name \in UnwrapFirst : trail' = Append(trail, name)
  BY DEF Starve
<1>3. /\ payload' = None /\ outcome' = "panic"
      /\ UNCHANGED <<gpu, frontend, given, interp, dng>>
  BY DEF Starve
<1>4. trail' \in Seq(Passed') /\ Last' = name
  BY <1>2, Trail DEF PipelineInv, Started
<1>5. PanicsAreAsserted'
  BY <1>4 DEF PanicsAreAsserted, UnwrapFirst, Asserting
<1>6. QED
  BY <1>1, <1>3, <1>4, <1>5, NothingFlows

LEMMA PipelineStarts ==
  ASSUME PipelineInit
  PROVE  PipelineInv
<1>1. Started
  BY DEF PipelineInit, Started
<1>2. FlowingFits /\ WrittenFits /\ PanicsAreAsserted
  BY DEF PipelineInit, FlowingFits, WrittenFits, PanicsAreAsserted
<1>3. QED
  BY <1>1, <1>2 DEF PipelineInv

LEMMA PipelineRests ==
  ASSUME PipelineInv, UNCHANGED pipelineVars
  PROVE  PipelineInv'
<1>1. /\ UNCHANGED <<gpu, interp, dng>>
      /\ frontend' = frontend /\ given' = given /\ trail' = trail /\ payload' = payload
      /\ outcome' = outcome
  BY DEF pipelineVars
<1>2. None' = None /\ Passed' = Passed /\ Last' = Last
  BY <1>1 DEF None, Passed, Last
<1>3. Started'
  BY <1>1, <1>2 DEF PipelineInv, Started
<1>4. FlowingFits'
  <2>1. PayloadFits(payload, Passed) => PayloadFits(payload, Passed)'
    BY <1>1, <1>2, FitsNow
  <2>2. FramesOf(payload)' = FramesOf(payload)
    BY <1>1 DEF FramesOf, Elements, None
  <2>3. QED
    BY <1>1, <1>2, <2>1, <2>2 DEF PipelineInv, FlowingFits
<1>5. WrittenFits'
  <2>1. WellFormed(payload) => WellFormed(payload)'
    BY <1>1 DEF WellFormed
  <2>2. QED
    BY <1>1, <1>2, <2>1 DEF PipelineInv, WrittenFits
<1>6. PanicsAreAsserted'
  BY <1>1, <1>2 DEF PipelineInv, PanicsAreAsserted, Asserting
<1>7. QED
  BY <1>3, <1>4, <1>5, <1>6 DEF PipelineInv

-----------------------------------------------------------------------------
(* In every state of every pipeline the payload in hand fits the nodes it  *)
(* came through.                                                           *)
THEOREM PipelineInvariance == PipelineSpec => []PipelineInv
<1>1. PipelineInit => PipelineInv
  BY PipelineStarts
<1>2. PipelineInv /\ [PipelineNext]_pipelineVars => PipelineInv'
  <2> SUFFICES ASSUME PipelineInv, [PipelineNext]_pipelineVars
               PROVE  PipelineInv'
    OBVIOUS
  <2>1. CASE Configure
    BY <2>1, ConfigureKeeps
  <2>2. CASE Read \/ ReadDng
    BY <2>2, ReadKeeps
  <2>3. CASE CpuStep
    BY <2>3, CpuStepKeeps
  <2>4. CASE GpuStep
    BY <2>4, GpuStepKeeps
  <2>5. CASE SinkStep
    BY <2>5, SinkStepKeeps
  <2>6. CASE Reopen
    BY <2>6, ReopenKeeps
  <2>7. CASE UNCHANGED pipelineVars
    BY <2>7, PipelineRests
  <2>8. CASE RefuseCube
    BY <2>8, RefuseCubeKeeps
  <2>9. CASE Starve
    BY <2>9, StarveKeeps
  <2>10. QED
    BY <2>1, <2>2, <2>3, <2>4, <2>5, <2>6, <2>7, <2>8, <2>9 DEF PipelineNext
<1>3. QED
  BY <1>1, <1>2, PTL DEF PipelineSpec

(* What goes into a list goes in twice, so what is said of its first       *)
(* element is said of every frame of the payload.                          *)
LEMMA EveryFrame ==
  ASSUME NEW p, NEW passed, PayloadFits(p, passed), NEW f \in FramesOf(p)
  PROVE  FrameFits(f, passed)
<1>1. CASE p.type = "frame" /\ FrameFits(p, passed)
  <2>1. f = p
    BY <1>1 DEF FramesOf, Elements
  <2>2. QED
    BY <1>1, <2>1
<1>2. CASE p = List(<<p.elems[1], p.elems[1]>>) /\ FrameFits(p.elems[1], passed)
  <2> DEFINE e == p.elems[1]
  <2> HIDE DEF e
  <2>1. p.type = "list" /\ p.elems = <<e, e>>
    BY <1>2 DEF List, e
  <2>2. PICK k \in 1..2 : f = p.elems[k]
    BY <2>1 DEF FramesOf, Elements
  <2>3. f = e
    BY <2>1, <2>2
  <2>4. QED
    BY <1>2, <2>3 DEF e
<1>3. QED
  BY <1>1, <1>2 DEF PayloadFits

(* However nodes are connected, with any texts for the parameters, a frame *)
(* takes no thread with it but at the nodes that assert or unwrap what     *)
(* they need, at the node after ColorVoodoo, and where a device has no     *)
(* buffer for a frame without a byte.  A sink that gets no frame takes its *)
(* thread with it only if it is one of those that unwrap.                  *)
THEOREM PanicsAreKnown == PipelineSpec => []PanicsAreAsserted
<1>1. PipelineInv => PanicsAreAsserted
  BY DEF PipelineInv
<1>2. QED
  BY <1>1, PipelineInvariance, PTL

(* Through chains of any length and for frames of any size, a buffer is as *)
(* long as its interpretation requires, but for Histogram's counters and   *)
(* for frames with an odd side ReverseDualFrameRawDecoder has taken apart. *)
THEOREM BuffersAreLongEnough == PipelineSpec => []LengthsFit
<1>1. PipelineInv => LengthsFit
  <2> SUFFICES ASSUME PipelineInv, payload # None, MustFit(Passed), NEW f \in FramesOf(payload)
               PROVE  f.len = required_bytes(f.interp)
    BY DEF LengthsFit
  <2>1. FrameFits(f, Passed)
    BY EveryFrame DEF PipelineInv, FlowingFits
  <2>2. QED
    BY <2>1 DEF FrameFits
<1>2. QED
  BY <1>1, PipelineInvariance, PTL

(* Through chains of any length no byte of an uninitialised buffer is      *)
(* handed on, under the conditions MustBeWhole names.                      *)
THEOREM BuffersAreWritten == PipelineSpec => []NothingUnwritten
<1>1. PipelineInv => NothingUnwritten
  <2> SUFFICES ASSUME PipelineInv, payload # None, MustBeWhole(Passed), NEW f \in FramesOf(payload)
               PROVE  f.whole
    BY DEF NothingUnwritten
  <2>1. FrameFits(f, Passed)
    BY EveryFrame DEF PipelineInv, FlowingFits
  <2>2. QED
    BY <2>1 DEF FrameFits
<1>2. QED
  BY <1>1, PipelineInvariance, PTL

-----------------------------------------------------------------------------
(* The frame counts.                                                       *)
Covered(c, N) ==
    /\ c \in Nat
    /\ \A f \in 0..(c - 1) :
          /\ N[f] # {} /\ N[f] \subseteq 0..(Stored - 1)
          /\ \A g \in 0..(f - 1) : NotBefore(N[f], N[g])

LEMMA CapsAreCovered == CapsInv <=> (count # Endless => Covered(count, needs))
BY DEF CapsInv, CapsCoverRequests, Covered

LEMMA NextIsCovered ==
  ASSUME count' = Endless \/ Covered(count', needs')
  PROVE  CapsInv'
BY DEF CapsInv, CapsCoverRequests, Covered, Endless, NotBefore

LEMMA NotBeforeItself ==
  ASSUME NEW A, A \subseteq Int
  PROVE  NotBefore(A, A)
<1>1. \A a \in A : a <= a
  OBVIOUS
<1>2. QED
  BY <1>1 DEF NotBefore

LEMMA CountedIsCovered == Covered(Stored, [f \in 0..(Stored - 1) |-> {f}])
<1> DEFINE N == [f \in 0..(Stored - 1) |-> {f}]
<1>1. Stored \in Nat
  BY PipelineAssumption
<1>2. ASSUME NEW f \in 0..(Stored - 1)
      PROVE  /\ N[f] # {} /\ N[f] \subseteq 0..(Stored - 1)
             /\ \A g \in 0..(f - 1) : NotBefore(N[f], N[g])
  <2>1. N[f] = {f}
    OBVIOUS
  <2>2. ASSUME NEW g \in 0..(f - 1)
        PROVE  NotBefore(N[f], N[g])
    <3>1. g \in 0..(Stored - 1) /\ g <= f
      BY <1>1
    <3>2. N[g] = {g}
      BY <3>1
    <3> HIDE DEF N
    <3>3. QED
      BY <2>1, <3>1, <3>2 DEF NotBefore
  <2>3. QED
    BY <2>1, <2>2
<1> HIDE DEF N
<1>3. Covered(Stored, N)
  BY <1>1, <1>2 DEF Covered
<1>4. QED
  BY <1>3 DEF N

(* The n frames of average f lie before those of any later one, and all of *)
(* them are there.                                                         *)
LEMMA Groups ==
  ASSUME NEW c \in Nat, NEW n \in Nat \ {0}, NEW f \in 0..((c \div n) - 1), NEW k \in 0..(n - 1)
  PROVE  /\ n * f + k \in 0..(c - 1)
         /\ \A g \in 0..(f - 1) : n * g + k \in 0..(n * f + k - 1)
<1> DEFINE q == c \div n
<1>1. q \in Nat /\ n * q <= c /\ n * q \in Nat
  <2>1. c % n = c - n * q /\ c % n \in Nat /\ q \in Nat
    OBVIOUS
  <2>2. n * q \in Nat
    BY <2>1
  <2> HIDE DEF q
  <2>3. QED
    BY <2>1, <2>2
<1> HIDE DEF q
<1>2. f \in Nat /\ q - f \in Int /\ q - f >= 1
  BY <1>1 DEF q
<1>3. n * (q - f) >= n
  BY <1>2, Multiples
<1>4. n * (q - f) = n * q - n * f /\ n * f \in Nat
  BY <1>1, <1>2
<1>5. n * f + k \in 0..(c - 1)
  BY <1>1, <1>3, <1>4
<1>6. ASSUME NEW g \in 0..(f - 1)
      PROVE  n * g + k \in 0..(n * f + k - 1)
  <2>1. g \in Nat /\ f - g \in Int /\ f - g >= 1
    BY <1>2
  <2>2. n * (f - g) >= n
    BY <2>1, Multiples
  <2>3. n * (f - g) = n * f - n * g /\ n * g \in Nat
    BY <1>2, <2>1
  <2>4. QED
    BY <1>4, <2>2, <2>3
<1>7. QED
  BY <1>5, <1>6

LEMMA AveragesAreCovered ==
  ASSUME NEW c, NEW N, Covered(c, N), NEW n \in Nat \ {0},
         NEW M, M = [f \in 0..((c \div n) - 1) |-> UNION {N[n * f + k] : k \in 0..(n - 1)}]
  PROVE  Covered(c \div n, M)
<1>1. c \in Nat /\ c \div n \in Nat
  BY DEF Covered
<1>2. ASSUME NEW f \in 0..((c \div n) - 1)
      PROVE  /\ M[f] # {} /\ M[f] \subseteq 0..(Stored - 1)
             /\ \A g \in 0..(f - 1) : NotBefore(M[f], M[g])
  <2>1. M[f] = UNION {N[n * f + k] : k \in 0..(n - 1)}
    OBVIOUS
  <2>2. \A k \in 0..(n - 1) : n * f + k \in 0..(c - 1)
    BY <1>1, Groups
  <2>3. \A k \in 0..(n - 1) : N[n * f + k] # {} /\ N[n * f + k] \subseteq 0..(Stored - 1)
    BY <2>2 DEF Covered
  <2>4. 0 \in 0..(n - 1)
    OBVIOUS
  <2>5. M[f] # {}
    <3>1. PICK x : x \in N[n * f + 0]
      BY <2>3, <2>4
    <3>2. N[n * f + 0] \in {N[n * f + k] : k \in 0..(n - 1)}
      BY <2>4
    <3>3. x \in M[f]
      BY <2>1, <3>1, <3>2
    <3>4. QED
      BY <3>3
  <2>6. M[f] \subseteq 0..(Stored - 1)
    BY <2>1, <2>3
  <2>7. ASSUME NEW g \in 0..(f - 1)
        PROVE  NotBefore(M[f], M[g])
    <3>1. g \in 0..((c \div n) - 1)
      BY <1>1
    <3>2. M[g] = UNION {N[n * g + k] : k \in 0..(n - 1)}
      BY <3>1
    <3>3. \A k \in 0..(n - 1) : NotBefore(N[n * f + k], N[n * g + k])
      <4>1. \A k \in 0..(n - 1) : n * g + k \in 0..(n * f + k - 1)
        BY <1>1, Groups
      <4>2. QED
        BY <2>2, <4>1 DEF Covered
    <3>4. ASSUME NEW b \in M[f]
          PROVE  \E a \in M[g] : a <= b
      <4>1. PICK k \in 0..(n - 1) : b \in N[n * f + k]
        BY <2>1
      <4>2. PICK a \in N[n * g + k] : a <= b
        BY <3>3, <4>1 DEF NotBefore
      <4>3. a \in M[g]
        BY <3>2, <4>2
      <4>4. QED
        BY <4>2, <4>3
    <3>5. ASSUME NEW a \in M[g]
          PROVE  \E b \in M[f] : a <= b
      <4>1. PICK k \in 0..(n - 1) : a \in N[n * g + k]
        BY <3>2
      <4>2. PICK b \in N[n * f + k] : a <= b
        BY <3>3, <4>1 DEF NotBefore
      <4>3. b \in M[f]
        BY <2>1, <4>2
      <4>4. QED
        BY <4>2, <4>3
    <3>6. QED
      BY <3>4, <3>5 DEF NotBefore
  <2>8. QED
    BY <2>5, <2>6, <2>7
<1>3. QED
  BY <1>1, <1>2 DEF Covered

LEMMA DoublesAreCovered ==
  ASSUME NEW c, NEW N, Covered(c, N), NEW M, M = [f \in 0..(2 * c - 1) |-> N[f \div 2]]
  PROVE  Covered(2 * c, M)
<1>1. c \in Nat /\ 2 * c \in Nat
  BY DEF Covered
<1>2. ASSUME NEW f \in 0..(2 * c - 1)
      PROVE  /\ M[f] # {} /\ M[f] \subseteq 0..(Stored - 1)
             /\ \A g \in 0..(f - 1) : NotBefore(M[f], M[g])
  <2>1. M[f] = N[f \div 2] /\ f \div 2 \in 0..(c - 1)
    BY <1>1
  <2>2. M[f] # {} /\ M[f] \subseteq 0..(Stored - 1)
    BY <2>1 DEF Covered
  <2>3. ASSUME NEW g \in 0..(f - 1)
        PROVE  NotBefore(M[f], M[g])
    <3>1. M[g] = N[g \div 2] /\ g \div 2 \in 0..(f \div 2)
      BY <1>1
    <3>2. CASE g \div 2 = f \div 2
      <4>1. M[f] \subseteq Int
        BY <2>2, PipelineAssumption
      <4>2. M[g] = M[f]
        BY <2>1, <3>1, <3>2
      <4>3. QED
        BY <4>1, <4>2, NotBeforeItself
    <3>3. CASE g \div 2 # f \div 2
      <4>1. g \div 2 \in 0..(f \div 2 - 1)
        BY <3>1, <3>3
      <4>2. QED
        BY <2>1, <3>1, <4>1 DEF Covered
    <3>4. QED
      BY <3>2, <3>3
  <2>4. QED
    BY <2>2, <2>3
<1>3. QED
  BY <1>1, <1>2 DEF Covered

(* However readers, averages and decoders are chained, for every n and     *)
(* however many frames there are: the count a sink is told never lets it   *)
(* ask for a frame that is made of input the reader does not have.         *)
THEOREM CountsCover == PipelineSpec => []CapsCoverRequests
<1>1. PipelineInit => CapsInv
  BY CapsAreCovered DEF PipelineInit
<1>2. CapsInv /\ [PipelineNext]_pipelineVars => CapsInv'
  <2> SUFFICES ASSUME CapsInv, [PipelineNext]_pipelineVars
               PROVE  CapsInv'
    OBVIOUS
  <2>1. count = Endless \/ Covered(count, needs)
    BY CapsAreCovered
  <2>2. Endless' = Endless
    BY DEF Endless
  <2>3. CASE UNCHANGED <<count, needs>>
    BY <2>1, <2>2, <2>3, NextIsCovered DEF Covered
  <2>4. CASE Counted \/ Uncounted
    <3>1. count' = Endless \/ Covered(count', needs')
      BY <2>4, CountedIsCovered DEF Counted, Uncounted
    <3>2. QED
      BY <3>1, NextIsCovered
  <2>5. CASE \E n \in 1..MaxAveraged : AverageCaps(n)
    <3>1. PICK n \in 1..MaxAveraged : AverageCaps(n)
      BY <2>5
    <3>2. CASE count = Endless
      BY <2>1, <2>3, <3>1, <3>2 DEF AverageCaps, SameFrames
    <3>3. CASE count # Endless
      <4>1. /\ count' = count \div n
            /\ needs' = [f \in 0..(count' - 1) |-> UNION {needs[n * f + k] : k \in 0..(n - 1)}]
        BY <3>1, <3>3 DEF AverageCaps
      <4>2. n \in Nat \ {0}
        BY PipelineAssumption
      <4>3. Covered(count \div n, needs')
        BY <2>1, <3>3, <4>1, <4>2, AveragesAreCovered
      <4>4. QED
        BY <4>1, <4>3, NextIsCovered
    <3>4. QED
      BY <3>2, <3>3
  <2>6. CASE /\ count # Endless /\ count' = 2 * count
             /\ needs' = [f \in 0..(count' - 1) |-> needs[f \div 2]]
    <3>1. Covered(2 * count, needs')
      BY <2>1, <2>6, DoublesAreCovered
    <3>2. QED
      BY <2>6, <3>1, NextIsCovered
  <2>7. CASE Configure
    BY <2>3, <2>7 DEF Configure
  <2>8. CASE Read \/ ReadDng
    BY <2>4, <2>8 DEF Read, ReadDng, ReadBlob, ReadDirectory, ReadStream, ReadWebcam
  <2>9. CASE CpuStep
    <3>1. ConvertBitDepth \/ ConvertFloats \/ Compress \/ TakeElement \/ RemoveRowNoise
          => UNCHANGED <<count, needs>>
      BY DEF ConvertBitDepth, ConvertFloats, Compress, TakeElement, RemoveRowNoise, SameFrames
    <3>2. TakeAverage => \E n \in 1..MaxAveraged : AverageCaps(n)
      BY DEF TakeAverage
    <3>3. DecodeDualFrame => Uncounted
      BY DEF DecodeDualFrame
    <3>4. ReverseDualFrame =>
            \/ UNCHANGED <<count, needs>>
            \/ /\ count # Endless /\ count' = 2 * count
               /\ needs' = [f \in 0..(count' - 1) |-> needs[f \div 2]]
      BY DEF ReverseDualFrame, SameFrames
    <3>5. QED
      BY <2>3, <2>4, <2>5, <2>6, <2>9, <3>1, <3>2, <3>3, <3>4 DEF CpuStep
  <2>10. CASE GpuStep
    BY <2>3, <2>10 DEF GpuStep, SameFrames
  <2>11. CASE SinkStep
    BY <2>3, <2>11 DEF SinkStep, Sink
  <2>12. CASE Reopen
    BY <2>3, <2>12 DEF Reopen
  <2>13. CASE RefuseCube \/ Starve
    BY <2>3, <2>13 DEF RefuseCube, Starve
  <2>14. CASE UNCHANGED pipelineVars
    BY <2>3, <2>14 DEF pipelineVars
  <2>15. QED
    BY <2>7, <2>8, <2>9, <2>10, <2>11, <2>12, <2>13, <2>14 DEF PipelineNext
<1>3. CapsInv => CapsCoverRequests
  BY DEF CapsInv
<1>4. QED
  BY <1>1, <1>2, <1>3, PTL DEF PipelineSpec

-----------------------------------------------------------------------------
(* The documented chains.  A node was entered with what the one before it  *)
(* delivered.                                                              *)
LEMMA Grown ==
  ASSUME NEW S, NEW s \in Seq(S), NEW e \in S
  PROVE  /\ \A a : Append(s, e) = <<a>> => s = <<>>
         /\ \A a, b : Append(s, e) = <<a, b>> => s = <<a>> /\ e = b
         /\ \A a, b, c : Append(s, e) = <<a, b, c>> => s = <<a, b>> /\ e = c
         /\ \A a, b, c, d : Append(s, e) = <<a, b, c, d>> => s = <<a, b, c>> /\ e = d
<1> DEFINE t == Append(s, e)
           n == Len(s)
<1>1. /\ n \in Nat /\ Len(t) = n + 1 /\ t[n + 1] = e /\ \A k \in 1..n : t[k] = s[k]
  BY AppendProperties
<1>2. s = [k \in 1..n |-> s[k]]
  OBVIOUS
<1> HIDE DEF t, n
<1>3. \A a : t = <<a>> => s = <<>>
  <2>1. SUFFICES ASSUME NEW a, t = <<a>> PROVE s = <<>>
    OBVIOUS
  <2>2. n = 0
    BY <1>1, <2>1
  <2>3. QED
    BY <2>2, EmptySeq DEF n
<1>4. \A a, b : t = <<a, b>> => s = <<a>> /\ e = b
  <2>1. SUFFICES ASSUME NEW a, NEW b, t = <<a, b>> PROVE s = <<a>> /\ e = b
    OBVIOUS
  <2>2. n = 1 /\ e = b /\ s[1] = a
    BY <1>1, <2>1
  <2>3. QED
    BY <1>2, <2>2
<1>5. \A a, b, c : t = <<a, b, c>> => s = <<a, b>> /\ e = c
  <2>1. SUFFICES ASSUME NEW a, NEW b, NEW c, t = <<a, b, c>> PROVE s = <<a, b>> /\ e = c
    OBVIOUS
  <2>2. n = 2 /\ e = c /\ s[1] = a /\ s[2] = b
    BY <1>1, <2>1
  <2>3. QED
    BY <1>2, <2>2
<1>6. \A a, b, c, d : t = <<a, b, c, d>> => s = <<a, b, c>> /\ e = d
  <2>1. SUFFICES ASSUME NEW a, NEW b, NEW c, NEW d, t = <<a, b, c, d>> PROVE s = <<a, b, c>> /\ e = d
    OBVIOUS
  <2>2. n = 3 /\ e = d /\ s[1] = a /\ s[2] = b /\ s[3] = c
    BY <1>1, <2>1
  <2>3. QED
    BY <1>2, <2>2
<1>7. QED
  BY <1>3, <1>4, <1>5, <1>6 DEF t

(* Whose step it was that put n at the end of the trail.                   *)
StepTo(n) ==
    /\ payload # None /\ outcome = "flowing" /\ UNCHANGED <<gpu, interp>>
    /\ n = "BitDepthConverter" => Deliver(n, BitDepthConverter(gpu, payload, 8))
    /\ n = "Debayer" => Deliver(n, Debayer(payload))
    /\ n = "GpuBitDepthConverter" => Deliver(n, GpuBitDepthConverter(payload))
    /\ n = "DebayerResolutionLoss" => Deliver(n, DebayerResolutionLoss(payload))
    /\ n = "DualFrameRawDecoder" => \E c \in Patterns : Deliver(n, DualFrameRawDecoder(gpu, payload, c))
    /\ n = "Average" => Deliver(n, Average(gpu, payload, NumThreads, FALSE))
    /\ n = "FfmpegWriter" => Sink(n, FfmpegWriter(gpu, payload))
    /\ n = "CinemaDngWriter" => Sink(n, CinemaDngWriter(gpu, payload))
    /\ n = "CinemaDngFrameserver" => Sink(n, Frameserver(gpu, payload, count # Endless))
    /\ n = "Display" => Sink(n, Display(gpu, payload))
    /\ n = "RawWriter" => Sink(n, RawWriter(gpu, payload))

LEMMA DeliversOn ==
  ASSUME trail \in Seq(Passed), NEW name, NEW r, Deliver(name, r), payload # None, outcome = "flowing"
  PROVE  trail' = Append(trail, name) /\ Last' = name /\ UNCHANGED <<gpu, interp>>
BY Trail DEF Deliver

LEMMA CpuStepTo ==
  ASSUME trail \in Seq(Passed), CpuStep
  PROVE  \E n : trail' = Append(trail, n) /\ StepTo(n) /\ Last' = n
<1>1. payload # None /\ outcome = "flowing"
  BY DEF CpuStep, Flows
<1>2. ASSUME NEW name, NEW r, Deliver(name, r),
             name \notin {"BitDepthConverter", "Debayer", "GpuBitDepthConverter",
                          "DebayerResolutionLoss", "DualFrameRawDecoder", "Average",
                          "FfmpegWriter", "CinemaDngWriter", "CinemaDngFrameserver", "Display",
                          "RawWriter"}
      PROVE  \E n : trail' = Append(trail, n) /\ StepTo(n) /\ Last' = n
  <2>1. trail' = Append(trail, name) /\ Last' = name /\ UNCHANGED <<gpu, interp>>
    BY <1>1, <1>2, DeliversOn
  <2>2. StepTo(name)
    BY <1>1, <1>2, <2>1 DEF StepTo
  <2>3. QED
    BY <2>1, <2>2
<1>3. CASE ConvertBitDepth
  <2>1. PICK to \in {8, 16} :
          Deliver(IF to = 8 THEN "BitDepthConverter" ELSE "BitDepthConverter16",
                  BitDepthConverter(gpu, payload, to))
    BY <1>3 DEF ConvertBitDepth
  <2>2. CASE to = 8
    <3> DEFINE name == "BitDepthConverter"
    <3>1. Deliver(name, BitDepthConverter(gpu, payload, 8))
      BY <2>1, <2>2
    <3>2. trail' = Append(trail, name) /\ Last' = name /\ UNCHANGED <<gpu, interp>>
      BY <1>1, <3>1, DeliversOn
    <3>3. StepTo(name)
      BY <1>1, <3>1, <3>2 DEF StepTo
    <3>4. QED
      BY <3>2, <3>3
  <2>3. CASE to = 16
    <3> DEFINE name == "BitDepthConverter16"
    <3>1. Deliver(name, BitDepthConverter(gpu, payload, 16))
      BY <2>1, <2>3
    <3>2. QED
      BY <1>2, <3>1
  <2>4. QED
    BY <2>2, <2>3
<1>4. CASE ConvertFloats
  BY <1>2, <1>4 DEF ConvertFloats
<1>5. CASE Compress
  BY <1>2, <1>5 DEF Compress
<1>6. CASE TakeElement
  BY <1>2, <1>6 DEF TakeElement
<1>7. CASE RemoveRowNoise
  BY <1>2, <1>7 DEF RemoveRowNoise
<1>8. CASE TakeAverage
  <2>1. PICK n \in 1..MaxAveraged, std \in BOOLEAN :
          Deliver(IF std THEN "AverageStd" ELSE "Average", Average(gpu, payload, NumThreads, std))
    BY <1>8 DEF TakeAverage
  <2>2. CASE std = TRUE
    <3> DEFINE name == "AverageStd"
    <3>1. Deliver(name, Average(gpu, payload, NumThreads, TRUE))
      BY <2>1, <2>2
    <3>2. QED
      BY <1>2, <3>1
  <2>3. CASE std = FALSE
    <3> DEFINE name == "Average"
    <3>1. Deliver(name, Average(gpu, payload, NumThreads, FALSE))
      BY <2>1, <2>3
    <3>2. trail' = Append(trail, name) /\ Last' = name /\ UNCHANGED <<gpu, interp>>
      BY <1>1, <3>1, DeliversOn
    <3>3. StepTo(name)
      BY <1>1, <3>1, <3>2 DEF StepTo
    <3>4. QED
      BY <3>2, <3>3
  <2>4. QED
    BY <2>2, <2>3
<1>9. CASE DecodeDualFrame
  <2> DEFINE name == "DualFrameRawDecoder"
  <2>1. PICK c \in Patterns : Deliver(name, DualFrameRawDecoder(gpu, payload, c))
    BY <1>9 DEF DecodeDualFrame
  <2>2. trail' = Append(trail, name) /\ Last' = name /\ UNCHANGED <<gpu, interp>>
    BY <1>1, <2>1, DeliversOn
  <2>3. StepTo(name)
    BY <1>1, <2>1, <2>2 DEF StepTo
  <2>4. QED
    BY <2>2, <2>3
<1>10. CASE ReverseDualFrame
  BY <1>2, <1>10 DEF ReverseDualFrame
<1>11. QED
  BY <1>3, <1>4, <1>5, <1>6, <1>7, <1>8, <1>9, <1>10 DEF CpuStep

LEMMA GpuStepTo ==
  ASSUME trail \in Seq(Passed), GpuStep
  PROVE  \E n : trail' = Append(trail, n) /\ StepTo(n) /\ Last' = n
<1>1. payload # None /\ outcome = "flowing"
  BY DEF GpuStep, Flows
<1>2. ASSUME NEW name, NEW r, Deliver(name, r),
             \/ name \in {"ColorVoodoo", "Lut3d", "DarkframeSubtract", "Histogram"}
             \/ name = "GpuBitDepthConverter" /\ r = GpuBitDepthConverter(payload)
             \/ name = "Debayer" /\ r = Debayer(payload)
             \/ name = "DebayerResolutionLoss" /\ r = DebayerResolutionLoss(payload)
      PROVE  \E n : trail' = Append(trail, n) /\ StepTo(n) /\ Last' = n
  <2>1. trail' = Append(trail, name) /\ Last' = name /\ UNCHANGED <<gpu, interp>>
    BY <1>1, <1>2, DeliversOn
  <2>2. StepTo(name)
    BY <1>1, <1>2, <2>1 DEF StepTo
  <2>3. QED
    BY <2>1, <2>2
<1>3. QED
  BY <1>2 DEF GpuStep

LEMMA SinkStepTo ==
  ASSUME trail \in Seq(Passed), SinkStep
  PROVE  \E n : trail' = Append(trail, n) /\ StepTo(n) /\ Last' = n
<1>1. ASSUME NEW name, NEW r, Sink(name, r),
             \/ name = "RawWriter" /\ r = RawWriter(gpu, payload)
             \/ name = "CinemaDngWriter" /\ r = CinemaDngWriter(gpu, payload)
             \/ name = "FfmpegWriter" /\ r = FfmpegWriter(gpu, payload)
             \/ name = "BenchmarkSink"
             \/ name = "CinemaDngFrameserver" /\ r = Frameserver(gpu, payload, count # Endless)
             \/ name = "Display" /\ r = Display(gpu, payload)
             \/ name = "Plot"
      PROVE  \E n : trail' = Append(trail, n) /\ StepTo(n) /\ Last' = n
  <2>1. trail' = Append(trail, name) /\ Last' = name /\ UNCHANGED <<gpu, interp>>
        /\ payload # None /\ outcome = "flowing"
    BY <1>1, Trail DEF Sink
  <2>2. StepTo(name)
    BY <1>1, <2>1 DEF StepTo
  <2>3. QED
    BY <2>1, <2>2
<1>2. QED
  BY <1>1 DEF SinkStep

(* What the nodes of these chains make of the frames they are made for.    *)
FrameOf(p, kind, depth) ==
    /\ is_frame_of(p, {kind}) /\ p.place \in {"vulkan", "gpu"} /\ p.len > 0
    /\ kind = "Raw" => p.interp.bit_depth = depth /\ p.interp.width >= 2 /\ p.interp.height >= 2

LEMMA CpuHas ==
  ASSUME gpu = TRUE, NEW p, WellFormed(p), NEW kind, NEW depth, FrameOf(p, kind, depth),
         NEW kinds, kind \in kinds
  PROVE  LET r == ensure_cpu_buffer(gpu, p, kinds) IN
         r.tag = "ok" /\ r.value.interp = p.interp /\ FrameOf(r.value, kind, depth)
<1> DEFINE r == ensure_cpu_buffer(gpu, p, kinds)
<1>1. p.type = "frame" /\ p.interp.kind = kind /\ is_frame_of(p, kinds)
      /\ p.place \in {"vulkan", "gpu"} /\ p.len > 0
      /\ (kind = "Raw" => p.interp.bit_depth = depth /\ p.interp.width >= 2 /\ p.interp.height >= 2)
  BY DEF FrameOf, is_frame_of
<1>2. p = Frame(p.interp, p.place, p.len, p.whole)
  BY DEF WellFormed
<1>3. CASE p.place = "vulkan"
  <2>1. r = Ok(p)
    BY <1>1, <1>3 DEF ensure_cpu_buffer, CpuPlaces
  <2>2. r.tag = "ok" /\ r.value = p
    BY <2>1 DEF Ok
  <2>3. QED
    BY <2>2
<1>4. CASE p.place = "gpu"
  <2>1. r = Ok([p EXCEPT !.place = "vulkan"])
    BY <1>1, <1>4 DEF ensure_cpu_buffer, CpuPlaces, to_cpu_buffer
  <2>2. [p EXCEPT !.place = "vulkan"] = Frame(p.interp, "vulkan", p.len, p.whole)
    BY <1>2 DEF Frame
  <2>3. r.tag = "ok" /\ r.value = Frame(p.interp, "vulkan", p.len, p.whole)
    BY <2>1, <2>2 DEF Ok
  <2>4. r.value.type = "frame" /\ r.value.interp = p.interp /\ r.value.place = "vulkan"
        /\ r.value.len = p.len
    BY <2>3, FrameFields
  <2>5. FrameOf(r.value, kind, depth)
    BY <1>1, <2>4 DEF FrameOf, is_frame_of
  <2>6. QED
    BY <2>3, <2>4, <2>5
<1>5. QED
  BY <1>1, <1>3, <1>4

LEMMA GpuHas ==
  ASSUME NEW p, WellFormed(p), NEW kind, NEW depth, FrameOf(p, kind, depth),
         NEW kinds, kind \in kinds
  PROVE  LET r == ensure_gpu_buffer(p, kinds) IN
         r.tag = "ok" /\ r.value.interp = p.interp /\ FrameOf(r.value, kind, depth)
<1> DEFINE r == ensure_gpu_buffer(p, kinds)
           place == IF p.place = "vulkan" THEN "gpu" ELSE p.place
<1>1. p.type = "frame" /\ p.interp.kind = kind /\ is_frame_of(p, kinds) /\ p.place # "vec"
      /\ place = "gpu" /\ p.len > 0
      /\ (kind = "Raw" => p.interp.bit_depth = depth /\ p.interp.width >= 2 /\ p.interp.height >= 2)
  BY DEF FrameOf, is_frame_of
<1>2. p = Frame(p.interp, p.place, p.len, p.whole)
  BY DEF WellFormed
<1>3. r = Ok([p EXCEPT !.place = place])
  BY <1>1 DEF ensure_gpu_buffer
<1> HIDE DEF place
<1>4. [p EXCEPT !.place = place] = Frame(p.interp, place, p.len, p.whole)
  BY <1>2 DEF Frame
<1>5. r.tag = "ok" /\ r.value = Frame(p.interp, place, p.len, p.whole)
  BY <1>3, <1>4 DEF Ok
<1>6. r.value.type = "frame" /\ r.value.interp = p.interp /\ r.value.place = place
      /\ r.value.len = p.len
  BY <1>5, FrameFields
<1>7. FrameOf(r.value, kind, depth)
  BY <1>1, <1>6 DEF FrameOf, is_frame_of
<1>8. QED
  BY <1>5, <1>6, <1>7

LEMMA Makes ==
  ASSUME NEW i, NEW place \in {"vulkan", "gpu"}, NEW l, NEW whole, NEW kind, NEW depth,
         i.kind = kind, kind = "Raw" => i.bit_depth = depth /\ i.width >= 2 /\ i.height >= 2, l > 0
  PROVE  FrameOf(Frame(i, place, l, whole), kind, depth)
BY FrameFields DEF FrameOf, is_frame_of

LEMMA NotEmpty ==
  ASSUME NEW i \in Interps, i.kind # "SZ3", i.width >= 1, i.height >= 1,
         i.kind = "Raw" => i.bit_depth >= 8
  PROVE  required_bytes(i) > 0
<1> DEFINE w == i.width
           h == i.height
           d == i.bit_depth
           x == w * h
<1>1. /\ i.kind \in {"Raw", "Rgb"} /\ w \in Nat /\ h \in Nat
      /\ i.kind = "Raw" => d \in Nat /\ d >= 8 /\ required_bytes(i) = (x * d + 7) \div 8
      /\ i.kind = "Rgb" => required_bytes(i) = x * 3
  BY RequiredBytes
<1>2. w >= 1 /\ h >= 1
  OBVIOUS
<1> HIDE DEF w, h, d
<1>3. x \in Nat /\ x >= 1
  BY <1>1, <1>2, Multiples
<1> HIDE DEF x
<1>4. CASE i.kind = "Raw"
  <2>1. d * x >= d /\ d * x = x * d /\ x * d \in Nat
    BY <1>1, <1>3, <1>4, Multiples
  <2>2. x * d >= 8
    BY <1>1, <1>4, <2>1
  <2>3. \A n \in Nat : n >= 8 => (n + 7) \div 8 > 0
    OBVIOUS
  <2>4. QED
    BY <1>1, <1>4, <2>1, <2>2, <2>3
<1>5. CASE i.kind = "Rgb"
  BY <1>1, <1>3, <1>5
<1>6. QED
  BY <1>1, <1>4, <1>5

LEMMA MakesOnCpu ==
  ASSUME gpu = TRUE, NEW i, NEW whole, NEW kind, NEW depth,
         i.kind = kind, kind = "Raw" => i.bit_depth = depth /\ i.width >= 2 /\ i.height >= 2,
         required_bytes(i) > 0
  PROVE  LET r == OnCpu(gpu, i, whole) IN
         r.tag = "ok" /\ FrameOf(r.value, kind, depth) /\ r.value.interp = i
         /\ r.value.len = required_bytes(i)
<1> DEFINE f == Frame(i, "vulkan", required_bytes(i), whole)
<1>1. OnCpu(gpu, i, whole) = Ok(f)
  BY DEF OnCpu, CpuPlace
<1>2. f.interp = i /\ f.len = required_bytes(i)
  BY FrameFields
<1>3. FrameOf(f, kind, depth)
  BY Makes
<1> HIDE DEF f
<1>4. QED
  BY <1>1, <1>2, <1>3 DEF Ok

LEMMA MakesOnGpu ==
  ASSUME NEW i, NEW whole, NEW kind, NEW depth, i.kind = kind,
         kind = "Raw" => i.bit_depth = depth /\ i.width >= 2 /\ i.height >= 2,
         required_bytes(i) > 0
  PROVE  LET r == OnGpu(i, whole) IN r.tag = "ok" /\ FrameOf(r.value, kind, depth)
<1> DEFINE f == Frame(i, "gpu", required_bytes(i), whole)
<1>1. OnGpu(i, whole) = Ok(f)
  BY DEF OnGpu
<1>2. FrameOf(f, kind, depth)
  BY Makes
<1> HIDE DEF f
<1>3. QED
  BY <1>1, <1>2 DEF Ok

LEMMA TwelveBitsOnCpu ==
  ASSUME gpu = TRUE, NEW p, WellFormed(p), FrameOf(p, "Raw", 12)
  PROVE  LET r == ensure_cpu_buffer(gpu, p, {"Raw"}) IN r.tag = "ok" /\ r.value.interp = p.interp
<1> DEFINE kinds == {"Raw"}
           kind == "Raw"
           depth == 12
<1>1. kind \in kinds /\ FrameOf(p, kind, depth)
  OBVIOUS
<1> HIDE DEF kinds, kind, depth
<1>2. /\ ensure_cpu_buffer(gpu, p, kinds).tag = "ok"
      /\ ensure_cpu_buffer(gpu, p, kinds).value.interp = p.interp
  BY <1>1, CpuHas
<1>3. QED
  BY <1>2 DEF kinds

LEMMA ChainConverts ==
  ASSUME gpu = TRUE, NEW p, WellFormed(p), FrameOf(p, "Raw", 12)
  PROVE  /\ LET r == BitDepthConverter(gpu, p, 8) IN r.tag = "ok" /\ FrameOf(r.value, "Raw", 8)
         /\ LET r == GpuBitDepthConverter(p) IN r.tag = "ok" /\ FrameOf(r.value, "Raw", 8)
<1> DEFINE j == [p.interp EXCEPT !.bit_depth = 8]
           i == ensure_cpu_buffer(gpu, p, {"Raw"}).value.interp
           paired == p.whole /\ Paired(p.interp)
           l == required_bytes(j)
           f == Frame(j, "vulkan", l, paired)
<1>1. /\ p.interp \in Interps /\ p.interp.kind = "Raw" /\ p.interp.bit_depth = 12
      /\ p.interp.width >= 2 /\ p.interp.height >= 2
  BY DEF WellFormed, FrameOf, is_frame_of
<1>2. j.kind = "Raw" /\ j.bit_depth = 8 /\ j.width >= 2 /\ j.height >= 2 /\ j \in Interps
  BY <1>1, NewDepth, RawFields
<1>12. l > 0
  <2>1. j.width >= 1 /\ j.height >= 1
    BY <1>1, <1>2, RequiredBytes
  <2> HIDE DEF j
  <2>2. QED
    BY <1>2, <2>1, NotEmpty
<1>3. ensure_cpu_buffer(gpu, p, {"Raw"}).tag = "ok" /\ i = p.interp
  BY TwelveBitsOnCpu
<1>4. BitDepthConverter(gpu, p, 8) = Ok(f)
  <2> DEFINE to == 8
             k == p.interp
             pixels == k.width * k.height
             values == (p.len * 8) \div MaxOf(k.bit_depth, 8)
             w2 == p.whole /\ values = pixels
             out(d, whole) == Frame([k EXCEPT !.bit_depth = d], CpuPlace(gpu),
                                    required_bytes([k EXCEPT !.bit_depth = d]), whole)
  <2>1. to \in {8, 16}
    OBVIOUS
  <2> HIDE DEF to
  <2>2. BitDepthConverter(gpu, p, to) =
            IF k.bit_depth = to THEN Ok(p)
            ELSE IF k.bit_depth = 12 /\ to = 16 /\ ~OutputCastable(gpu, [k EXCEPT !.bit_depth = 16])
                 THEN Panic
            ELSE IF k.bit_depth = 12 THEN Ok(out(to, paired))
            ELSE IF to # 8 \/ values > pixels THEN Panic
            ELSE Ok(out(8, w2))
    BY <1>3, <2>1 DEF BitDepthConverter, OnCpu
  <2>3. k.bit_depth = 12 /\ k.bit_depth # to /\ to # 16
    BY <1>1 DEF to
  <2>4. BitDepthConverter(gpu, p, to) = Ok(out(to, paired))
    BY <2>2, <2>3
  <2>5. CpuPlace(gpu) = "vulkan"
    BY DEF CpuPlace
  <2>6. QED
    BY <2>4, <2>5 DEF to
<1>5. ensure_gpu_buffer(p, {"Raw"}).tag = "ok" /\ ensure_gpu_buffer(p, {"Raw"}).value.interp = p.interp
  BY GpuHas
<1>6. RequireDepth(p, 12).tag = "ok"
  BY <1>1, <1>5 DEF RequireDepth
<1>7. GpuBitDepthConverter(p) = OnGpu(j, p.whole)
  BY <1>6 DEF GpuBitDepthConverter
<1>13. required_bytes(j) > 0
  BY <1>12
<1> HIDE DEF j, l, paired
<1>8. FrameOf(f, "Raw", 8)
  BY <1>2, <1>12, Makes
<1> HIDE DEF f
<1>9. Ok(f).tag = "ok" /\ Ok(f).value = f
  BY DEF Ok
<1>10. OnGpu(j, p.whole).tag = "ok" /\ FrameOf(OnGpu(j, p.whole).value, "Raw", 8)
  BY <1>2, <1>13, MakesOnGpu
<1>11. QED
  BY <1>4, <1>7, <1>8, <1>9, <1>10

LEMMA ChainDebayers ==
  ASSUME NEW p, WellFormed(p), FrameOf(p, "Raw", 8)
  PROVE  /\ LET r == Debayer(p) IN r.tag = "ok" /\ FrameOf(r.value, "Rgb", 8)
         /\ LET r == DebayerResolutionLoss(p) IN r.tag = "ok" /\ FrameOf(r.value, "Rgb", 8)
<1> DEFINE full == Rgb(p.interp.width, p.interp.height)
           half == Rgb(p.interp.width \div 2, p.interp.height \div 2)
           whole == p.whole
<1>1. /\ p.interp.kind = "Raw" /\ p.interp.bit_depth = 8 /\ p.interp \in Interps
      /\ p.interp.width >= 2 /\ p.interp.height >= 2
  BY DEF WellFormed, FrameOf, is_frame_of
<1>2. ensure_gpu_buffer(p, {"Raw"}).tag = "ok" /\ ensure_gpu_buffer(p, {"Raw"}).value.interp = p.interp
  BY GpuHas
<1>3. RequireDepth(p, 8).tag = "ok"
  BY <1>1, <1>2 DEF RequireDepth
<1>4. Debayer(p) = OnGpu(full, whole) /\ DebayerResolutionLoss(p) = OnGpu(half, whole)
  BY <1>3 DEF Debayer, DebayerResolutionLoss
<1>5. full.kind = "Rgb" /\ half.kind = "Rgb"
  BY RgbFields
<1>6. required_bytes(full) > 0 /\ required_bytes(half) > 0
  <2>1. p.interp.width \in Nat /\ p.interp.height \in Nat
    BY <1>1, RequiredBytes
  <2>2. \A n \in Nat : n >= 2 => n >= 1 /\ n \div 2 \in Nat /\ n \div 2 >= 1
    OBVIOUS
  <2>3. \A w \in Nat, h \in Nat : w >= 1 /\ h >= 1 => required_bytes(Rgb(w, h)) > 0
    <3>1. SUFFICES ASSUME NEW w \in Nat, NEW h \in Nat, w >= 1, h >= 1
                   PROVE  required_bytes(Rgb(w, h)) > 0
      OBVIOUS
    <3>2. Rgb(w, h) \in Interps
      BY DEF Rgb, Interps
    <3>3. QED
      BY <3>1, <3>2, RgbFields, NotEmpty
  <2>4. QED
    BY <1>1, <2>1, <2>2, <2>3
<1> HIDE DEF full, half, whole
<1>7. QED
  BY <1>4, <1>5, <1>6, MakesOnGpu

LEMMA ChainIsWritten ==
  ASSUME gpu = TRUE, NEW p, WellFormed(p)
  PROVE  /\ FrameOf(p, "Rgb", 8) => FfmpegWriter(gpu, p).tag = "ok" /\ Display(gpu, p).tag = "ok"
         /\ FrameOf(p, "Raw", 12) => CinemaDngWriter(gpu, p).tag = "ok"
         /\ FrameOf(p, "Raw", 32) => RawWriter(gpu, p).tag = "ok"
<1>1. FrameOf(p, "Rgb", 8) => ensure_cpu_buffer(gpu, p, {"Rgb"}).tag = "ok"
                              /\ ensure_gpu_buffer(p, {"Rgb"}).tag = "ok"
  <2> DEFINE kinds == {"Rgb"}
             kind == "Rgb"
             depth == 8
  <2>1. kind \in kinds
    OBVIOUS
  <2> HIDE DEF kinds, kind, depth
  <2>2. FrameOf(p, kind, depth) => ensure_cpu_buffer(gpu, p, kinds).tag = "ok"
    BY <2>1, CpuHas
  <2>3. FrameOf(p, kind, depth) => ensure_gpu_buffer(p, kinds).tag = "ok"
    BY <2>1, GpuHas
  <2>4. QED
    BY <2>2, <2>3 DEF kinds, kind, depth
<1>2. FrameOf(p, "Raw", 12) => ensure_cpu_buffer(gpu, p, {"Raw"}).tag = "ok"
  BY CpuHas
<1>3. "Raw" \in AnyKind
  BY DEF AnyKind
<1>4. FrameOf(p, "Raw", 32) => ensure_cpu_buffer(gpu, p, AnyKind).tag = "ok"
  BY <1>3, CpuHas
<1>5. QED
  BY <1>1, <1>2, <1>4 DEF FfmpegWriter, Display, CinemaDngWriter, RawWriter

Decoded(r, w, h, x) ==
    /\ r.tag = "ok" /\ FrameOf(r.value, "Raw", 12)
    /\ r.value.len = x * 6
    /\ r.value.interp.width = 2 * w /\ r.value.interp.height = 2 * h

LEMMA ChainDecodes ==
  ASSUME gpu = TRUE, NEW w \in Nat, NEW h \in Nat, w >= 2, h >= 2, NEW x, x = w * h, x > 0,
         NEW l, l = x * 3, NEW c, NEW p, NEW whole, p = Frame(Rgb(w, h), "vulkan", l, whole)
  PROVE  Decoded(DualFrameRawDecoder(gpu, p, c), w, h, x)
<1> DEFINE i == Rgb(w, h)
           j == Raw(2 * w, 2 * h, 12, c)
           enough == p.whole /\ p.len >= 3 * i.width * i.height
           f == Frame(j, "vulkan", x * 6, enough)
<1>1. i.kind = "Rgb" /\ i.width = w /\ i.height = h
  BY RgbFields
<1>2. w # 0 /\ l >= 3
  <2>1. w * h \in Nat /\ w * h >= 1
    OBVIOUS
  <2>2. w = 0 => w * h = 0
    OBVIOUS
  <2>3. QED
    BY <2>1, <2>2
<1>3. p.type = "frame" /\ p.interp = i /\ p.place = "vulkan" /\ p.len = l
  <2>1. p = Frame(i, "vulkan", l, whole)
    OBVIOUS
  <2> HIDE DEF i
  <2>2. Frame(i, "vulkan", l, whole).type = "frame" /\ Frame(i, "vulkan", l, whole).interp = i
        /\ Frame(i, "vulkan", l, whole).place = "vulkan" /\ Frame(i, "vulkan", l, whole).len = l
    BY FrameFields
  <2>3. QED
    BY <2>1, <2>2
<1>4. ensure_cpu_buffer(gpu, p, {"Rgb"}) = Ok(p)
  <2> HIDE DEF i
  <2>1. QED
    BY <1>1, <1>3 DEF ensure_cpu_buffer, is_frame_of, CpuPlaces
<1>5. ensure_cpu_buffer(gpu, p, {"Rgb"}).tag = "ok"
      /\ ensure_cpu_buffer(gpu, p, {"Rgb"}).value.interp = i
  <2>1. Ok(p).tag = "ok" /\ Ok(p).value = p
    BY DEF Ok
  <2>2. QED
    BY <1>3, <1>4, <2>1
<1>6. DualFrameRawDecoder(gpu, p, c) = OnCpu(gpu, Raw(2 * i.width, 2 * i.height, 12, c), enough)
  <2>0. l \in Nat
    OBVIOUS
  <2> HIDE DEF i
  <2>1. ~(p.len < 3)
    BY <1>2, <1>3, <2>0
  <2>2. i.width # 0
    BY <1>1, <1>2
  <2>3. QED
    BY <1>5, <2>1, <2>2 DEF DualFrameRawDecoder
<1>7. required_bytes(j) = x * 6
  <2>1. required_bytes(j) = ((2 * w) * (2 * h) * 12 + 7) \div 8
    BY RawFields DEF required_bytes
  <2>2. (2 * w) * (2 * h) * 12 = 8 * (x * 6)
    OBVIOUS
  <2>3. x * 6 \in Nat
    OBVIOUS
  <2>4. \A n \in Nat : (8 * n + 7) \div 8 = n
    OBVIOUS
  <2>5. QED
    BY <2>1, <2>2, <2>3, <2>4
<1>8. DualFrameRawDecoder(gpu, p, c) = Ok(f)
  <2>1. DualFrameRawDecoder(gpu, p, c) = OnCpu(gpu, j, enough)
    BY <1>1, <1>6
  <2>2. CpuPlace(gpu) = "vulkan"
    BY DEF CpuPlace
  <2> HIDE DEF j, enough
  <2>3. QED
    BY <1>7, <2>1, <2>2 DEF OnCpu
<1>9. j.kind = "Raw" /\ j.bit_depth = 12 /\ j.width = 2 * w /\ j.height = 2 * h
      /\ 2 * w >= 2 /\ 2 * h >= 2
  BY RawFields
<1>10. f.interp = j /\ f.len = x * 6
  <2> HIDE DEF j, enough
  <2>1. QED
    BY FrameFields
<1>11. FrameOf(f, "Raw", 12)
  <2> DEFINE m == x * 6
  <2>3. m > 0
    OBVIOUS
  <2>4. j.width >= 2 /\ j.height >= 2
    BY <1>9
  <2> HIDE DEF j, enough, m
  <2>1. FrameOf(Frame(j, "vulkan", m, enough), "Raw", 12)
    BY <1>9, <2>3, <2>4, Makes
  <2>2. QED
    BY <2>1 DEF m
<1> HIDE DEF f
<1>12. Ok(f).tag = "ok" /\ Ok(f).value = f
  BY DEF Ok
<1>13. QED
  BY <1>8, <1>9, <1>10, <1>11, <1>12 DEF Decoded

(* Pixels that can be shared out leave every thread whole floats.          *)
LEMMA SharesAreFloats ==
  ASSUME NEW x \in Nat, x > 0, x % (2 * NumThreads) = 0
  PROVE  (6 * x) \div NumThreads # 0 /\ ((16 * x) \div NumThreads) % 4 = 0
<1> DEFINE S == 2 * NumThreads
           q == x \div S
           T == NumThreads
<1>1. S \in Nat \ {0} /\ T \in Nat \ {0}
  BY PipelineAssumption
<1>2. x % S = x - S * q /\ q \in Nat
  <2> HIDE DEF S
  <2>1. QED
    BY <1>1
<1> HIDE DEF q
<1>3. S * q = 2 * (T * q) /\ T * q \in Nat
  BY <1>1, <1>2
<1>4. x = 2 * (T * q) /\ x % S = 0
  <2> HIDE DEF S
  <2>1. S * q \in Nat
    BY <1>3
  <2>2. x % S = 0
    BY DEF S
  <2>3. QED
    BY <1>2, <1>3, <2>1, <2>2
<1>5. q >= 1
  <2>1. q = 0 => T * q = 0
    BY <1>1
  <2>2. QED
    BY <1>2, <1>4, <2>1
<1>6. T * (12 * q) = 6 * x /\ T * (32 * q) = 16 * x
  <2>1. T * (12 * q) = 12 * (T * q) /\ T * (32 * q) = 32 * (T * q)
    BY <1>1, <1>2
  <2>2. QED
    BY <1>3, <1>4, <2>1
<1>7. 12 * q \in Nat /\ 32 * q \in Nat /\ 6 * x \in Nat /\ 16 * x \in Nat
  BY <1>2
<1> HIDE DEF S, T
<1>8. (6 * x) \div T = 12 * q
  <2> DEFINE a == 6 * x
             k == 12 * q
  <2>1. a \in Nat /\ k \in Nat /\ T * k = a
    BY <1>6, <1>7
  <2> HIDE DEF a, k
  <2>2. T * k <= a /\ a < T * k + T
    BY <1>1, <2>1
  <2>3. a \div T = k
    BY <1>1, <2>1, <2>2, Quotient
  <2>4. QED
    BY <2>3 DEF a, k
<1>9. (16 * x) \div T = 32 * q
  <2> DEFINE a == 16 * x
             k == 32 * q
  <2>1. a \in Nat /\ k \in Nat /\ T * k = a
    BY <1>6, <1>7
  <2> HIDE DEF a, k
  <2>2. T * k <= a /\ a < T * k + T
    BY <1>1, <2>1
  <2>3. a \div T = k
    BY <1>1, <2>1, <2>2, Quotient
  <2>4. QED
    BY <2>3 DEF a, k
<1>10. 12 * q # 0 /\ (32 * q) % 4 = 0
  BY <1>2, <1>5
<1>11. QED
  BY <1>8, <1>9, <1>10 DEF T

LEMMA ChainAverages ==
  ASSUME gpu = TRUE, NEW w \in Nat, NEW h \in Nat, w * h > 0, (w * h) % (2 * NumThreads) = 0,
         NEW p, WellFormed(p), FrameOf(p, "Raw", 12), p.len = w * h * 6,
         p.interp.width = 2 * w, p.interp.height = 2 * h
  PROVE  LET r == Average(gpu, p, NumThreads, FALSE) IN r.tag = "ok" /\ FrameOf(r.value, "Raw", 32)
<1> DEFINE i == p.interp
           j == [i EXCEPT !.bit_depth = 32]
           r == ensure_cpu_buffer(gpu, p, {"Raw"})
           l == i.width * i.height * 4
           even == p.whole /\ ChunksFit(i, NumThreads)
           out == Frame(j, "vulkan", l, even)
<1>1. i \in Interps /\ i.kind = "Raw" /\ i.bit_depth = 12 /\ i.width >= 2 /\ i.height >= 2
  BY DEF WellFormed, FrameOf, is_frame_of
<1>2. r.tag = "ok" /\ r.value.interp = i
  BY TwelveBitsOnCpu
<1>3. p.len = 6 * (w * h) /\ l = 16 * (w * h) /\ w * h \in Nat /\ l > 0
  <2>1. l = (2 * w) * (2 * h) * 4
    OBVIOUS
  <2>2. (2 * w) * (2 * h) * 4 = 16 * (w * h) /\ w * h * 6 = 6 * (w * h) /\ w * h \in Nat
    OBVIOUS
  <2>3. QED
    BY <2>1, <2>2
<1>4. p.len \div NumThreads # 0 /\ (l \div NumThreads) % 4 = 0
  <2> DEFINE x == w * h
  <2>1. x \in Nat /\ x > 0 /\ x % (2 * NumThreads) = 0 /\ p.len = 6 * x /\ l = 16 * x
    BY <1>3
  <2> HIDE DEF x, l
  <2>2. QED
    BY <2>1, SharesAreFloats
<1>5. j.kind = "Raw" /\ j.bit_depth = 32 /\ j.width >= 2 /\ j.height >= 2
  BY <1>1, NewDepth, RawFields
<1> HIDE DEF l, j, even
<1>6. out.len = l
  BY FrameFields
<1>7. FrameOf(out, "Raw", 32)
  BY <1>3, <1>5, Makes
<1>8. Average(gpu, p, NumThreads, FALSE) =
        IF \/ i.bit_depth # 12 \/ ~gpu \/ p.len \div NumThreads = 0
           \/ NumThreads > 1 /\ (out.len \div NumThreads) % 4 # 0
        THEN Panic ELSE Ok(out)
  BY <1>2 DEF Average, l, j, even
<1> HIDE DEF out
<1>9. Average(gpu, p, NumThreads, FALSE) = Ok(out)
  BY <1>1, <1>4, <1>6, <1>8
<1>10. Ok(out).tag = "ok" /\ Ok(out).value = out
  BY DEF Ok
<1>11. QED
  BY <1>7, <1>9, <1>10

(* Before there are frames there are no chains.                            *)
LEMMA NoChainYet ==
  ASSUME trail = <<>>
  PROVE  ChainsInv
BY DEF ChainsInv, TwelveBitChains, WebcamChain

LEMMA DeliversFrame ==
  ASSUME NEW name, NEW r, Deliver(name, r), NEW kind, NEW depth,
         r.tag = "ok", FrameOf(r.value, kind, depth)
  PROVE  Carried(kind, depth)' /\ payload' = r.value
<1>1. r.value.type = "frame" /\ r.value.len > 0
  BY DEF FrameOf, is_frame_of
<1>3. ~Vanishes(r)
  <2>1. \A f \in FramesOf(r.value) : f = r.value
    BY <1>1 DEF FramesOf, Elements
  <2>2. QED
    BY <1>1, <2>1 DEF Vanishes, NoBytes
<1>4. payload' = r.value /\ outcome' = "flowing"
  BY <1>3 DEF Deliver
<1>2. QED
  BY <1>4 DEF Carried, FrameOf, is_frame_of

LEMMA SinkWrites ==
  ASSUME NEW name, NEW r, Sink(name, r), r.tag = "ok"
  PROVE  outcome' = "written"
BY DEF Sink

(* A node after a reader finds what it is made for.                        *)
LEMMA ChainsGoOn ==
  ASSUME PipelineInv, ChainsInv, trail # <<>>,
         NEW n, trail' = Append(trail, n), StepTo(n)
  PROVE  ChainsInv'
<1>1. /\ payload # None /\ outcome = "flowing" /\ gpu' = gpu /\ interp' = interp
      /\ gpu \in BOOLEAN /\ trail \in Seq(Passed)
      /\ (interp # None => interp \in Interps)
  BY DEF StepTo, PipelineInv, Started
<1>2. payload.type = "frame" => WellFormed(payload)
  BY <1>1, FitsIsPayload DEF PipelineInv, FlowingFits, IsPayload
<1>3. /\ \A a : trail' = <<a>> => trail = <<>>
      /\ \A a, b : trail' = <<a, b>> => trail = <<a>> /\ n = b
      /\ \A a, b, c : trail' = <<a, b, c>> => trail = <<a, b>> /\ n = c
      /\ \A a, b, c, d : trail' = <<a, b, c, d>> => trail = <<a, b, c>> /\ n = d
  <2> DEFINE S == Passed \cup {n}
  <2>1. Passed \subseteq S /\ n \in S
    OBVIOUS
  <2> HIDE DEF S
  <2>2. trail \in Seq(S)
    BY <1>1, <2>1, SeqMonotonic
  <2>3. QED
    BY <2>1, <2>2, Grown
<1>4. SUFFICES ASSUME gpu, interp.width >= 2, interp.height >= 2
               PROVE  (TwelveBits(interp) => TwelveBitChains') /\ WebcamChain'
  <2>1. (TwelveBits(interp))' <=> TwelveBits(interp)
    BY <1>1
  <2>2. gpu' <=> gpu
    BY <1>1
  <2>3. QED
    BY <1>1, <2>1, <2>2 DEF ChainsInv
<1>5. gpu = TRUE
  BY <1>1, <1>4
<1>6. \A kind, depth : Carried(kind, depth) => WellFormed(payload) /\ FrameOf(payload, kind, depth)
  BY <1>2 DEF Carried, FrameOf, is_frame_of
<1>7. ASSUME TwelveBits(interp) PROVE TwelveBitChains'
  <2>0. TwelveBitChains
    BY <1>4, <1>7 DEF ChainsInv
  <2>1. ~(trail' = <<"RawDirectoryReader">>)
    BY <1>3
  <2>2. trail' = <<"RawDirectoryReader", "BitDepthConverter">> => Carried("Raw", 8)'
    <3> SUFFICES ASSUME trail' = <<"RawDirectoryReader", "BitDepthConverter">> PROVE Carried("Raw", 8)'
      OBVIOUS
    <3> DEFINE r == BitDepthConverter(gpu, payload, 8)
    <3>1. trail = <<"RawDirectoryReader">> /\ n = "BitDepthConverter"
      BY <1>3
    <3>2. WellFormed(payload) /\ FrameOf(payload, "Raw", 12)
      BY <1>1, <1>6, <2>0, <3>1 DEF TwelveBitChains
    <3>3. r.tag = "ok" /\ FrameOf(r.value, "Raw", 8)
      BY <1>5, <3>2, ChainConverts
    <3>4. Deliver(n, r)
      BY <3>1 DEF StepTo
    <3> HIDE DEF r
    <3>5. QED
      BY <3>3, <3>4, DeliversFrame
  <2>3. trail' = <<"RawDirectoryReader", "BitDepthConverter", "Debayer">> => Carried("Rgb", 8)'
    <3> SUFFICES ASSUME trail' = <<"RawDirectoryReader", "BitDepthConverter", "Debayer">>
                 PROVE  Carried("Rgb", 8)'
      OBVIOUS
    <3> DEFINE r == Debayer(payload)
    <3>1. trail = <<"RawDirectoryReader", "BitDepthConverter">> /\ n = "Debayer"
      BY <1>3
    <3>2. WellFormed(payload) /\ FrameOf(payload, "Raw", 8)
      BY <1>1, <1>6, <2>0, <3>1 DEF TwelveBitChains
    <3>3. r.tag = "ok" /\ FrameOf(r.value, "Rgb", 8)
      BY <3>2, ChainDebayers
    <3>4. Deliver(n, r)
      BY <3>1 DEF StepTo
    <3> HIDE DEF r
    <3>5. QED
      BY <3>3, <3>4, DeliversFrame
  <2>4. trail' = <<"RawDirectoryReader", "BitDepthConverter", "Debayer", "FfmpegWriter">>
        /\ payload' # None' => outcome' = "written"
    <3> SUFFICES ASSUME trail' = <<"RawDirectoryReader", "BitDepthConverter", "Debayer", "FfmpegWriter">>
                 PROVE  outcome' = "written"
      OBVIOUS
    <3>1. trail = <<"RawDirectoryReader", "BitDepthConverter", "Debayer">> /\ n = "FfmpegWriter"
      BY <1>3
    <3>2. WellFormed(payload) /\ FrameOf(payload, "Rgb", 8)
      BY <1>1, <1>6, <2>0, <3>1 DEF TwelveBitChains
    <3>3. FfmpegWriter(gpu, payload).tag = "ok"
      BY <1>5, <3>2, ChainIsWritten
    <3>4. Sink(n, FfmpegWriter(gpu, payload))
      BY <3>1 DEF StepTo
    <3>5. QED
      BY <3>3, <3>4, SinkWrites
  <2>5. trail' = <<"RawDirectoryReader", "CinemaDngWriter">> => outcome' = "written"
    <3> SUFFICES ASSUME trail' = <<"RawDirectoryReader", "CinemaDngWriter">> PROVE outcome' = "written"
      OBVIOUS
    <3>1. trail = <<"RawDirectoryReader">> /\ n = "CinemaDngWriter"
      BY <1>3
    <3>2. WellFormed(payload) /\ FrameOf(payload, "Raw", 12)
      BY <1>1, <1>6, <2>0, <3>1 DEF TwelveBitChains
    <3>3. CinemaDngWriter(gpu, payload).tag = "ok"
      BY <1>5, <3>2, ChainIsWritten
    <3>4. Sink(n, CinemaDngWriter(gpu, payload))
      BY <3>1 DEF StepTo
    <3>5. QED
      BY <3>3, <3>4, SinkWrites
  <2>6. trail' = <<"RawDirectoryReader", "CinemaDngFrameserver">> /\ payload' # None' =>
            outcome' = IF count' = Endless' THEN "panic" ELSE "written"
    <3> SUFFICES ASSUME trail' = <<"RawDirectoryReader", "CinemaDngFrameserver">>
                 PROVE  outcome' = IF count' = Endless' THEN "panic" ELSE "written"
      OBVIOUS
    <3>1. trail = <<"RawDirectoryReader">> /\ n = "CinemaDngFrameserver"
      BY <1>3
    <3>2. WellFormed(payload) /\ FrameOf(payload, "Raw", 12)
      BY <1>1, <1>6, <2>0, <3>1 DEF TwelveBitChains
    <3>3. ensure_cpu_buffer(gpu, payload, {"Raw"}).tag = "ok"
      BY <1>5, <3>2, TwelveBitsOnCpu
    <3>4. Sink(n, Frameserver(gpu, payload, count # Endless))
      BY <3>1 DEF StepTo
    <3>5. count' = count /\ Endless' = Endless
      BY <3>4 DEF Sink, Endless
    <3>6. CASE count # Endless
      <4>1. Frameserver(gpu, payload, count # Endless).tag = "ok"
        BY <3>3, <3>6 DEF Frameserver
      <4>2. QED
        BY <3>4, <3>5, <3>6, <4>1 DEF Sink
    <3>7. CASE count = Endless
      <4>1. Frameserver(gpu, payload, count # Endless).tag = "panic"
        BY <3>7 DEF Frameserver, Panic
      <4>2. QED
        BY <3>4, <3>5, <3>7, <4>1 DEF Sink
    <3>8. QED
      BY <3>6, <3>7
  <2>7. trail' = <<"RawDirectoryReader", "GpuBitDepthConverter">> => Carried("Raw", 8)'
    <3> SUFFICES ASSUME trail' = <<"RawDirectoryReader", "GpuBitDepthConverter">> PROVE Carried("Raw", 8)'
      OBVIOUS
    <3> DEFINE r == GpuBitDepthConverter(payload)
    <3>1. trail = <<"RawDirectoryReader">> /\ n = "GpuBitDepthConverter"
      BY <1>3
    <3>2. WellFormed(payload) /\ FrameOf(payload, "Raw", 12)
      BY <1>1, <1>6, <2>0, <3>1 DEF TwelveBitChains
    <3>3. r.tag = "ok" /\ FrameOf(r.value, "Raw", 8)
      BY <1>5, <3>2, ChainConverts
    <3>4. Deliver(n, r)
      BY <3>1 DEF StepTo
    <3> HIDE DEF r
    <3>5. QED
      BY <3>3, <3>4, DeliversFrame
  <2>8. trail' = <<"RawDirectoryReader", "GpuBitDepthConverter", "DebayerResolutionLoss">> =>
            Carried("Rgb", 8)'
    <3> SUFFICES ASSUME trail' = <<"RawDirectoryReader", "GpuBitDepthConverter", "DebayerResolutionLoss">>
                 PROVE  Carried("Rgb", 8)'
      OBVIOUS
    <3> DEFINE r == DebayerResolutionLoss(payload)
    <3>1. trail = <<"RawDirectoryReader", "GpuBitDepthConverter">> /\ n = "DebayerResolutionLoss"
      BY <1>3
    <3>2. WellFormed(payload) /\ FrameOf(payload, "Raw", 8)
      BY <1>1, <1>6, <2>0, <3>1 DEF TwelveBitChains
    <3>3. r.tag = "ok" /\ FrameOf(r.value, "Rgb", 8)
      BY <3>2, ChainDebayers
    <3>4. Deliver(n, r)
      BY <3>1 DEF StepTo
    <3> HIDE DEF r
    <3>5. QED
      BY <3>3, <3>4, DeliversFrame
  <2>9. trail' = <<"RawDirectoryReader", "GpuBitDepthConverter", "DebayerResolutionLoss", "Display">> =>
            outcome' = "written"
    <3> SUFFICES ASSUME trail' = <<"RawDirectoryReader", "GpuBitDepthConverter",
                                   "DebayerResolutionLoss", "Display">>
                 PROVE  outcome' = "written"
      OBVIOUS
    <3>1. trail = <<"RawDirectoryReader", "GpuBitDepthConverter", "DebayerResolutionLoss">> /\ n = "Display"
      BY <1>3
    <3>2. WellFormed(payload) /\ FrameOf(payload, "Rgb", 8)
      BY <1>1, <1>6, <2>0, <3>1 DEF TwelveBitChains
    <3>3. Display(gpu, payload).tag = "ok"
      BY <1>5, <3>2, ChainIsWritten
    <3>4. Sink(n, Display(gpu, payload))
      BY <3>1 DEF StepTo
    <3>5. QED
      BY <3>3, <3>4, SinkWrites
  <2>10. QED
    BY <2>1, <2>2, <2>3, <2>4, <2>5, <2>6, <2>7, <2>8, <2>9 DEF TwelveBitChains
<1>8. WebcamChain'
  <2> DEFINE w == interp.width
             h == interp.height
  <2>0. WebcamChain /\ (interp # None => w \in Nat /\ h \in Nat)
    BY <1>1, <1>4, RequiredBytes DEF ChainsInv
  <2>1. ~(trail' = <<"WebcamInput">>)
    BY <1>3
  <2>2. ASSUME trail' = <<"WebcamInput", "DualFrameRawDecoder">>
        PROVE  /\ interp # None /\ w * h > 0
               /\ Carried("Raw", 12)' /\ payload'.len = w * h * 6
               /\ payload'.interp.width = 2 * w /\ payload'.interp.height = 2 * h
    <3> DEFINE r(c) == DualFrameRawDecoder(gpu, payload, c)
               whole == payload.whole
               x == w * h
               l == x * 3
    <3>1. trail = <<"WebcamInput">> /\ n = "DualFrameRawDecoder"
      BY <1>3, <2>2
    <3>2. interp # None /\ x > 0 /\ payload = Frame(Rgb(w, h), "vulkan", l, whole)
      BY <1>1, <2>0, <3>1 DEF WebcamChain
    <3>0. w \in Nat /\ h \in Nat /\ x = w * h /\ l = x * 3 /\ w >= 2 /\ h >= 2
      BY <1>4, <2>0, <3>2
    <3>3. PICK c \in Patterns : Deliver(n, r(c))
      BY <3>1 DEF StepTo
    <3> DEFINE p == payload
    <3> HIDE DEF w, h, x, l, whole
    <3>7. p = Frame(Rgb(w, h), "vulkan", l, whole)
      BY <3>2
    <3> HIDE DEF p
    <3>8. Decoded(DualFrameRawDecoder(gpu, p, c), w, h, x)
      <4>1. gpu = TRUE /\ x > 0
        BY <1>5, <3>2
      <4>2. QED
        BY <4>1, <3>0, <3>7, ChainDecodes
    <3>4. r(c).tag = "ok" /\ FrameOf(r(c).value, "Raw", 12) /\ r(c).value.len = x * 6
          /\ r(c).value.interp.width = 2 * w /\ r(c).value.interp.height = 2 * h
      BY <3>8 DEF p, Decoded
    <3> HIDE DEF r
    <3>5. Carried("Raw", 12)' /\ payload' = r(c).value
      BY <3>3, <3>4, DeliversFrame
    <3>6. QED
      BY <3>2, <3>4, <3>5 DEF x
  <2>3. ASSUME Shared(interp), trail' = <<"WebcamInput", "DualFrameRawDecoder", "Average">>
        PROVE  Carried("Raw", 32)'
    <3> DEFINE r == Average(gpu, payload, NumThreads, FALSE)
    <3>1. trail = <<"WebcamInput", "DualFrameRawDecoder">> /\ n = "Average"
      BY <1>3, <2>3
    <3>2. /\ interp # None /\ w * h > 0 /\ payload.len = w * h * 6
          /\ payload.interp.width = 2 * w /\ payload.interp.height = 2 * h
          /\ Carried("Raw", 12)
      BY <2>0, <3>1 DEF WebcamChain
    <3>3. WellFormed(payload) /\ FrameOf(payload, "Raw", 12)
      BY <1>6, <3>2
    <3>4. (w * h) % (2 * NumThreads) = 0
      BY <2>3 DEF Shared
    <3>5. Deliver(n, r)
      BY <3>1 DEF StepTo
    <3> HIDE DEF w, h
    <3>6. r.tag = "ok" /\ FrameOf(r.value, "Raw", 32)
      BY <1>5, <2>0, <3>2, <3>3, <3>4, ChainAverages
    <3> HIDE DEF r
    <3>7. QED
      BY <3>5, <3>6, DeliversFrame
  <2>4. ASSUME Shared(interp), trail' = <<"WebcamInput", "DualFrameRawDecoder", "Average", "RawWriter">>
        PROVE  outcome' = "written"
    <3>1. trail = <<"WebcamInput", "DualFrameRawDecoder", "Average">> /\ n = "RawWriter"
      BY <1>3, <2>4
    <3>2. WellFormed(payload) /\ FrameOf(payload, "Raw", 32)
      BY <1>6, <2>0, <2>4, <3>1 DEF WebcamChain
    <3>3. RawWriter(gpu, payload).tag = "ok"
      BY <1>5, <3>2, ChainIsWritten
    <3>4. Sink(n, RawWriter(gpu, payload))
      BY <3>1 DEF StepTo
    <3>5. QED
      BY <3>3, <3>4, SinkWrites
  <2>5. Shared(interp') <=> Shared(interp)
    BY <1>1
  <2>8. None' = None
    BY DEF None
  <2> HIDE DEF w, h
  <2>6. w = interp'.width /\ h = interp'.height
    BY <1>1 DEF w, h
  <2>7. QED
    BY <2>1, <2>2, <2>3, <2>4, <2>5, <2>6, <2>8, <1>1 DEF WebcamChain
<1>9. QED
  BY <1>7, <1>8

LEMMA ChainsGoOnAnyStep ==
  ASSUME PipelineInv, ChainsInv, trail # <<>>, \E n : trail' = Append(trail, n) /\ StepTo(n) /\ Last' = n
  PROVE  ChainsInv'
<1>1. PICK n : trail' = Append(trail, n) /\ StepTo(n)
  OBVIOUS
<1>2. QED
  BY <1>1, ChainsGoOn

(* A chain starts with what its reader makes of its own parameters.        *)
LEMMA ReaderStartsChain ==
  ASSUME PipelineInv, NEW name, NEW r, Deliver(name, r), trail = <<>>,
         /\ name = "RawDirectoryReader" => interp # None /\ (r = Err \/ r = OnCpu(gpu, interp, TRUE))
         /\ name = "WebcamInput" =>
                /\ interp # None
                /\ r = Err \/ \E whole : r = OnCpu(gpu, Rgb(interp.width, interp.height), whole)
  PROVE  ChainsInv'
<1>1. /\ trail' = <<name>> /\ gpu' = gpu /\ interp' = interp
      /\ outcome' = "flowing" => (r.tag = "ok" /\ payload' = r.value) \/ r.tag = "flowing"
  BY DEF Deliver
<1>2. gpu \in BOOLEAN /\ (interp # None => interp \in Interps /\ interp.kind # "SZ3")
  BY DEF PipelineInv, Started
<1>3. SUFFICES ASSUME gpu, interp.width >= 2, interp.height >= 2
               PROVE  (TwelveBits(interp) => TwelveBitChains') /\ WebcamChain'
  <2>1. (TwelveBits(interp))' <=> TwelveBits(interp)
    BY <1>1
  <2>2. gpu' <=> gpu
    BY <1>1
  <2>3. QED
    BY <1>1, <2>1, <2>2 DEF ChainsInv
<1>4. gpu = TRUE
  BY <1>2, <1>3
<1> DEFINE refused == r = Err
<1>11. refused => outcome' # "flowing"
  BY <1>1 DEF Err
<1>5. ASSUME TwelveBits(interp), outcome' = "flowing", trail' = <<"RawDirectoryReader">>
      PROVE  Carried("Raw", 12)'
  <2>1. name = "RawDirectoryReader"
    BY <1>1, <1>5
  <2>2. interp.kind = "Raw" /\ interp.bit_depth = 12
    BY <1>5 DEF TwelveBits
  <2> DEFINE kind == "Raw"
             depth == 12
             whole == TRUE
  <2>3. r = OnCpu(gpu, interp, whole)
    BY <1>5, <1>11, <2>1
  <2>10. interp.kind = kind /\ interp.bit_depth = depth
    BY <2>2
  <2>12. interp # None
    BY <2>1
  <2>13. interp \in Interps /\ interp.width >= 1 /\ interp.height >= 1
    BY <1>2, <1>3, <2>12, RequiredBytes
  <2>14. required_bytes(interp) > 0
    BY <2>2, <2>13, NotEmpty
  <2> HIDE DEF whole, kind, depth
  <2>15. interp.width >= 2 /\ interp.height >= 2
    BY <1>3
  <2> DEFINE o == OnCpu(gpu, interp, whole)
  <2>16. o.tag = "ok" /\ FrameOf(o.value, kind, depth)
    BY ONLY <1>4, <2>10, <2>14, <2>15, MakesOnCpu
  <2> HIDE DEF o
  <2>4. r.tag = "ok" /\ FrameOf(r.value, kind, depth)
    <3>1. r = o
      BY <2>3 DEF o
    <3>2. QED
      BY ONLY <2>16, <3>1
  <2>11. Carried(kind, depth)'
    BY <2>4, DeliversFrame
  <2>5. QED
    BY <2>11 DEF kind, depth
<1>6. ASSUME outcome' = "flowing", trail' = <<"WebcamInput">>
      PROVE  /\ interp # None /\ interp.width * interp.height > 0
             /\ payload' = Frame(Rgb(interp.width, interp.height), "vulkan",
                                 interp.width * interp.height * 3, payload'.whole)
  <2> DEFINE w == interp.width
             h == interp.height
             i == Rgb(w, h)
  <2>1. name = "WebcamInput"
    BY <1>1, <1>6
  <2>2. PICK whole : interp # None /\ r = OnCpu(gpu, i, whole)
    BY <1>6, <1>11, <2>1
  <2>10. interp \in Interps /\ interp.kind # "SZ3"
    BY <1>2, <2>2
  <2>3. w \in Nat /\ h \in Nat
    BY <2>10, RequiredBytes
  <2>4. w * h > 0
    <3>1. w >= 2 /\ h >= 2
      BY <1>3
    <3> HIDE DEF w, h
    <3>2. w * h >= w
      BY <2>3, <3>1, Multiples
    <3>3. QED
      BY <2>3, <3>1, <3>2
  <2>5. required_bytes(i) = w * h * 3
    BY RgbFields DEF required_bytes
  <2>6. CpuPlace(gpu) = "vulkan"
    BY <1>4 DEF CpuPlace
  <2> DEFINE l == w * h * 3
  <2> HIDE DEF w, h, i, l
  <2>7. r = Ok(Frame(i, "vulkan", l, whole))
    BY <2>2, <2>5, <2>6 DEF OnCpu, l
  <2>8. payload' = Frame(i, "vulkan", l, whole)
    BY <1>1, <1>6, <2>7 DEF Ok
  <2>11. payload'.whole = whole
    BY <2>8, FrameFields
  <2>9. QED
    BY <2>2, <2>4, <2>8, <2>11 DEF w, h, i, l
<1>7. /\ \A a, b : trail' # <<a, b>>
      /\ \A a, b, c : trail' # <<a, b, c>>
      /\ \A a, b, c, d : trail' # <<a, b, c, d>>
  BY <1>1
<1>8. TwelveBits(interp) => TwelveBitChains'
  BY <1>5, <1>7 DEF TwelveBitChains
<1>9. WebcamChain'
  <2>1. outcome' = "flowing" /\ trail' = <<"WebcamInput">> =>
           /\ interp' # None' /\ interp'.width * interp'.height > 0
           /\ payload' = Frame(Rgb(interp'.width, interp'.height), "vulkan",
                               interp'.width * interp'.height * 3, payload'.whole)
    BY <1>1, <1>6 DEF None
  <2>2. QED
    BY <1>7, <2>1 DEF WebcamChain
<1>10. QED
  BY <1>8, <1>9

LEMMA ReadStartsChain ==
  ASSUME PipelineInv, Read \/ ReadDng
  PROVE  ChainsInv'
<1>1. trail = <<>>
  BY DEF Read, ReadDng
<1>2. ASSUME NEW name, NEW r, Deliver(name, r), name \notin {"RawDirectoryReader", "WebcamInput"}
      PROVE  ChainsInv'
  BY <1>1, <1>2, ReaderStartsChain
<1>3. CASE Read
  <2>1. CASE ReadBlob
    BY <1>2, <2>1 DEF ReadBlob
  <2>2. CASE ReadDirectory
    <3>1. PICK internal_loop \in BOOLEAN, n \in 0..Stored,
               len \in {required_bytes(interp) - 1, required_bytes(interp)} \cap Nat :
            Deliver("RawDirectoryReader",
                    RawDirectoryReader(gpu, interp, [k \in 1..Stored |-> len], internal_loop, n))
      BY <2>2 DEF ReadDirectory
    <3> DEFINE name == "RawDirectoryReader"
               lens == [k \in 1..Stored |-> len]
               r == RawDirectoryReader(gpu, interp, lens, internal_loop, n)
    <3>2. Deliver(name, r)
      BY <3>1
    <3>3. interp # None /\ (r = Err \/ r = OnCpu(gpu, interp, TRUE))
      <4> HIDE DEF lens
      <4>1. QED
        BY <1>3 DEF RawDirectoryReader, Read
    <3> HIDE DEF r
    <3>4. name # "WebcamInput"
      OBVIOUS
    <3>5. QED
      BY <1>1, <3>2, <3>3, <3>4, ReaderStartsChain
  <2>3. CASE ReadStream
    <3>1. PICK name \in {"TcpReader", "ZstdBlobReader"}, ends \in BOOLEAN :
            Deliver(name, StreamReader(gpu, interp, ends))
      BY <2>3 DEF ReadStream
    <3>2. QED
      BY <1>2, <3>1
  <2>4. CASE ReadWebcam
    <3>1. PICK b \in 1..4, bytesused \in 0..1 : Deliver(WebcamName(b), WebcamFrame(b, bytesused))
      BY <2>4 DEF ReadWebcam, WebcamName, WebcamFrame
    <3> DEFINE name == WebcamName(b)
               r == WebcamFrame(b, bytesused)
    <3>2. Deliver(name, r)
      BY <3>1
    <3>3. r = Err \/ \E whole : r = OnCpu(gpu, Rgb(interp.width, interp.height), whole)
      BY DEF WebcamFrame, WebcamInput
    <3>4. interp # None
      BY <1>3 DEF Read
    <3>5. name # "RawDirectoryReader"
      BY DEF WebcamName
    <3> HIDE DEF name, r
    <3>6. QED
      BY <1>1, <3>2, <3>3, <3>4, <3>5, ReaderStartsChain
  <2>5. QED
    BY <1>3, <2>1, <2>2, <2>3, <2>4 DEF Read
<1>4. CASE ReadDng
  BY <1>2, <1>4 DEF ReadDng
<1>5. QED
  BY <1>3, <1>4

(* The part of a chain that has been gone through names its nodes.         *)
LEMMA Prefixes ==
  ASSUME NEW S, NEW c \in Seq(S), Len(c) <= 4, NEW T, NEW t \in Seq(T),
         Len(t) \in 2..Len(c), t = SubSeq(c, 1, Len(t))
  PROVE  /\ t[1] = c[1] /\ t[Len(t)] = c[Len(t)]
         /\ \/ Len(t) = 2 /\ t = <<c[1], c[2]>>
            \/ Len(t) = 3 /\ t = <<c[1], c[2], c[3]>>
            \/ Len(t) = 4 /\ t = <<c[1], c[2], c[3], c[4]>>
<1> DEFINE n == Len(t)
<1>1. n \in 1..Len(c) /\ n \in 2..4
  OBVIOUS
<1> HIDE DEF n
<1>2. \A k \in 1..n : t[k] = c[k]
  BY <1>1, SubSeqProperties DEF n
<1>3. n = 2 \/ n = 3 \/ n = 4
  BY <1>1
<1>4. CASE n = 2
  <2>1. t = <<t[1], t[2]>>
    BY <1>4 DEF n
  <2>2. t[1] = c[1] /\ t[2] = c[2]
    BY <1>2, <1>4
  <2>3. QED
    BY <1>4, <2>1, <2>2 DEF n
<1>5. CASE n = 3
  <2>1. t = <<t[1], t[2], t[3]>>
    BY <1>5 DEF n
  <2>2. t[1] = c[1] /\ t[2] = c[2] /\ t[3] = c[3]
    BY <1>2, <1>5
  <2>3. QED
    BY <1>5, <2>1, <2>2 DEF n
<1>6. CASE n = 4
  <2>1. t = <<t[1], t[2], t[3], t[4]>>
    BY <1>6 DEF n
  <2>2. t[1] = c[1] /\ t[2] = c[2] /\ t[3] = c[3] /\ t[4] = c[4]
    BY <1>2, <1>6
  <2>3. QED
    BY <1>6, <2>1, <2>2 DEF n
<1>7. QED
  BY <1>3, <1>4, <1>5, <1>6

LEMMA ChainsFlow ==
  ASSUME PipelineInv, ChainsInv
  PROVE  DocumentedChainsFlow
<1> SUFFICES ASSUME NEW c \in DocumentedChains,
                    gpu, Len(trail) \in 2..Len(c), trail = SubSeq(c, 1, Len(trail)),
                    interp.width >= 2, interp.height >= 2,
                    Last \in UnwrapFirst => payload # None,
                    trail[1] = "RawDirectoryReader" => TwelveBits(interp),
                    Last \in {"Average", "RawWriter"} => Shared(interp)
             PROVE  outcome = DocumentedOutcome(c)
  BY DEF DocumentedChainsFlow
<1> DEFINE ChainNodes == {"RawDirectoryReader", "WebcamInput", "BitDepthConverter",
                          "GpuBitDepthConverter", "Debayer", "DebayerResolutionLoss", "DualFrameRawDecoder", "Average",
                          "FfmpegWriter", "CinemaDngWriter", "CinemaDngFrameserver", "Display", "RawWriter"}
<1>1. c \in Seq(ChainNodes) /\ Len(c) <= 4
  <2>1. CASE c = <<"RawDirectoryReader", "BitDepthConverter", "Debayer", "FfmpegWriter">>
    BY <2>1
  <2>2. CASE c = <<"RawDirectoryReader", "CinemaDngWriter">>
    BY <2>2
  <2>3. CASE c = <<"RawDirectoryReader", "CinemaDngFrameserver">>
    BY <2>3
  <2>4. CASE c = <<"RawDirectoryReader", "GpuBitDepthConverter", "DebayerResolutionLoss", "Display">>
    BY <2>4
  <2>5. CASE c = <<"WebcamInput", "DualFrameRawDecoder", "Average", "RawWriter">>
    BY <2>5
  <2>6. QED
    BY <2>1, <2>2, <2>3, <2>4, <2>5 DEF DocumentedChains
<1>2. trail \in Seq(Passed)
  BY DEF PipelineInv, Started
<1>3. /\ trail[1] = c[1] /\ trail[Len(trail)] = c[Len(trail)]
      /\ \/ Len(trail) = 2 /\ trail = <<c[1], c[2]>>
         \/ Len(trail) = 3 /\ trail = <<c[1], c[2], c[3]>>
         \/ Len(trail) = 4 /\ trail = <<c[1], c[2], c[3], c[4]>>
  BY <1>1, <1>2, Prefixes
<1>4. (TwelveBits(interp) => TwelveBitChains) /\ WebcamChain
  <2>1. trail # <<>>
    BY <1>3
  <2>2. QED
    BY <2>1 DEF ChainsInv
<1>11. /\ Last = c[Len(trail)] /\ (Last \in {"FfmpegWriter", "CinemaDngFrameserver"} => payload # None)
       /\ Len(trail) < Len(c) \/ Len(trail) = Len(c)
  BY <1>1, <1>3 DEF Last, UnwrapFirst
<1>12. /\ Len(trail) < Len(c) => DocumentedOutcome(c) = "flowing"
       /\ Len(trail) = Len(c) /\ Last # "CinemaDngFrameserver" => DocumentedOutcome(c) = "written"
       /\ Len(trail) = Len(c) /\ Last = "CinemaDngFrameserver" =>
              DocumentedOutcome(c) = IF count = Endless THEN "panic" ELSE "written"
  BY <1>1 DEF DocumentedOutcome
<1>5. CASE c = <<"RawDirectoryReader", "BitDepthConverter", "Debayer", "FfmpegWriter">>
  <2>1. TwelveBitChains
    BY <1>3, <1>4, <1>5
  <2>2. QED
    BY <1>3, <1>5, <1>11, <1>12, <2>1 DEF TwelveBitChains, Carried
<1>6. CASE c = <<"RawDirectoryReader", "CinemaDngWriter">>
  <2>1. TwelveBitChains
    BY <1>3, <1>4, <1>6
  <2>2. QED
    BY <1>3, <1>6, <1>11, <1>12, <2>1 DEF TwelveBitChains
<1>7. CASE c = <<"RawDirectoryReader", "CinemaDngFrameserver">>
  <2>1. TwelveBitChains
    BY <1>3, <1>4, <1>7
  <2>2. Last = "CinemaDngFrameserver" /\ Len(trail) = Len(c)
    BY <1>3, <1>7 DEF Last
  <2>3. QED
    BY <1>3, <1>7, <1>11, <1>12, <2>1, <2>2 DEF TwelveBitChains
<1>8. CASE c = <<"RawDirectoryReader", "GpuBitDepthConverter", "DebayerResolutionLoss", "Display">>
  <2>1. TwelveBitChains
    BY <1>3, <1>4, <1>8
  <2>2. QED
    BY <1>3, <1>8, <1>11, <1>12, <2>1 DEF TwelveBitChains, Carried
<1>9. CASE c = <<"WebcamInput", "DualFrameRawDecoder", "Average", "RawWriter">>
  <2>1. Len(trail) > 2 => Shared(interp)
    BY <1>3, <1>9 DEF Last
  <2>2. QED
    BY <1>3, <1>4, <1>9, <1>11, <1>12, <2>1 DEF WebcamChain, Carried
<1>10. QED
  BY <1>5, <1>6, <1>7, <1>8, <1>9 DEF DocumentedChains

(* A sink that unwraps the first of no frames, at the end of a chain.      *)
LEMMA StarvesNoChain ==
  ASSUME PipelineInv, ChainsInv, Starve
  PROVE  ChainsInv'
<1>1. PICK n \in UnwrapFirst : trail' = Append(trail, n)
  BY DEF Starve
<1>2. /\ trail # <<>> /\ payload' = None /\ None' = None /\ n \in {"FfmpegWriter", "CinemaDngFrameserver"}
  BY <1>1 DEF Starve, None, UnwrapFirst
<1>3. trail \in Seq(Passed)
  BY DEF PipelineInv, Started
<1>4. /\ \A a : trail' = <<a>> => trail = <<>>
      /\ \A a, b : trail' = <<a, b>> => trail = <<a>> /\ n = b
      /\ \A a, b, c : trail' = <<a, b, c>> => trail = <<a, b>> /\ n = c
      /\ \A a, b, c, d : trail' = <<a, b, c, d>> => trail = <<a, b, c>> /\ n = d
  <2> DEFINE S == Passed \cup {n}
  <2>1. Passed \subseteq S /\ n \in S
    OBVIOUS
  <2> HIDE DEF S
  <2>2. trail \in Seq(S)
    BY <1>3, <2>1, SeqMonotonic
  <2>3. QED
    BY <1>1, <2>1, <2>2, Grown
<1>5. /\ \A a : trail' # <<a>>
      /\ \A a, b : trail' = <<a, b>> => b \in {"FfmpegWriter", "CinemaDngFrameserver"}
      /\ \A a, b, c : trail' = <<a, b, c>> => c \in {"FfmpegWriter", "CinemaDngFrameserver"}
      /\ \A a, b, c, d : trail' = <<a, b, c, d>> => d \in {"FfmpegWriter", "CinemaDngFrameserver"}
  BY <1>2, <1>4
<1>6. TwelveBitChains'
  BY <1>2, <1>5 DEF TwelveBitChains
<1>7. WebcamChain'
  BY <1>5 DEF WebcamChain
<1>8. QED
  BY <1>6, <1>7 DEF ChainsInv

(* The chains the documentation shows: a frame of any size from two pixels *)
(* a side goes from node to node and is written by the sink, but for the   *)
(* frame server behind a reader that loops, which panics.                  *)
THEOREM DocumentedChainsWork == PipelineSpec => []DocumentedChainsFlow
<1>1. PipelineInit => ChainsInv
  BY NoChainYet DEF PipelineInit
<1>2. PipelineInv /\ ChainsInv /\ [PipelineNext]_pipelineVars => ChainsInv'
  <2> SUFFICES ASSUME PipelineInv, ChainsInv, [PipelineNext]_pipelineVars
               PROVE  ChainsInv'
    OBVIOUS
  <2>1. trail \in Seq(Passed) /\ (payload # None /\ outcome = "flowing" => trail # <<>>)
    BY DEF PipelineInv, Started, FlowingFits
  <2>2. trail' = <<>> => ChainsInv'
    BY DEF ChainsInv, TwelveBitChains, WebcamChain
  <2>3. CASE Configure
    <3>1. trail = <<>> /\ trail' = trail
      BY <2>3 DEF Configure, PipelineInv, Started
    <3>2. QED
      BY <2>2, <3>1
  <2>4. CASE Read \/ ReadDng
    BY <2>4, ReadStartsChain
  <2>5. CASE CpuStep
    <3>1. trail # <<>>
      BY <2>1, <2>5 DEF CpuStep, Flows
    <3>2. QED
      BY <2>1, <2>5, <3>1, CpuStepTo, ChainsGoOnAnyStep
  <2>6. CASE GpuStep
    <3>1. trail # <<>>
      BY <2>1, <2>6 DEF GpuStep, Flows
    <3>2. QED
      BY <2>1, <2>6, <3>1, GpuStepTo, ChainsGoOnAnyStep
  <2>7. CASE SinkStep
    <3>1. trail # <<>>
      BY <2>1, <2>7 DEF SinkStep, Sink
    <3>2. QED
      BY <2>1, <2>7, <3>1, SinkStepTo, ChainsGoOnAnyStep
  <2>8. CASE Reopen
    BY <2>2, <2>8 DEF Reopen
  <2>11. CASE RefuseCube
    BY <2>2, <2>11 DEF RefuseCube
  <2>12. CASE Starve
    BY <2>12, StarvesNoChain
  <2>9. CASE UNCHANGED pipelineVars
    <3>1. /\ gpu' = gpu /\ interp' = interp /\ trail' = trail /\ payload' = payload
          /\ count' = count /\ outcome' = outcome /\ None' = None /\ Endless' = Endless
      BY <2>9 DEF pipelineVars, None, Endless
    <3>2. (TwelveBitChains' <=> TwelveBitChains) /\ (WebcamChain' <=> WebcamChain)
      BY <3>1 DEF TwelveBitChains, WebcamChain, Carried
    <3>3. QED
      BY <3>1, <3>2 DEF ChainsInv
  <2>10. QED
    BY <2>3, <2>4, <2>5, <2>6, <2>7, <2>8, <2>9, <2>11, <2>12 DEF PipelineNext
<1>3. PipelineInv /\ ChainsInv => DocumentedChainsFlow
  BY ChainsFlow
<1>4. QED
  BY <1>1, <1>2, <1>3, PipelineInvariance, PTL DEF PipelineSpec

-----------------------------------------------------------------------------
(* The dual frame decoder.                                                 *)

(* Half frames a little apart have counters that are one apart exactly if  *)
(* they follow each other.                                                 *)
LEMMA CounterAfter ==
  ASSUME NEW S \in Nat \ {0}, NEW a \in Nat, NEW d \in Nat, d < S
  PROVE  /\ a % S \in 0..(S - 1) /\ (a + d) % S \in 0..(S - 1)
         /\ (a + d) % S = (a % S) + d \/ (a + d) % S = (a % S) + d - S
<1> DEFINE q == a \div S
           p == (a + d) \div S
<1>1. q \in Int /\ p \in Int /\ a % S \in 0..(S - 1) /\ (a + d) % S \in 0..(S - 1)
  OBVIOUS
<1>2. a % S = a - S * q /\ (a + d) % S = (a + d) - S * p
  OBVIOUS
<1>3. S * (p - q) = S * p - S * q /\ S * p \in Int /\ S * q \in Int
  BY <1>1, Multiples
<1>4. d = (S * (p - q)) + ((a + d) % S) - (a % S)
  BY <1>1, <1>2, <1>3
<1>5. p - q \in {0, 1}
  BY <1>1, <1>4, Multiples
<1>6. QED
  BY <1>1, <1>4, <1>5

LEMMA FitIsNext ==
  ASSUME NEW a \in Nat, NEW b \in Nat, b - a \in 1..(MaxGap + 1)
  PROVE  CountersFit(a, b) <=> b = a + 1
<1> DEFINE S == CtrSpan
           r == Ctr(a)
           t == Ctr(b)
           d == b - a
<1>1. S \in Nat /\ CtrStart \in Nat /\ MaxGap \in Nat /\ d \in 1..(MaxGap + 1) /\ MaxGap + 2 < S
  BY CameraAssumption
<1>2. r \in 0..(S - 1) /\ t \in 0..(S - 1) /\ (t = r + d \/ t = r + d - S)
  <2>1. a + CtrStart \in Nat /\ (a + CtrStart) + d = b + CtrStart /\ d \in Nat /\ d < S
    BY <1>1
  <2> DEFINE x == a + CtrStart
  <2>2. /\ x % S \in 0..(S - 1) /\ (x + d) % S \in 0..(S - 1)
        /\ (x + d) % S = (x % S) + d \/ (x + d) % S = (x % S) + d - S
    <3> HIDE DEF x, d, S
    <3>1. x \in Nat /\ d \in Nat /\ S \in Nat \ {0} /\ d < S
      BY <1>1, <2>1 DEF x
    <3>2. QED
      BY <3>1, CounterAfter
  <2>3. QED
    BY <2>1, <2>2 DEF Ctr
<1>3. ASSUME d = 1 PROVE CountersFit(a, b)
  <2>1. CASE t = r + d
    <3>1. r - t = -1
      BY <1>2, <1>3, <2>1
    <3>2. QED
      BY <3>1 DEF CountersFit
  <2>2. CASE t = r + d - S
    <3>1. t = 0 /\ r = S - 1
      BY <1>1, <1>2, <1>3, <2>2
    <3>2. QED
      BY <3>1 DEF CountersFit
  <2>3. QED
    BY <1>2, <2>1, <2>2
<1>4. ASSUME CountersFit(a, b) PROVE d = 1
  <2>1. CASE r - t \in {1, -1}
    BY <1>1, <1>2, <2>1
  <2>2. CASE {r, t} = {0, S - 1}
    <3>1. (r = 0 /\ t = S - 1) \/ (r = S - 1 /\ t = 0)
      BY <1>1, <2>2
    <3>2. QED
      BY <1>1, <1>2, <3>1
  <2>3. QED
    BY <1>4, <2>1, <2>2 DEF CountersFit
<1>5. QED
  BY <1>1, <1>3, <1>4

(* The read buffers tell an exposure from the one before it.               *)
LEMMA NextExposure ==
  ASSUME NEW a \in Nat
  PROVE  /\ a % 2 = 0 => Exposure(a + 1) = Exposure(a) /\ ReadBuffer(a + 1) = ReadBuffer(a)
         /\ a % 2 = 1 => ReadBuffer(a + 1) # ReadBuffer(a)
         /\ a % 2 \in {0, 1} /\ (a + 1) % 2 = 1 - (a % 2)
         /\ ReadBuffer(a) \in 0..3
<1> DEFINE e == a \div 2
<1>1. e \in Nat /\ a % 2 \in {0, 1} /\ (a + 1) % 2 = 1 - (a % 2)
  OBVIOUS
<1>2. (a % 2 = 0 => (a + 1) \div 2 = e) /\ (a % 2 = 1 => (a + 1) \div 2 = e + 1)
  OBVIOUS
<1>3. Buffers = 2 \/ Buffers = 3 \/ Buffers = 4
  BY CameraAssumption
<1>4. (e + 1) % Buffers # e % Buffers /\ e % Buffers \in 0..3
  BY <1>1, <1>3
<1>5. QED
  BY <1>1, <1>2, <1>4 DEF ReadBuffer, Exposure

-----------------------------------------------------------------------------
LEMMA InitDecoderInv == Init => DecoderInv
<1> SUFFICES ASSUME Init PROVE DecoderInv
  OBVIOUS
<1>1. /\ stage = "waiting" /\ frame = 0 /\ nextEven = 0 /\ lastBuffer = 0 /\ oldFrame = NoHalf
      /\ kept = NoHalf /\ halves = <<>> /\ sent \in FirstHalf /\ run = 0 /\ pulled = 0
      /\ last = "none"
  BY DEF Init
<1>2. Len(halves) = 0 /\ halves \in Seq(Halves \cup {NoHalf}) /\ Held = NoHalf
  BY <1>1 DEF Held
<1>3. sent \in Nat
  BY <1>1, CameraAssumption
<1>4. TypeOK /\ InputInOrder
  BY <1>1, <1>2, <1>3 DEF TypeOK, InputInOrder
<1>5. HalvesInOrder
  BY <1>1, <1>2 DEF HalvesInOrder, AllPulled
<1>6. FindsBack
  BY <1>1, <1>2 DEF FindsBack, Refusals
<1>7. QED
  BY <1>4, <1>5, <1>6 DEF DecoderInv

LEMMA HalvesAreKnown ==
  ASSUME TypeOK
  PROVE  /\ Offset \in {1, 2} /\ (Offset = 2 <=> kept = NoHalf)
         /\ Len(halves) \in 0..2 /\ (halves = <<>> <=> Len(halves) = 0)
         /\ \A i \in 1..Len(halves) : halves[i] \in Halves \cup {NoHalf}
         /\ Halves \subseteq Nat /\ NoHalf \notin Nat
<1>1. Halves \subseteq Nat /\ NoHalf \notin Nat
  BY CameraAssumption DEF Halves
<1>2. Offset \in {1, 2} /\ (Offset = 2 <=> kept = NoHalf)
  BY DEF Offset
<1>3. halves \in Seq(Halves \cup {NoHalf}) /\ Len(halves) \in 0..2
  <2>1. halves \in Seq(Halves \cup {NoHalf}) /\ Len(halves) <= 2
    BY DEF TypeOK
  <2>2. Len(halves) \in Nat
    BY <2>1
  <2>3. ASSUME NEW k \in Nat, k <= 2 PROVE k \in 0..2
    BY <2>3
  <2>4. QED
    BY <2>1, <2>2, <2>3
<1>4. halves = <<>> <=> Len(halves) = 0
  BY <1>3
<1>5. \A i \in 1..Len(halves) : halves[i] \in Halves \cup {NoHalf}
  BY <1>3
<1>6. QED
  BY <1>1, <1>2, <1>3, <1>4, <1>5

(* What is put together, and how the stream goes on from there.            *)
LEMMA PairIsOneExposure ==
  ASSUME DecoderInv, AllPulled
  PROVE  /\ Older \in Nat /\ Newer \in Halves /\ Newer \in Nat
         /\ Newer = sent - 1
         /\ IsCorrect => /\ Newer = Older + 1 /\ Newer % 2 = 1
                         /\ Exposure(Older) = Exposure(Newer)
<1>1. Newer \in Halves /\ Newer = sent - 1
  <2>1. Offset \in 1..Len(halves) /\ Len(halves) = Offset /\ halves # <<>> /\ halves[Offset] # NoHalf
    BY HalvesAreKnown DEF AllPulled, DecoderInv
  <2>2. halves[Offset] = sent - 1
    BY <2>1 DEF DecoderInv, HalvesInOrder
  <2>3. QED
    BY <2>1, <2>2, HalvesAreKnown DEF Newer, DecoderInv
<1>2. Older \in Nat
  <2>1. CASE kept = NoHalf
    BY <2>1, HalvesAreKnown DEF Older, AllPulled, DecoderInv
  <2>2. CASE kept # NoHalf
    BY <2>2, HalvesAreKnown DEF Older, DecoderInv, TypeOK
  <2>3. QED
    BY <2>1, <2>2
<1>3. Newer \in Nat
  BY <1>1, HalvesAreKnown DEF DecoderInv
<1>4. Newer - Older \in 1..(MaxGap + 1)
  BY DEF DecoderInv, HalvesInOrder
<1>5. ASSUME IsCorrect PROVE Newer = Older + 1
  BY <1>2, <1>3, <1>4, <1>5, FitIsNext DEF IsCorrect
<1>6. ASSUME IsCorrect PROVE Newer % 2 = 1 /\ Exposure(Older) = Exposure(Newer)
  <2>1. ReadBuffer(Older + 1) = ReadBuffer(Older)
    BY <1>5, <1>6 DEF IsCorrect
  <2>2. QED
    BY <1>2, <1>5, <1>6, <2>1, NextExposure
<1>7. QED
  BY <1>1, <1>2, <1>3, <1>5, <1>6

(* A pair that follows on is not refused.                                  *)
LEMMA RefusedNearLoss ==
  ASSUME DecoderInv, AllPulled, ~IsCorrect
  PROVE  run <= Refusals /\ (Newer % 2 = 0 \/ run <= Refusals - 1)
<1>1. Older \in Nat /\ Newer \in Nat /\ Newer - Older \in 1..(MaxGap + 1) /\ run \in Nat
  BY PairIsOneExposure DEF DecoderInv, HalvesInOrder, TypeOK
<1>2. Refusals \in {3, 4}
  BY DEF Refusals
<1>3. ASSUME Newer = Older + 1, Older % 2 = 0 PROVE kept = NoHalf /\ ReadBuffer(Older) = lastBuffer
  <2>1. CountersFit(Older, Newer)
    BY <1>1, <1>3, FitIsNext
  <2>2. ReadBuffer(Newer) = ReadBuffer(Older)
    BY <1>1, <1>3, NextExposure
  <2>3. QED
    BY <2>1, <2>2 DEF IsCorrect
<1>4. CASE kept = NoHalf
  <2>1. Len(halves) = 2 /\ halves[1] = Older /\ halves[2] = Newer
    BY <1>4 DEF AllPulled, Offset, Older, Newer
  <2>2. NoHalf \notin {halves[1], halves[2]}
    BY <1>1, <2>1, CameraAssumption
  <2>3. (InStep(Older) /\ Newer = Older + 1) \/ run <= Refusals - 1
    BY <1>4, <2>1, <2>2 DEF DecoderInv, FindsBack
  <2>4. ASSUME InStep(Older), Newer = Older + 1 PROVE FALSE
    <3>1. ReadBuffer(Older) = ReadBuffer(Older - 1)
      BY <1>3, <2>4 DEF InStep
    <3>2. Older - 1 \in Nat /\ (Older - 1) % 2 = 1 /\ (Older - 1) + 1 = Older
      BY <1>1, <2>4 DEF InStep
    <3>3. QED
      BY <3>1, <3>2, NextExposure
  <2>5. QED
    BY <1>1, <1>2, <2>3, <2>4
<1>5. CASE kept # NoHalf
  <2>1. Len(halves) = 1 /\ halves[1] = Newer /\ kept = Older
    BY <1>5 DEF AllPulled, Offset, Older, Newer
  <2>2. halves[1] # NoHalf
    BY <1>1, <2>1, CameraAssumption
  <2>3. \/ Older % 2 = 0 /\ Newer = Older + 1
        \/ run <= Refusals - 1
        \/ Newer % 2 = 0 /\ run <= Refusals
    BY <1>5, <2>1, <2>2 DEF DecoderInv, FindsBack
  <2>4. QED
    BY <1>1, <1>2, <1>3, <1>5, <2>3
<1>6. QED
  BY <1>4, <1>5

-----------------------------------------------------------------------------
LEMMA TurnKeepsDecoderInv ==
  ASSUME DecoderInv, Turn
  PROVE  DecoderInv'
<1>1. /\ stage = "waiting" /\ stage' = "pulling" /\ kept' = oldFrame /\ oldFrame' = NoHalf
      /\ UNCHANGED <<frame, nextEven, lastBuffer, halves, sent, run, pulled, last>>
  BY DEF Turn
<1>2. halves = <<>> /\ Len(halves) = 0
  BY <1>1 DEF DecoderInv, HalvesInOrder
<1>3. Held' = Held /\ Held = oldFrame
  BY <1>1 DEF Held
<1>4. TypeOK' /\ InputInOrder'
  BY <1>1 DEF DecoderInv, TypeOK, InputInOrder
<1>5. Offset' \in {1, 2} /\ Offset' = IF kept' = NoHalf THEN 2 ELSE 1
  BY DEF Offset
<1>6. HalvesInOrder'
  <2>1. ~AllPulled'
    BY <1>1, <1>2, <1>5 DEF AllPulled
  <2>2. QED
    BY <1>1, <1>2, <1>3, <1>5, <2>1 DEF DecoderInv, HalvesInOrder
<1>7. FindsBack'
  BY <1>1, <1>2, <1>3 DEF DecoderInv, FindsBack, InStep
<1>8. QED
  BY <1>4, <1>6, <1>7 DEF DecoderInv

(* The end of a request: what it says of the loss is left to the cases.    *)
LEMMA AdvanceKeepsOrder ==
  ASSUME DecoderInv, NEW how \in {"paired", "slipped", "failed"}, Advance(how),
         stage = "pulling", Len(halves) = Offset,
         lastBuffer' \in 0..3, oldFrame' \in Halves \cup {NoHalf},
         oldFrame' # NoHalf => oldFrame' = sent - 1
  PROVE  TypeOK' /\ InputInOrder' /\ HalvesInOrder' /\ Held' = oldFrame' /\ Len(halves') = 0
<1>1. /\ frame' = frame + 1 /\ nextEven' = nextEven + Offset /\ last' = how
      /\ stage' = "waiting" /\ halves' = <<>> /\ kept' = NoHalf
      /\ UNCHANGED <<sent, run, pulled>>
  BY DEF Advance
<1>2. Len(halves') = 0 /\ halves' \in Seq(Halves \cup {NoHalf})
  BY <1>1
<1>3. Held' = oldFrame'
  BY <1>1 DEF Held
<1>4. frame \in Nat /\ nextEven \in Nat /\ Offset \in Nat /\ sent \in Nat /\ run \in Nat /\ pulled \in Nat
  BY HalvesAreKnown DEF DecoderInv, TypeOK
<1>5. TypeOK'
  BY <1>1, <1>2, <1>4 DEF TypeOK
<1>6. InputInOrder'
  BY <1>1, <1>2, <1>4 DEF DecoderInv, InputInOrder
<1>7. HalvesInOrder'
  BY <1>1, <1>2, <1>3 DEF HalvesInOrder, AllPulled
<1>8. QED
  BY <1>2, <1>3, <1>5, <1>6, <1>7

LEMMA FailKeepsDecoderInv ==
  ASSUME DecoderInv, Fail
  PROVE  DecoderInv'
<1>1. /\ stage = "pulling" /\ Len(halves) = Offset /\ Advance("failed")
      /\ lastBuffer' = lastBuffer /\ oldFrame' = oldFrame
  BY DEF Fail
<1>2. oldFrame = NoHalf /\ lastBuffer \in 0..3
  BY <1>1 DEF DecoderInv, HalvesInOrder, TypeOK
<1>3. TypeOK' /\ InputInOrder' /\ HalvesInOrder' /\ Held' = NoHalf /\ Len(halves') = 0
  BY <1>1, <1>2, AdvanceKeepsOrder
<1>4. PICK i \in 1..Offset : halves[i] = NoHalf
  BY DEF Fail
<1>5. run' = run /\ run <= 1 /\ run \in Nat
  <2>1. CASE kept = NoHalf
    <3>1. Len(halves) = 2 /\ (i = 1 \/ i = 2)
      BY <1>1, <2>1 DEF Offset
    <3>2. NoHalf \in {halves[1], halves[2]}
      BY <1>4, <3>1
    <3>3. QED
      BY <1>1, <2>1, <3>1, <3>2 DEF DecoderInv, FindsBack, TypeOK, Advance
  <2>2. CASE kept # NoHalf
    <3>1. Len(halves) = 1 /\ i = 1
      BY <1>1, <2>2 DEF Offset
    <3>2. QED
      BY <1>1, <1>4, <2>2, <3>1 DEF DecoderInv, FindsBack, TypeOK, Advance
  <2>3. QED
    BY <2>1, <2>2
<1>6. InputFails
  BY <1>1, <1>4 DEF DecoderInv, HalvesInOrder
<1>7. FindsBack'
  BY <1>3, <1>5, <1>6 DEF FindsBack, Refusals, Advance
<1>8. QED
  BY <1>3, <1>7 DEF DecoderInv

LEMMA BufferOfAInRange ==
  ASSUME DecoderInv, AllPulled
  PROVE  BufferOfA \in 0..3
BY PairIsOneExposure, NextExposure DEF BufferOfA

LEMMA PairKeepsDecoderInv ==
  ASSUME DecoderInv, Pair
  PROVE  DecoderInv'
<1>1. /\ AllPulled /\ IsCorrect /\ stage = "pulling" /\ Len(halves) = Offset
      /\ lastBuffer' = BufferOfA /\ oldFrame' = oldFrame /\ Advance("paired")
  BY DEF Pair, AllPulled
<1>2. oldFrame = NoHalf /\ lastBuffer' \in 0..3
  BY <1>1, BufferOfAInRange DEF DecoderInv, HalvesInOrder
<1>3. TypeOK' /\ InputInOrder' /\ HalvesInOrder' /\ Held' = NoHalf /\ Len(halves') = 0
  BY <1>1, <1>2, AdvanceKeepsOrder
<1>4. Newer \in Nat /\ Newer = sent - 1 /\ Newer % 2 = 1 /\ sent \in Nat
  BY <1>1, PairIsOneExposure DEF DecoderInv, TypeOK
<1>5. sent' = sent /\ lastBuffer' = ReadBuffer(sent - 1)
  BY <1>1, <1>4 DEF Advance, BufferOfA
<1>6. sent % 2 = 0 /\ sent > 0
  BY <1>4
<1>7. InStep(sent)'
  BY <1>5, <1>6 DEF InStep, ReadBuffer, Exposure
<1>8. FindsBack'
  BY <1>3, <1>7 DEF FindsBack
<1>9. QED
  BY <1>3, <1>8 DEF DecoderInv

LEMMA SlipKeepsDecoderInv ==
  ASSUME DecoderInv, Slip
  PROVE  DecoderInv'
<1>1. /\ AllPulled /\ ~IsCorrect /\ stage = "pulling" /\ Len(halves) = Offset
      /\ lastBuffer' = BufferOfA /\ oldFrame' = Newer /\ Advance("slipped")
  BY DEF Slip, AllPulled
<1>2. Newer \in Halves /\ Newer = sent - 1 /\ Newer \in Nat /\ lastBuffer' \in 0..3
  BY <1>1, PairIsOneExposure, BufferOfAInRange
<1>3. TypeOK' /\ InputInOrder' /\ HalvesInOrder' /\ Held' = Newer /\ Len(halves') = 0
  BY <1>1, <1>2, AdvanceKeepsOrder
<1>4. Newer % 2 = 0 \/ run' <= Refusals - 1
  BY <1>1, RefusedNearLoss DEF Advance
<1>5. Newer # NoHalf
  BY <1>2, CameraAssumption
<1>6. FindsBack'
  BY <1>3, <1>4, <1>5 DEF FindsBack, Refusals
<1>7. QED
  BY <1>3, <1>6 DEF DecoderInv

(* Half h arrives, the next one or one after a gap, or a pull fails.       *)
LEMMA PullKeepsDecoderInv ==
  ASSUME DecoderInv, PullHalf
  PROVE  DecoderInv'
<1>1. /\ stage = "pulling" /\ Len(halves) < Offset /\ pulled' = pulled + 1
      /\ UNCHANGED <<stage, frame, nextEven, lastBuffer, oldFrame, kept, last>>
  BY DEF PullHalf, info
<1>2. PICK gap \in 0..MaxGap :
        /\ sent + gap <= LastHalf
        /\ sent' = sent + gap + 1
        /\ \/ /\ halves' = Append(halves, sent + gap)
              /\ run' = IF gap = 0 THEN run + 1 ELSE 1
           \/ /\ InputFails
              /\ halves' = Append(halves, NoHalf)
              /\ run' = 0
  BY DEF PullHalf
<1> DEFINE len == Len(halves)
           h == halves'[len + 1]
<1>3. /\ sent \in Nat /\ run \in Nat /\ gap \in Nat /\ gap <= MaxGap /\ MaxGap \in Nat
      /\ Offset \in {1, 2} /\ (Offset = 2 <=> kept = NoHalf) /\ len \in {0, 1} /\ len < Offset
      /\ halves \in Seq(Halves \cup {NoHalf}) /\ (halves = <<>> <=> len = 0)
      /\ kept \in Halves \cup {NoHalf} /\ oldFrame = NoHalf
      /\ Halves \subseteq Nat /\ NoHalf \notin Nat
  BY <1>1, HalvesAreKnown, CameraAssumption DEF DecoderInv, TypeOK, HalvesInOrder
<1>4. /\ sent' \in Nat /\ run' \in Nat
      /\ h = NoHalf => InputFails /\ run' = 0
      /\ h # NoHalf => /\ h = sent' - 1 /\ h = sent + gap /\ h \in Halves
                     /\ run' = IF gap = 0 THEN run + 1 ELSE 1
      /\ halves' = Append(halves, h)
  <2>1. sent + gap \in Halves /\ sent + gap \in Nat
    BY <1>2, <1>3 DEF Halves
  <2>2. CASE halves' = Append(halves, sent + gap) /\ run' = IF gap = 0 THEN run + 1 ELSE 1
    <3>1. h = sent + gap
      BY <1>3, <2>2
    <3>2. QED
      BY <1>2, <1>3, <2>1, <2>2, <3>1
  <2>3. CASE InputFails /\ halves' = Append(halves, NoHalf) /\ run' = 0
    <3>1. h = NoHalf
      BY <1>3, <2>3
    <3>2. QED
      BY <1>2, <1>3, <2>3, <3>1
  <2>4. QED
    BY <1>2, <2>2, <2>3
<1> HIDE DEF h
<1>5. /\ h \in Halves \cup {NoHalf}
      /\ halves' \in Seq(Halves \cup {NoHalf}) /\ Len(halves') = len + 1
      /\ halves'[len + 1] = h
      /\ len = 1 => halves'[1] = halves[1]
  BY <1>3, <1>4
<1>6. Held' = kept /\ Offset' = Offset
  BY <1>1 DEF Held, Offset
<1>7. Held = kept
  BY <1>1 DEF Held
<1>8. TypeOK'
  BY <1>1, <1>3, <1>4, <1>5 DEF DecoderInv, TypeOK
<1>9. InputInOrder'
  BY <1>1, <1>3, <1>5 DEF DecoderInv, InputInOrder, TypeOK
<1>10. len = 0 /\ kept # NoHalf => kept = sent - 1
  BY <1>3, <1>7 DEF DecoderInv, HalvesInOrder
<1>11. len = 1 => /\ halves[1] \in Halves \cup {NoHalf}
                 /\ (halves[1] # NoHalf => halves[1] = sent - 1)
                 /\ kept = NoHalf
  BY <1>3, HalvesAreKnown DEF DecoderInv, HalvesInOrder
<1>12. HalvesInOrder'
  <2>1. ASSUME AllPulled' PROVE (Newer - Older)' \in 1..(MaxGap + 1)
    <3>1. Newer' = h /\ h # NoHalf
      BY <1>5, <1>6, <2>1 DEF AllPulled, Newer, Offset
    <3>2. Older' = sent - 1
      <4>1. CASE len = 0
        <5>1. kept # NoHalf /\ kept' = kept
          BY <1>1, <1>3, <1>5, <1>6, <2>1, <4>1 DEF AllPulled
        <5>2. QED
          BY <1>10, <4>1, <5>1 DEF Older
      <4>2. CASE len = 1
        <5>1. kept' = NoHalf /\ halves'[1] = halves[1] /\ halves'[1] # NoHalf
          BY <1>1, <1>5, <1>6, <1>11, <2>1, <4>2 DEF AllPulled, Offset
        <5>2. QED
          BY <1>11, <4>2, <5>1 DEF Older
      <4>3. QED
        BY <1>3, <4>1, <4>2
    <3>3. h = sent + gap /\ sent \in Nat /\ gap \in 0..MaxGap
      BY <1>3, <1>4, <3>1
    <3>4. h - (sent - 1) \in 1..(MaxGap + 1)
      BY <1>3, <3>3
    <3>5. QED
      BY <3>1, <3>2, <3>4
  <2>2. \A i \in 1..Len(halves') : halves'[i] = NoHalf => InputFails
    <3> SUFFICES ASSUME NEW i \in 1..(len + 1), halves'[i] = NoHalf PROVE InputFails
      BY <1>5
    <3>1. CASE i = len + 1
      BY <1>4, <1>5, <3>1
    <3>2. CASE i # len + 1
      <4>1. len = 1 /\ i = 1
        BY <1>3, <3>2
      <4>2. QED
        BY <1>5, <4>1 DEF DecoderInv, HalvesInOrder
    <3>3. QED
      BY <3>1, <3>2
  <2>3. /\ stage' = "pulling" /\ oldFrame' = NoHalf /\ Len(halves') <= Offset'
        /\ halves' # <<>>
        /\ halves'[Len(halves')] = h
    BY <1>1, <1>3, <1>5, <1>6
  <2>4. h # NoHalf => h = sent' - 1
    BY <1>4
  <2>5. QED
    BY <2>1, <2>2, <2>3, <2>4 DEF HalvesInOrder
<1>13. FindsBack'
  <2>1. Refusals \in {3, 4} /\ Refusals' = Refusals
    BY DEF Refusals
  <2>2. \A x : InStep(x)' <=> InStep(x)
    BY <1>1 DEF InStep
  <2>3. kept' = kept /\ Len(halves') \in {1, 2} /\ halves' # <<>>
    BY <1>1, <1>3, <1>5
  <2>4. ASSUME kept = NoHalf, len = 0
        PROVE  IF h = NoHalf THEN run' = 0 ELSE InStep(h) \/ run' <= Refusals - 2
    <3>1. InStep(sent) \/ run <= Refusals - 3
      BY <1>3, <1>7, <2>4 DEF DecoderInv, FindsBack
    <3>2. QED
      BY <1>3, <1>4, <2>1, <3>1
  <2>5. ASSUME kept = NoHalf, len = 1
        PROVE  IF NoHalf \in {halves[1], h} THEN run' <= 1
               ELSE (InStep(halves[1]) /\ h = halves[1] + 1) \/ run' <= Refusals - 1
    <3>1. IF halves[1] = NoHalf THEN run = 0 ELSE InStep(halves[1]) \/ run <= Refusals - 2
      BY <2>5 DEF DecoderInv, FindsBack
    <3>2. halves[1] # NoHalf => halves[1] = sent - 1
      BY <1>11, <2>5
    <3>3. QED
      BY <1>3, <1>4, <2>1, <3>1, <3>2
  <2>6. ASSUME kept # NoHalf, len = 0
        PROVE  IF h = NoHalf THEN run' = 0
               ELSE \/ kept % 2 = 0 /\ h = kept + 1
                    \/ run' <= Refusals - 1
                    \/ h % 2 = 0 /\ run' <= Refusals
    <3>1. kept % 2 = 0 \/ run <= Refusals - 1
      BY <1>3, <1>7, <2>6 DEF DecoderInv, FindsBack
    <3>2. kept \in Nat /\ kept = sent - 1
      BY <1>3, <1>10, <2>6
    <3>3. kept % 2 = 0 \/ (kept + 1) % 2 = 0
      BY <3>2, NextExposure
    <3>4. QED
      BY <1>3, <1>4, <2>1, <3>1, <3>2, <3>3
  <2>7. CASE len = 0
    <3>1. Len(halves') = 1 /\ halves'[1] = h
      BY <1>5, <2>7
    <3>2. QED
      BY <2>1, <2>2, <2>3, <2>4, <2>6, <2>7, <3>1 DEF FindsBack
  <2>8. CASE len = 1
    <3>1. Len(halves') = 2 /\ halves'[2] = h /\ halves'[1] = halves[1] /\ kept = NoHalf
      BY <1>5, <1>11, <2>8
    <3>2. QED
      BY <2>1, <2>2, <2>3, <2>5, <2>8, <3>1 DEF FindsBack
  <2>9. QED
    BY <1>3, <2>7, <2>8
<1>14. QED
  BY <1>8, <1>9, <1>12, <1>13 DEF DecoderInv

(* The half frames in the hands of DualFrameRawDecoder::pull are those that *)
(* were pulled last, and lie no further apart than a gap allows.           *)
THEOREM DecoderInvariance == Spec => []DecoderInv
<1>1. DecoderInv /\ [Next]_vars => DecoderInv'
  <2> SUFFICES ASSUME DecoderInv, [Next]_vars PROVE DecoderInv'
    OBVIOUS
  <2>1. CASE Next
    BY <2>1, TurnKeepsDecoderInv, PullKeepsDecoderInv, FailKeepsDecoderInv, PairKeepsDecoderInv,
       SlipKeepsDecoderInv DEF Next
  <2>2. CASE UNCHANGED vars
    <3>1. UNCHANGED <<stage, frame, nextEven, lastBuffer, oldFrame, kept, halves, sent, run,
                      pulled, last>>
      BY <2>2 DEF vars, info
    <3>2. TypeOK' /\ InputInOrder' /\ FindsBack'
      BY <3>1 DEF DecoderInv, TypeOK, InputInOrder, FindsBack, InStep, Held
    <3>3. HalvesInOrder'
      BY <3>1 DEF DecoderInv, HalvesInOrder, AllPulled, Held, Newer, Older, Offset
    <3>4. QED
      BY <3>2, <3>3 DEF DecoderInv
  <2>3. QED
    BY <2>1, <2>2
<1>2. QED
  BY <1>1, InitDecoderInv, PTL DEF Spec

-----------------------------------------------------------------------------
(* What is put together are the two halves of one exposure, whatever was   *)
(* lost before: the counter alone would not tell, nor would the read       *)
(* buffer.                                                                 *)
THEOREM PairsAreExposures == Spec => []HalvesOfOneExposure
<1>1. DecoderInv => HalvesOfOneExposure
  BY PairIsOneExposure DEF HalvesOfOneExposure
<1>2. QED
  BY <1>1, DecoderInvariance, PTL

(* The numbers of the input frames are used up without gap or repetition.  *)
THEOREM InputStaysInOrder == Spec => []InputInOrder
<1>1. DecoderInv => InputInOrder
  BY DEF DecoderInv
<1>2. QED
  BY <1>1, DecoderInvariance, PTL

(* Once the stream goes on without losses, no pair is refused after three  *)
(* more half frames, four where pulls may fail.                            *)
THEOREM RefusalsEnd == Spec => []SlipsOnlyNearLoss
<1>1. DecoderInv => SlipsOnlyNearLoss
  BY RefusedNearLoss DEF SlipsOnlyNearLoss, Refusals
<1>2. QED
  BY <1>1, DecoderInvariance, PTL
=============================================================================
