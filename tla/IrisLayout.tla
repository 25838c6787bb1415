----------------------------- MODULE IrisLayout -----------------------------
(***************************************************************************)
(* The arithmetic of a frame (iris_buffer.c, iris_utils.c, iris_vdec.c):   *)
(* how many macroblocks it has, how long a line of it is, and how many     *)
(* bytes a buffer for it needs.  A frame d is a record with its width d.w  *)
(* and its height d.h; a raw format is "NV12" or "P010".                   *)
(***************************************************************************)
EXTENDS Integers, FiniteSetsExt

Codecs     == {"H264", "HEVC", "VP9"}
RawFormats == {"NV12", "P010"}

DivUp(x, n) == (x + n - 1) \div n
Align(x, n) == DivUp(x, n) * n

Frame(w, h) == [w |-> w, h |-> h]

(* NUM_MBS_PER_FRAME: macroblocks of 16 by 16.                             *)
Mbs(d) == DivUp(d.h, 16) * DivUp(d.w, 16)

(* The load of a session: the coded frame or the crop, whichever is more.  *)
Mbpf(src, crop) == Mbs(Frame(Max({src.w, crop.w}), Max({src.h, crop.h})))

-----------------------------------------------------------------------------
(* Linear pictures, as CAPTURE shows them.                                 *)

(* Mutant of RawStride: the lines of P010 keep the multiple of NV12.       *)
RawStrideNarrow(w, raw) == Align(IF raw = "P010" THEN 2 * w ELSE w, 128)

RawStride(w, raw) ==
  IF raw = "P010" THEN Align(2 * w, 256) ELSE Align(w, 128)

(* Luma lines of width bytes, and the interleaved chroma.                  *)
LinearSize(width, h) ==
  Align(Align(width, 128) * (Align(h, 32) + Align((h + 1) \div 2, 16)), 4096)

Nv12Size(d) == LinearSize(d.w, d.h)
P010Size(d) == LinearSize(2 * d.w, d.h)

OutputSize(d, raw) == IF raw = "P010" THEN P010Size(d) ELSE Nv12Size(d)

-----------------------------------------------------------------------------
(* Compressed pictures: the firmware's own buffers (DPBs).                 *)

Page(x) == Align(x, 4096)

Qc08cSize(d) ==
  LET yMeta  == Page(Align(DivUp(d.w, 32), 64) * Align(DivUp(d.h, 8), 16))
      y      == Page(Align(d.w, 128) * Align(d.h, 32))
      uvMeta == Page(Align(DivUp(d.w \div 2, 16), 64)
                     * Align(DivUp(d.h \div 2, 8), 16))
      uv     == Page(Align(d.w, 128) * Align(d.h \div 2, 32))
  IN yMeta + y + uvMeta + uv

(* Ten bits: three samples in four bytes.                                   *)
Qc10cPlanes(d, stride) ==
  LET y      == Page(stride * Align(d.h, 16))
      uv     == Page(stride * Align((d.h + 1) \div 2, 16))
      yMeta  == Page(Align(DivUp(d.w, 48), 64) * Align(DivUp(d.h, 4), 16))
      uvMeta == Page(Align(DivUp((d.w + 1) \div 2, 24), 64)
                     * Align(DivUp((d.h + 1) \div 2, 4), 16))
  IN y + uv + yMeta + uvMeta

(* Mutant of Qc10cSize: the ratio 4 / 3 computed first, in integers.       *)
Qc10cSizeRatio(d) ==
  LET stride == Align(d.w * (4 \div 3), 256)
  IN Page(Qc10cPlanes(d, stride) + Max({16384 + 8192, stride * 48}))

Qc10cSize(d) ==
  LET stride == Align((d.w * 4) \div 3, 256)
  IN Page(Qc10cPlanes(d, stride) + Max({16384 + 8192, stride * 48}))

DpbSize(d, raw) == IF raw = "P010" THEN Qc10cSize(d) ELSE Qc08cSize(d)

-----------------------------------------------------------------------------
(* The compressed stream.                                                  *)

Mbs4K == Mbs(Frame(4096, 2304))

(* A share of an uncompressed picture of the largest class; maxMbpf is     *)
(* max_mbpf of the platform.                                               *)
InputSize(mbs, codec, maxMbpf) ==
  IF mbs > Mbs4K THEN Page((maxMbpf * 384) \div 4)
  ELSE Page((Mbs4K * 384) \div (IF codec = "VP9" THEN 1 ELSE 2))

-----------------------------------------------------------------------------
(* Buffer counts: fwMin is fw_min_count, 0 until the firmware has reported *)
(* the sequence.  The raw formats are both linear, so the decoder always   *)
(* runs in split mode.                                                     *)

MinBuffers == 4
MaxFrames  == 32     \* VIDEO_MAX_FRAME

OutputMin(codec, fwMin) ==
  IF fwMin > 0 THEN (IF codec = "VP9" THEN Min({4, fwMin}) ELSE fwMin)
  ELSE (IF codec = "VP9" THEN 9 ELSE 4)

DpbCount(fwMin) == IF fwMin = 0 THEN MaxFrames ELSE fwMin
=============================================================================
