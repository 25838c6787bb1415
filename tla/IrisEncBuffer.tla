--------------------------- MODULE IrisEncBuffer ----------------------------
(***************************************************************************)
(* The encoder half of iris_vpu_buffer.c: the working memory of a session  *)
(* that encodes frames d, always with eight bits.  rc tells whether rate   *)
(* control is off or constant quality, stage2 whether the two engines      *)
(* work on different frames.                                               *)
(***************************************************************************)
EXTENDS IrisVpuBuffer, Functions

EncCodecs == {"H264", "HEVC"}

LcuSize(codec) == IF codec = "HEVC" THEN 32 ELSE 16

ColFrames == 6                                   \* HFI_MAX_COL_FRAME
Mbs720p   == Mbs(Frame(1280, 736))

-----------------------------------------------------------------------------
(* What the client's CAPTURE buffer holds, and BIN.                        *)

EncOutputSize(d, cq) ==
  LET area == Align(d.w, 32) * Align(d.h, 32)
      yuv  == (area * 3) \div 2
      size == (area * 3) \div (IF area > 4096 * 2176 THEN 8
                               ELSE IF area > 1280 * 720 THEN 4 ELSE 1)
  IN Page(IF cq /\ size < yuv THEN size * 2 ELSE size)

(* A quarter more than eight bits need: the depth may still be unknown.    *)
EncBitstream(d, rc) ==
  LET mbs   == Mbs(Frame(Align(d.w, 32), Align(d.h, 32)))
      raw   == d.w * d.h * 3
      share == IF mbs < Mbs720p THEN raw * 2
               ELSE IF mbs <= Mbs4K THEN raw \div 4 ELSE raw \div 8
  IN Page(((IF rc THEN share * 2 ELSE share) * 5) \div 4)

EncBin(codec, d, stage2, rc) ==
  LET lcu == LcuSize(codec)
      all == IF stage2 THEN Dma((Dma(EncBitstream(d, rc)) * 17) \div 10)
             ELSE Dma(Align(d.w, lcu) * Align(d.h, lcu) * 3)
      one == Dma(IF Pipes > 2 THEN all \div 2 ELSE all)
      sao == 64 * (((d.w + 32) * (d.h + 32)) \div 1024) + 384
  IN Dma(Dma(sao + one) * Pipes) * (IF stage2 THEN 3 ELSE 1) + 512

-----------------------------------------------------------------------------
(* The parts the other buffers are made of.                                *)

Lcus(codec, d) == DivUp(d.w, LcuSize(codec)) * DivUp(d.h, LcuSize(codec))

(* Lines of pipes are padded so that every pipe starts on its own boundary. *)
PipeAlign(x) == Align(x, 256 * 2 ^ (Pipes - 1))

EncLeftCtrl(codec, h) ==
  LET size == IF codec = "HEVC" THEN ((h + 32) \div 32) * 64 ELSE DivUp(h, 16) * 80
  IN Dma(IF Pipes > 1 THEN Align(size + 512, 512) * Pipes ELSE size)

EncTopCtrlFe(codec, w) ==
  Dma(IF codec = "HEVC" THEN 64 * (w \div 32) ELSE 256 + 16 * (w \div 16))

EncVpss(w, h) ==
  65536 * Pipes + 64 + (DivUp(Max({w, h}), 4) * 32 + 256) * 16

EncLineParts(codec, w, h) ==
  [ctrl       |-> 2 * Dma(w),
   data       |-> Dma(8 * w + 1024) + 2 * Dma(4 * w + 512),
   leftCtrl   |-> EncLeftCtrl(codec, h),
   leftRecon  |-> PipeAlign(2 * h + 256),
   topCtrlFe  |-> EncTopCtrlFe(codec, w),
   leftCtrlFe |-> PipeAlign(256 + 64 * (h \div 16)) * Pipes,
   metaY      |-> Dma(256 + 64 * (h \div 64)) * Pipes,
   metaUv     |-> Dma(256 + 64 * (h \div 32)) * Pipes,
   recon      |-> Dma(2 * w),
   sde        |-> Dma(256 + 16 * (w \div 16)),
   sao        |-> Dma(16 * (w \div 32))]

EncColMv(codec, d) ==
  LET n == Lcus(codec, d)
  IN Dma(IF codec = "HEVC" THEN 16 * (4 * n + 32) ELSE 48 * (n + 32)) * 2

(* weight is 11 in NON_COMV and 6 in SCRATCH_1.                            *)
EncFrameRc(codec, h, weight) ==
  LET size == weight * (256 + 16 * (14 + DivUp(h \div LcuSize(codec), 8)))
  IN Align(IF Pipes > 1 THEN Dma(size) * Pipes ELSE size, 512) * ColFrames

EncOverride(codec, d) ==
  Dma(16 * DivUp(DivUp(d.h, LcuSize(codec)) * (DivUp(d.w, LcuSize(codec)) + 8), 8)) * 2

EncIr(n) == Align(2 * n, 8) * 3

(* Slice headers, commands, the lambda table; counts and a map per LCU.    *)
EncTables(n) ==
  Dma(256 + 16 * n) + 20480 + 2048 + 4096 + 256 * 11 + Dma(256 + 4 * n)
  + Dma(256 + n \div 8)

-----------------------------------------------------------------------------
(* The buffers.                                                            *)

SumOf(parts) == FoldFunction(+, 0, parts)

EncLine(codec, d) ==
  LET w == Align(d.w, LcuSize(codec))
      h == Align(d.h, LcuSize(codec))
  IN SumOf(EncLineParts(codec, w, h)) + Dma(EncVpss(w, h))

EncComv(codec, d) ==
  EncColMv(codec, d)
  + Dma(DivUp(DivUp(d.w, 16), 8) * 32 * DivUp(d.h, 16)) * ColFrames

EncNonComv(codec, d) ==
  LET n == Lcus(codec, d)
  IN EncTables(n) + EncFrameRc(codec, Align(d.h, LcuSize(codec)), 11)
     + 32768 * 3 + EncOverride(codec, d) + Dma(EncIr(n))
     + (IF codec = "HEVC" THEN 256 ELSE 0)

EncColRc(codec, d) ==
  LET size == DivUp(DivUp(d.w, LcuSize(codec)), 8) * 32 * DivUp(d.h, LcuSize(codec))
  IN Dma(IF Pipes > 1 THEN Dma(size) * Pipes ELSE size) * ColFrames

EncStats(area, n) ==
  IF area > 4096 * 2160 THEN 0
  ELSE Dma((IF area > 1920 * 1088 THEN 160 ELSE 1024) * n + 512) * 2

(* Gen1: one buffer for what Gen2 takes as LINE, COMV and NON_COMV.        *)
EncScratch1(codec, d) ==
  LET w == Align(d.w, LcuSize(codec))
      h == Align(d.h, LcuSize(codec))
      n == Lcus(codec, d)
  IN SumOf(EncLineParts(codec, w, h)) + EncVpss(w, h) + EncColMv(codec, d)
     + EncColRc(codec, d) + EncFrameRc(codec, h, 6) + EncTables(n)
     + EncOverride(codec, d) + EncIr(n) + EncStats(w * h, n)
     + 32768 * 6 + 4096 * 4 + 16384 * 10 + 1024

(* A compressed picture of eight bits, its lines aligned to n.             *)
EncPicture(d, n) ==
  (Align(d.h, 32) + Align(d.h \div 2, 32)) * Align(d.w, n)
  + 2 * Page(Align(DivUp(d.w, 32), 64) * Align(DivUp(d.h, 8), 16))

EncVpssSize(d, scaling) == IF scaling THEN EncPicture(d, 32) ELSE 0

(* One reference picture, and three more.                                  *)
EncScratch2(d) == EncPicture(d, 128) * 4 + 4096

EncArp == 204800
=============================================================================
