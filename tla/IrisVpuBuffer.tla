--------------------------- MODULE IrisVpuBuffer ----------------------------
(***************************************************************************)
(* How much memory a decoder session hands to the firmware for its own use *)
(* (the decoder half of iris_vpu_buffer.c).  A buffer is a sum of parts,   *)
(* each aligned for DMA; d is the coded frame.                             *)
(***************************************************************************)
EXTENDS IrisLayout

CONSTANT Pipes      \* num_vpp_pipe

ASSUME PipesAssumption == Pipes \in Nat \ {0}

Dma(x)     == Align(x, 256)
PerPipe(x) == Dma(x \div Pipes) * Pipes
Lcu(x)     == Align(x, 64) \div 16

HwPics      == 32                \* NUM_HW_PIC_BUF
Hdr10Hist   == 4096              \* HDR10_HIST_EXTRADATA_SIZE
BinMinYuv   == (1280 * 736 * 3) \div 2
VppCmdMax   == 1048576           \* VPP_CMD_MAX_SIZE

-----------------------------------------------------------------------------
(* BIN: the bitstream after entropy decoding, as headers and residuals.    *)

H264Bin(d) ==
  LET yuv == Max({BinMinYuv, (Align(d.w, 16) * Align(d.h, 16) * 3) \div 2})
  IN PerPipe(yuv) + PerPipe(yuv * 3)

H265Bin(d) ==
  LET yuv == Max({BinMinYuv, (Align(d.w, 16) * Align(d.h, 16) * 3) \div 2})
  IN PerPipe(yuv * 2) + PerPipe(yuv * 2)

(* Two frames in flight, each with half its size for headers and three     *)
(* halves for residuals.                                                   *)
Vp9Bin(d) ==
  LET yuv == Max({BinMinYuv, (Align(d.w, 16) * Align(d.h, 16) * 3) \div 2})
  IN PerPipe((yuv \div 2) * 2) + PerPipe(((yuv * 3) \div 2) * 2)

BinSize(codec, d) ==
  CASE codec = "H264" -> H264Bin(d)
    [] codec = "HEVC" -> H265Bin(d)
    [] OTHER          -> Vp9Bin(d)

-----------------------------------------------------------------------------
(* COMV: co-located motion vectors of as many frames as there can be.      *)

H264Comv(d, n) ==
  LET half == (DivUp(d.h, 16) + 1) \div 2
      wmbs == DivUp(d.w, 16)
      part(width) == Align(Align(Align(width, 16) * half, 64) * 2, 512)
  IN (part(wmbs * 128) + part(wmbs * 4) + 512) * n + 512

H265Comv(d, n) == Align(Mbs(d) * 256, 512) * n + 512

ComvSize(codec, d) ==
  CASE codec = "H264" -> H264Comv(d, MaxFrames)
    [] codec = "HEVC" -> H265Comv(d, MaxFrames)
    [] OTHER          -> 0

-----------------------------------------------------------------------------
(* PERSIST: tables that outlive a frame.                                   *)

H264Persist == Dma(512 * (256 + 32) + 3328 * 66 + HwPics * 4096)

H265Persist ==
  Dma(1024 * (80 + 20) + 48 * 3072 + (128 * 32 + 1) * 4 + HwPics * 4096)

Vp9Comv == DivUp(8192, 64) * DivUp(4320, 64) * 8 * 8 * 2 * 8

Vp9Persist ==
  Dma((32 + 4) * 3840) + Dma(Vp9Comv) + Dma(34) + Dma(3 * 128)
  + Dma(32 * 512) + Dma(32 * 6144) + Hdr10Hist

PersistSize(codec) ==
  CASE codec = "H264" -> H264Persist
    [] codec = "HEVC" -> H265Persist
    [] OTHER          -> Vp9Persist

-----------------------------------------------------------------------------
(* NON_COMV: command buffers of the two engines, and hardware pictures.    *)

H264Slices(d) == Min({DivUp(Align(d.h, 32), 16) * 48, 1800})

H264BseCmd(d) == H264Slices(d) * 128
H264VppCmd(d) == Min({H264Slices(d) * 512, VppCmdMax})

H264NonComv(d) == Dma(H264BseCmd(d)) + Dma(H264VppCmd(d)) + Dma(HwPics * 2048)

H265Slices(d) == Min({Dma(Lcu(d.w) * Lcu(d.h) * HwPics), 1200 + 1})

H265BseCmd(d) == 2 * H265Slices(d) * 64
H265VppCmd(d) == Min({2 * Align(H265Slices(d), 4) * 256, VppCmdMax})

H265NonComv(d) ==
  Dma(Dma(H265BseCmd(d)) + Dma(H265VppCmd(d)) + Dma(HwPics * 20 * 22 * 4)
      + Dma(2 * 2 * Lcu(d.w) * Lcu(d.h)) + Dma(HwPics * 2048) + Hdr10Hist)

NonComvSize(codec, d) ==
  CASE codec = "H264" -> H264NonComv(d)
    [] codec = "HEVC" -> H265NonComv(d)
    [] OTHER          -> 0

-----------------------------------------------------------------------------
(* LINE: what the filters keep of the line above and the column before.    *)

(* The write-back engine of split mode.                                    *)
VpssLine(d) ==
  LET top  == Max({Dma(DivUp(d.w, 32) * 256) + 31 * 256, 32 * Align(d.h, 8)})
      left == Align((Align(d.h, 8) \div 2) * 64, 32)
  IN 2 * top + 2 * left

H264Parts(d) ==
  [feTopData  |-> 640 * Align(d.w, 16) * 3,
   feTopCtrl  |-> 64 * DivUp(d.w, 16),
   feLeftCtrl |-> 64 * DivUp(d.h, 16),
   seTopCtrl  |-> 16 * DivUp(d.w, 16),
   seLeftCtrl |-> 16 * DivUp(d.h, 16),
   peTopData  |-> 384 * DivUp(d.w, 16),
   vspTop     |-> DivUp(d.w, 16) * 128,
   recon      |-> Align(d.h, 16) * 32,
   qp         |-> DivUp(d.w, 64) * DivUp(d.h, 64) * 128]

H264Line(d) ==
  LET p == H264Parts(d)
  IN Dma(p.feTopData) + Dma(p.feTopCtrl) + Dma(p.feLeftCtrl) * Pipes
     + Dma(p.seTopCtrl) + Dma(p.seLeftCtrl) * Pipes + Dma(p.peTopData)
     + Dma(p.vspTop) + Dma(p.recon) * 2 + Dma(p.qp)

H265Parts(d) ==
  [feTopData  |-> 640 * (Align(d.w, 64) + 8) * 2,
   feTopCtrl  |-> 64 * Lcu(d.w),
   feLeftCtrl |-> 64 * Lcu(d.h),
   seTopCtrl  |-> 128 * DivUp(d.w, 16),
   seLeftCtrl |-> ((d.h + 63) \div 8) * 16,
   peTopData  |-> 384 * DivUp(d.w, 16),
   vspTop     |-> DivUp(d.w, 64) * 128,
   vspLeft    |-> DivUp(d.h, 64) * 128,
   recon      |-> H264Parts(d).recon,
   qp         |-> H264Parts(d).qp]

H265Line(d) ==
  LET p == H265Parts(d)
  IN Dma(p.feTopData) + Dma(p.feTopCtrl) + Dma(p.feLeftCtrl) * Pipes
     + Dma(p.seLeftCtrl) * Pipes + Dma(p.seTopCtrl) + Dma(p.peTopData)
     + Dma(p.vspTop) + Dma(p.vspLeft) * Pipes + Dma(p.recon) * 4 + Dma(p.qp)

Vp9Parts(d) ==
  [feLeftCtrl |-> Max({DivUp(d.h, 16) * 64, DivUp(d.h, 32) * 64, DivUp(d.h, 64) * 64}),
   feTopCtrl  |-> (Align(d.w, 64) + 8) * 10 * 2,
   seTopCtrl  |-> DivUp(d.w, 16) * 64,
   seLeftCtrl |-> Max({DivUp(d.h, 16) * 16, DivUp(d.h, 32) * 16, DivUp(d.h, 64) * 16}),
   recon      |-> Align((Align(d.h, 8) \div 2) * 64, 32),
   feTopData  |-> (Align(d.w, 64) + 8) * 10 * 2,
   peTopData  |-> DivUp(d.w, 64) * 176,
   vspTop     |-> DivUp(d.w, 64) * 512 + 256]

Vp9Line(d) ==
  LET p == Vp9Parts(d)
  IN Dma(p.feLeftCtrl) * Pipes + Dma(p.seLeftCtrl) * Pipes + Dma(p.vspTop)
     + Dma(p.feTopCtrl) + 2 * Dma(p.recon) + Dma(p.seTopCtrl)
     + Dma(p.peTopData) + Dma(p.feTopData) + Dma(H264Parts(d).qp) + 4096

LineSize(codec, d) ==
  CASE codec = "H264" -> Dma(H264Line(d) + VpssLine(d))
    [] codec = "HEVC" -> Dma(H265Line(d) + VpssLine(d))
    [] OTHER          -> Vp9Line(d) + VpssLine(d)

-----------------------------------------------------------------------------
(* The buffers a Gen1 decoder is given: BIN, SCRATCH_1 and PERSIST at the  *)
(* start of OUTPUT, the DPBs at the start of CAPTURE.                      *)

Scratch1Size(codec, d) ==
  ComvSize(codec, d) + NonComvSize(codec, d) + LineSize(codec, d)

InternalSize(type, codec, d, raw) ==
  CASE type = "BIN"       -> BinSize(codec, d)
    [] type = "SCRATCH_1" -> Scratch1Size(codec, d)
    [] type = "PERSIST"   -> PersistSize(codec)
    [] OTHER              -> DpbSize(d, raw)

InternalTypes == {"BIN", "SCRATCH_1", "PERSIST", "DPB"}
=============================================================================
