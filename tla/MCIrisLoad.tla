----------------------------- MODULE MCIrisLoad ------------------------------
(* Small instances of IrisLoad for TLC.                                    *)
EXTENDS IrisLoad, TLC

CONSTANTS f1, f2

TwoFiles == {f1, f2}
Symmetry == Permutations(TwoFiles)

(* 1984 is a multiple of 64 but not of 128.  The larger one is of the 4K   *)
(* class.                                                                  *)
TwoFrames == {Frame(1984, 1088), Frame(3840, 2160)}

TwoCodecs == {"HEVC", "VP9"}
TwoRates  == {20, 120}
OneCount  == {1}
OneMin    == {6}

Upto(formats, frees, changes, stops, windows, faults) ==
  [formats |-> formats, frees |-> frees, changes |-> changes, stops |-> stops,
   windows |-> windows, faults |-> faults]

(* The limits of SM8150, each lowered until two files can meet it: 4K      *)
(* sessions, throughput, macroblocks, and sessions, of which one file has  *)
(* to be closed before the other one gets it.                              *)
Sm8150 == [sessions |-> 16, mbpf |-> 139264, instMbpf |-> 138240,
           mbps |-> 3916800, max4K |-> 3, reports |-> TRUE,
           bounds |-> Upto(2, 0, 1, 0, 0, 0)]
Platforms ==
  {[Sm8150 EXCEPT !.max4K = 1],
   [Sm8150 EXCEPT !.mbps = 2500000, !.reports = FALSE, !.bounds = Upto(2, 0, 0, 0, 1, 1)],
   [Sm8150 EXCEPT !.mbpf = 40000, !.bounds = Upto(2, 0, 0, 1, 0, 0)],
   [Sm8150 EXCEPT !.sessions = 1, !.bounds = Upto(1, 0, 1, 2, 0, 0)],
   [Sm8150 EXCEPT !.sessions = 1, !.reports = FALSE, !.bounds = Upto(2, 1, 0, 1, 0, 1)]}
=============================================================================
