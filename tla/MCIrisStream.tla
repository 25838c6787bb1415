---------------------------- MODULE MCIrisStream ----------------------------
(* Small instances of IrisStream for TLC.                                  *)
EXTENDS IrisStream, TLC

CONSTANTS i1, i2, o1, o2

OneInput   == {i1}
TwoInputs  == {i1, i2}
TwoOutputs == {o1, o2}
Symmetry   == Permutations(TwoOutputs)

H264    == {"H264"}
Vp9     == {"VP9"}
AllCodecs == {"H264", "VP9"}
(* A VP9 instance that restarts its CAPTURE queue is the run stream_kept.   *)
Ons  == [c \in Codecs |-> IF c = "VP9" THEN 2 ELSE 3]
Ons3 == [c \in Codecs |-> 3]

AllButCorrupt == Faults \ {"corrupt"}
AllFaults     == Faults
=============================================================================
