---------------------------- MODULE MCIrisPower -----------------------------
(* Small instances of IrisPower for TLC.                                   *)
EXTENDS IrisPower, TLC

CONSTANTS s1, s2

TwoSessions  == {s1, s2}
Symmetry     == Permutations(TwoSessions)
AllPlatforms == {"sm8150", "sm8250", "sm8650"}

(* Calls whose failure the unwinding handles.  Left out: a get_sync() that *)
(* fails keeps its reference; the auxiliary clock of sm8150 is given back  *)
(* without having been taken; the OPP vote of the others leaves the codec. *)
Sm8150Fails == {"icc", "reset", "bus", "axi", "ctrl", "rate", "hw_pd",
                "aux_pd", "hw_axi", "aux_axi", "hw", "vote"}
OtherFails  == {"icc", "max_ctrl", "reset", "axi", "ctrl", "max_hw", "hw",
                "hwmode", "vote"}
Unwound == ({"sm8150"} \X Sm8150Fails)
           \cup ({"sm8250", "sm8650"} \X OtherFails)
Always  == {TRUE}
SomeFreqs == 1 .. 2
SomeBws   == {1, 3}
=============================================================================
