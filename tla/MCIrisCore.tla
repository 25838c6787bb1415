----------------------------- MODULE MCIrisCore -----------------------------
(* Small instances of IrisCore for TLC.                                    *)
EXTENDS IrisCore, TLC

CONSTANTS c1, c2

OneClient  == {c1}
TwoClients == {c1, c2}
Symmetry   == Permutations(TwoClients)

(* The events of each run.                                                 *)
SoloFaults    == BootFaults \cup {"wake_boot", "session", "sleep", "load"}
SessionFaults == {"session", "sleep"}
CoreErrors    == CoreFaults \cup WakeFaults \cup {"unpowered_read", "memory"}
WakePower     == {"wake_power"}

=============================================================================
