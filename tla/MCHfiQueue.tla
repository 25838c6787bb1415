----------------------------- MODULE MCHfiQueue -----------------------------
(* Small instances of HfiQueue for TLC.                                    *)
EXTENDS HfiQueue

CONSTANTS h1, h2

Hosts   == {h1, h2}
Short   == {2, 3}
UpTo4   == {2, 3, 4}
Nobody  == {}
Session == {h1}

=============================================================================
