---------------------------- MODULE MCInhibitor ----------------------------
(* Inhibitor on a small instance: room for five children at a time.         *)
EXTENDS Inhibitor

CONSTANTS g1, g2, g3, g4, g5

=============================================================================
