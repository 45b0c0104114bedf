--------------------------- MODULE MCWakeSchedule ---------------------------
(* WakeSchedule on a small instance: one job with two fires ahead, whose     *)
(* scheduler may report a next run of its own.                               *)
EXTENDS WakeSchedule

CONSTANT j1

TwoFires == [j \in Job |-> {2, 3}]

=============================================================================
