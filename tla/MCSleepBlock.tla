---------------------------- MODULE MCSleepBlock ----------------------------
(* SleepBlock on small instances: two connections, a handful of faults. *)
EXTENDS SleepBlock

\* Faults each layer is designed to absorb.
AbsorbedFaults == {"pmset_fail", "kernel_reset", "stall", "daemon_crash",
                   "helper_crash", "helper_term"}

\* pmset times out after it has changed the setting, and the daemon is killed.
PartialFaults == {"pmset_partial", "daemon_crash"}

\* Faults that leave the helper's record and the kernel in disagreement.
RecordFaults == {"slow_helper", "pmset_partial", "recover_fail"}

=============================================================================
