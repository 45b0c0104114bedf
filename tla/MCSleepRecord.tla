---------------------------- MODULE MCSleepRecord ----------------------------
(* SleepRecord by itself, for what wake.go says of a stalled loop. *)
EXTENDS SleepRecord

MCSpec == SleepRecordInit /\ [][SleepRecordNext]_sleepRecordVars
=============================================================================
