---------------------------- MODULE MCRecordTrace ----------------------------
(* RecordTrace for TLC: all three ways to record, a few signals and faults. *)
EXTENDS RecordTrace
=============================================================================
