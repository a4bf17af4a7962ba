------------------------------- MODULE MC_Wal -------------------------------
(* Instances of the write-ahead log for TLC.                               *)
EXTENDS Wal

CONSTANTS p1, p2, p3, p4

MCPayload == {p1, p2, p3, p4}
=============================================================================
