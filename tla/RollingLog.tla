------------------------------ MODULE RollingLog ------------------------------
(***************************************************************************)
(* What a log in a bounded memory promises: it holds the last Size bytes    *)
(* that were written since it was cleared, in the order of writing.         *)
(***************************************************************************)
EXTENDS Naturals, Sequences

CONSTANTS Size, Bytes

VARIABLE log

LogInit == log = <<>>

Clear == log' = <<>>

Put(byte) == log' = Append(IF Len(log) < Size THEN log ELSE Tail(log), byte)

LogNext == Clear \/ \E byte \in Bytes : Put(byte)

LogSpec == LogInit /\ [][LogNext]_log
=============================================================================
