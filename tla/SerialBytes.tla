----------------------------- MODULE SerialBytes -----------------------------
(* The bytes that callers of a serial port write and read: a small set, in   *)
(* which the two that the libraries treat specially are told apart.          *)
CONSTANTS
  Bytes,
  Newline,  \* '\n'
  Return    \* '\r'

ASSUME ByteAssumption == {Newline, Return} \subseteq Bytes
=============================================================================
