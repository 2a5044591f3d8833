------------------------------ MODULE SerialLine ------------------------------
(***************************************************************************)
(* What a serial port promises its callers, whatever lies between them and  *)
(* the line: the bytes of each caller go onto the line in the order in      *)
(* which it wrote them, each once, and what arrives is handed out in the    *)
(* order of arrival, each byte once and behind the ones that the same call  *)
(* read before it.                                                          *)
(***************************************************************************)
EXTENDS Sequences

CONSTANTS
  Callers,
  Texts,    \* what a caller may write, as it is to appear on the line
  Arriving  \* bytes that may arrive

VARIABLES
  owed,     \* per caller, what it wrote and the line has not carried yet
  carried,  \* the caller of the byte that the line carried last, and the byte
  waiting,  \* bytes that arrived and no call has read
  filled    \* per caller, what its last Read has put into its buffer

lineVars == <<owed, carried, waiting, filled>>

LineInit ==
  /\ owed = [c \in Callers |-> <<>>] /\ carried = <<>>
  /\ waiting = <<>> /\ filled = [c \in Callers |-> <<>>]

(* SerialPortWrite: "Writes NumberOfBytes data bytes from Buffer to the      *)
(* serial device."                                                           *)
Write(c, text) ==
  /\ owed' = [owed EXCEPT ![c] = @ \o text]
  /\ UNCHANGED <<carried, waiting, filled>>

Carry(c) ==
  /\ owed[c] # <<>>
  /\ carried' = <<c, Head(owed[c])>>
  /\ owed' = [owed EXCEPT ![c] = Tail(@)]
  /\ UNCHANGED <<waiting, filled>>

Arrive(byte) ==
  /\ waiting' = Append(waiting, byte)
  /\ UNCHANGED <<owed, carried, filled>>

(* SerialPortRead: "Reads NumberOfBytes data bytes from a serial device into *)
(* the buffer specified by Buffer."                                          *)
Read(c) ==
  /\ filled' = [filled EXCEPT ![c] = <<>>]
  /\ UNCHANGED <<owed, carried, waiting>>

Fill(c) ==
  /\ waiting # <<>>
  /\ filled' = [filled EXCEPT ![c] = Append(@, Head(waiting))]
  /\ waiting' = Tail(waiting)
  /\ UNCHANGED <<owed, carried>>

LineNext ==
  \/ \E c \in Callers : Carry(c) \/ Read(c) \/ Fill(c)
  \/ \E c \in Callers, text \in Texts : Write(c, text)
  \/ \E byte \in Arriving : Arrive(byte)

LineSpec == LineInit /\ [][LineNext]_lineVars
=============================================================================
