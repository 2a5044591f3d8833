------------------------------- MODULE UartPort -------------------------------
(***************************************************************************)
(* Library/SerialPortLib: the serial port on UART0, whose loops look at the *)
(* line status register and then touch the data register.  The library does *)
(* not set the device up and does not keep interrupts away, so a call may   *)
(* be preempted between the two by one of a higher task priority level.     *)
(* One action is one access of the loops to a register.  The UART is        *)
(* external: what is written goes through a FIFO, or through the one        *)
(* holding register (FifoDepth = 1) if nobody switched the FIFO on.         *)
(***************************************************************************)
EXTENDS SerialBytes, Naturals, FiniteSets, SequencesExt

CONSTANTS
  Levels,       \* number of task priority levels that use the port
  Readers,      \* levels that read
  Messages,     \* what a call may write
  ReadLengths,  \* NumberOfBytes of a read
  FifoDepth,    \* of the transmitter
  RxDepth,      \* of the receiver
  MaxAbove      \* bound on the calls that preempt one call

ASSUME LevelAssumption  == Levels \in Nat /\ Readers \subseteq 1..Levels
ASSUME FifoAssumption   == FifoDepth \in Nat \ {0}
ASSUME MessageAssumption == Messages \subseteq Seq(Bytes) \ {<<>>}
ASSUME LengthAssumption == ReadLengths \subseteq Nat \ {0}

VARIABLES
  op,        \* per level, the function that it is in: "none", "write", "read"
  rest,      \* Buffer from the byte on that is due next
  returned,  \* whether the '\r' before a '\n' is sent
  ready,     \* whether the last look at LSR found what the loop waits for
  left,      \* bytes that a read still has to read
  buffer,    \* what the last read stored in Buffer
  fifo,      \* bytes in the transmitter, each with the level that wrote it
  received,  \* bytes in the receiver
  carried,   \* the level of the byte that left the transmitter last, and it
  above      \* number of calls that have preempted the call so far

callVars == <<op, rest, returned, left, above>>
uartVars == <<callVars, ready, buffer, fifo, received, carried>>

Level == 1..Levels
None  == [l \in Level |-> <<>>]

UartInit ==
  /\ op = [l \in Level |-> "none"] /\ rest = None
  /\ returned = [l \in Level |-> FALSE] /\ ready = [l \in Level |-> FALSE]
  /\ left = [l \in Level |-> 0] /\ buffer = None
  /\ fifo = <<>> /\ received = <<>> /\ carried = <<>>
  /\ above = [l \in Level |-> 0]

(* A call runs while none of a higher level does; one begins at a level when *)
(* neither it nor a higher one is in a call.                                 *)
Running(l) == op[l] # "none" /\ \A k \in l+1..Levels : op[k] = "none"
Idle(l)    == \A k \in l..Levels : op[k] = "none"

(* A call begins at a level and preempts the ones below it.                  *)
Begin(l, function) ==
  /\ Idle(l)
  /\ \A k \in 1..l-1 : op[k] # "none" => above[k] < MaxAbove
  /\ op' = [op EXCEPT ![l] = function]
  /\ above' = [k \in Level |-> IF k < l /\ op[k] # "none" THEN above[k] + 1
                               ELSE IF k = l THEN 0 ELSE above[k]]

-----------------------------------------------------------------------------
(* SerialPortWrite                                                           *)

Write(l, message) ==
  /\ Begin(l, "write")
  /\ rest' = [rest EXCEPT ![l] = message]
  /\ UNCHANGED <<returned, ready, left, buffer, fifo, received, carried>>

(* Fault: the transmitter is taken for empty whatever LSR says.              *)
SeeEmptyAlways(l) ==
  /\ Running(l) /\ op[l] = "write" /\ ~ready[l]
  /\ ready' = [ready EXCEPT ![l] = TRUE]
  /\ UNCHANGED <<callVars, buffer, fifo, received, carried>>

(* Fault: the loop looks at the bit of the receiver.                         *)
SeeOtherBit(l) ==
  /\ Running(l) /\ op[l] = "write" /\ ~ready[l]
  /\ received # <<>>
  /\ ready' = [ready EXCEPT ![l] = TRUE]
  /\ UNCHANGED <<callVars, buffer, fifo, received, carried>>

(* LSR tells that the transmitter is empty; the loop ends.                   *)
SeeEmpty(l) ==
  /\ Running(l) /\ op[l] = "write" /\ ~ready[l]
  /\ fifo = <<>>
  /\ ready' = [ready EXCEPT ![l] = TRUE]
  /\ UNCHANGED <<callVars, buffer, fifo, received, carried>>

(* A byte written to a full transmitter takes the place of the last one.     *)
Transmitted(l, byte) ==
  IF Len(fifo) < FifoDepth THEN Append(fifo, <<l, byte>>)
  ELSE [fifo EXCEPT ![FifoDepth] = <<l, byte>>]

(* A '\n' is sent behind a '\r'.                                             *)
ReturnDue(l) == Head(rest[l]) = Newline /\ ~returned[l]

(* Fault: the '\n' is taken for sent with its '\r'.                          *)
SendReturnOnly(l) ==
  /\ Running(l) /\ op[l] = "write" /\ ready[l]
  /\ ready' = [ready EXCEPT ![l] = FALSE]
  /\ fifo' = Transmitted(l, IF ReturnDue(l) THEN Return ELSE Head(rest[l]))
  /\ rest' = [rest EXCEPT ![l] = Tail(@)]
  /\ op' = [op EXCEPT ![l] = IF Len(rest[l]) = 1 THEN "none" ELSE "write"]
  /\ UNCHANGED <<returned, left, above, buffer, received, carried>>

(* A byte is written to THR; the call returns behind its last one.           *)
Send(l) ==
  /\ Running(l) /\ op[l] = "write" /\ ready[l]
  /\ ready' = [ready EXCEPT ![l] = FALSE]
  /\ returned' = [returned EXCEPT ![l] = ReturnDue(l)]
  /\ fifo' = Transmitted(l, IF ReturnDue(l) THEN Return ELSE Head(rest[l]))
  /\ rest' = [rest EXCEPT ![l] = IF ReturnDue(l) THEN @ ELSE Tail(@)]
  /\ op' = [op EXCEPT ![l] = IF ~ReturnDue(l) /\ Len(rest[l]) = 1 THEN "none" ELSE "write"]
  /\ UNCHANGED <<left, above, buffer, received, carried>>

-----------------------------------------------------------------------------
(* SerialPortRead, with SerialPortPoll                                       *)

Read(l, n) ==
  /\ Begin(l, "read")
  /\ left' = [left EXCEPT ![l] = n]
  /\ buffer' = [buffer EXCEPT ![l] = <<>>]
  /\ UNCHANGED <<rest, returned, ready, fifo, received, carried>>

SeeReceived(l) ==
  /\ Running(l) /\ op[l] = "read" /\ ~ready[l]
  /\ received # <<>>
  /\ ready' = [ready EXCEPT ![l] = TRUE]
  /\ UNCHANGED <<callVars, buffer, fifo, received, carried>>

(* RBR holds the oldest byte, or, with none received, any.                   *)
InRBR == IF received = <<>> THEN Bytes ELSE {Head(received)}

(* A byte is read from RBR and stored where Buffer points to.                *)
Receive(l, byte) ==
  /\ Running(l) /\ op[l] = "read" /\ ready[l]
  /\ ready' = [ready EXCEPT ![l] = FALSE]
  /\ byte \in InRBR
  /\ buffer' = [buffer EXCEPT ![l] = <<byte>>]
  /\ received' = IF received = <<>> THEN <<>> ELSE Tail(received)
  /\ left' = [left EXCEPT ![l] = @ - 1]
  /\ op' = [op EXCEPT ![l] = IF left[l] = 1 THEN "none" ELSE "read"]
  /\ UNCHANGED <<rest, returned, above, fifo, carried>>

-----------------------------------------------------------------------------
(* The UART.  What arrives does not overrun the receiver.                    *)

Carry ==
  /\ fifo # <<>>
  /\ carried' = Head(fifo) /\ fifo' = Tail(fifo)
  /\ UNCHANGED <<callVars, ready, buffer, received>>

Arrive(byte) ==
  /\ Len(received) < RxDepth
  /\ received' = Append(received, byte)
  /\ UNCHANGED <<callVars, ready, buffer, fifo, carried>>

Step(l) == SeeEmpty(l) \/ Send(l) \/ SeeReceived(l) \/ \E byte \in InRBR : Receive(l, byte)

UartNext ==
  \/ Carry
  \/ \E l \in Level : Step(l)
  \/ \E l \in Level, message \in Messages : Write(l, message)
  \/ \E l \in Readers, n \in ReadLengths : Read(l, n)
  \/ \E byte \in Bytes : Arrive(byte)

UartSpec == UartInit /\ [][UartNext]_uartVars

(* The processor runs the call in progress, and the line carries bytes.      *)
UartFairness == WF_uartVars(Carry) /\ \A l \in Level : WF_uartVars(Step(l))

-----------------------------------------------------------------------------
(* Properties                                                                *)

(* Types; a level that is in no call waits for nothing.                      *)
UartTypeOK ==
  /\ op \in [Level -> {"none", "write", "read"}]
  /\ ready \in [Level -> BOOLEAN] /\ returned \in [Level -> BOOLEAN]
  /\ rest \in [Level -> Seq(Bytes)] /\ left \in [Level -> Nat]
  /\ fifo \in Seq(Level \X Bytes)
  /\ \A l \in Level : (ready[l] => op[l] # "none") /\ (op[l] = "write" => rest[l] # <<>>)
  /\ \A l \in Level : op[l] = "read" => left[l] > 0

(* Whoever saw the transmitter empty finds room in it when it writes,        *)
(* however many calls wrote in between: a FIFO with a place for each level   *)
(* is enough (SerialPortWrite).                                              *)
RoomWhenReady ==
  FifoDepth >= Levels =>
    \A l \in Level : op[l] = "write" /\ ready[l] => Len(fifo) < FifoDepth

(* What the line is to carry of a message: '\r' before each '\n'.            *)
Expanded(message) ==
  FlattenSeq([i \in DOMAIN message |-> IF message[i] = Newline THEN <<Return, Newline>> ELSE <<message[i]>>])

(* What the line owes a level: its bytes in the transmitter, and the rest of *)
(* its call.                                                                 *)
Owed(l) ==
  LET own == FlattenSeq([i \in DOMAIN fifo |->
                           IF fifo[i][1] = l THEN <<fifo[i][2]>> ELSE <<>>])
      due == Expanded(rest[l])
  IN own \o (IF returned[l] THEN Tail(due) ELSE due)

Line == INSTANCE SerialLine WITH
  Callers <- Level, Texts <- {Expanded(message) : message \in Messages}, Arriving <- Bytes,
  owed <- [l \in Level |-> Owed(l)], waiting <- received, filled <- buffer

(* The port keeps the promise of a serial port: of what each level writes    *)
(* nothing is lost, doubled or reordered on the line, and what arrives is    *)
(* read once and in order (SerialPortWrite, SerialPortRead).                 *)
KeepsThePromise == Line!LineSpec

(* Every Write returns, also one that is preempted, as long as no read of a  *)
(* higher level waits for a byte (the wait for LSR in SerialPortWrite).      *)
WriteReturns == \A l \in Level : op[l] = "write" ~> op[l] = "none"
=============================================================================
