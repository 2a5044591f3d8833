------------------------------- MODULE RingPort -------------------------------
(***************************************************************************)
(* Library/InMemorySerialPortLib: a serial port that writes into a region   *)
(* of memory, which is used as a ring.  The region is at one fixed address; *)
(* the offset of the next byte is a static variable, so each image that the *)
(* library is linked into has one of its own.  Initialize clears the region *)
(* and leaves the offset alone.  Write is a loop of mem_putchar, Read and   *)
(* Poll do nothing.                                                         *)
(*                                                                          *)
(* Nothing keeps interrupts away: a call may be preempted by one of a       *)
(* higher task priority level between any two accesses.  One action is one  *)
(* access to the region or to the offset.  The compiler is free to store    *)
(* the byte before or after the offset, and to compare with the size what   *)
(* it has in a register or what is in memory.                               *)
(***************************************************************************)
EXTENDS SerialBytes, Naturals, Sequences

CONSTANTS
  Images,
  Printers,      \* number of task priority levels that use the port
  RingMessages,  \* what a call may write
  Size,          \* of the region, 0x200000
  Zero           \* the byte 0, which Initialize writes

ASSUME SizeAssumption     == Size \in Nat \ {0}
ASSUME PrinterAssumption  == Printers \in Nat \ {0}
ASSUME PrintsAssumption   == RingMessages \subseteq Seq(Bytes)

Printer == 1..Printers
Cell    == 0..Size-1

(* The region, and the bytes behind it that calls which preempt each other   *)
(* can get to.                                                               *)
Memory == 0..Size+Printers-2

VARIABLES
  base,      \* what the memory holds
  offset,    \* per image
  image,     \* per level, the image whose function runs there
  printing,  \* per level, the bytes that its Write has yet to print
  phase,     \* per level, how far its mem_putchar is with the offset, or
             \* "clear" in Initialize
  stored,    \* per level, whether its mem_putchar has stored the byte
  index,     \* per level, the place in the region it works at
  torn,      \* history: per level, whether another call came in between the
             \* accesses of its mem_putchar or Initialize, or that one in
             \* between another's
  latest,    \* history: the image that used the region last
  used       \* history: how many bytes of the region hold the log

ringVars == <<base, offset, image, printing, phase, stored, index, torn, latest, used>>

RingInit ==
  /\ base = [p \in Memory |-> Zero] /\ offset = [i \in Images |-> 0]
  /\ latest \in Images /\ image = [l \in Printer |-> latest]
  /\ printing = [l \in Printer |-> <<>>]
  /\ phase = [l \in Printer |-> "none"] /\ stored = [l \in Printer |-> FALSE]
  /\ index = [l \in Printer |-> 0] /\ torn = [l \in Printer |-> FALSE]
  /\ used = 0

(* A level is in the middle of a mem_putchar or of Initialize.               *)
Busy(l) == phase[l] # "none"

(* No call of a higher level runs; none of this one either.                  *)
Turn(l) == \A k \in l+1..Printers : ~Busy(k) /\ printing[k] = <<>>
Free(l) == Turn(l) /\ ~Busy(l) /\ printing[l] = <<>>

InBetween(l) == \E k \in 1..l-1 : Busy(k)

Enter(l, function, place) ==
  /\ phase' = [phase EXCEPT ![l] = function]
  /\ index' = [index EXCEPT ![l] = place]
  /\ torn' = [k \in Printer |->
                torn[k] \/ (k < l /\ Busy(k)) \/ (k = l /\ InBetween(l))]
  /\ UNCHANGED stored

Leave(l) ==
  /\ phase' = [phase EXCEPT ![l] = "none"]
  /\ stored' = [stored EXCEPT ![l] = FALSE]
  /\ index' = [index EXCEPT ![l] = 0]
  /\ torn' = [torn EXCEPT ![l] = FALSE]

-----------------------------------------------------------------------------
(* SerialPortInitialize, a loop that clears a byte at a time                 *)

Initialize(l, i) ==
  /\ Free(l)
  /\ Enter(l, "clear", 0)
  /\ image' = [image EXCEPT ![l] = i] /\ latest' = i
  /\ used' = 0
  /\ UNCHANGED <<base, offset, printing>>

ClearByte(l) ==
  /\ Turn(l) /\ phase[l] = "clear"
  /\ base' = [base EXCEPT ![index[l]] = Zero]
  /\ IF index[l] + 1 < Size
     THEN index' = [index EXCEPT ![l] = @ + 1] /\ UNCHANGED <<phase, stored, torn>>
     ELSE Leave(l)
  /\ UNCHANGED <<offset, image, printing, latest, used>>

-----------------------------------------------------------------------------
(* SerialPortWrite, a loop of mem_putchar                                    *)

PrintCall(l, i, message) ==
  /\ Free(l)
  /\ printing' = [printing EXCEPT ![l] = message]
  /\ image' = [image EXCEPT ![l] = i]
  /\ UNCHANGED <<base, offset, phase, stored, index, torn, latest, used>>

(* mem_putchar reads the offset.                                             *)
MemPutChar(l) ==
  /\ Turn(l) /\ ~Busy(l) /\ printing[l] # <<>>
  /\ Enter(l, "read", offset[image[l]])
  /\ latest' = image[l]
  /\ used' = IF InBetween(l) THEN 0 ELSE used
  /\ UNCHANGED <<base, offset, image, printing>>

(* The byte is printed when it is stored and the offset of the next is set.  *)
Printed(l) == Leave(l) /\ printing' = [printing EXCEPT ![l] = Tail(@)]

(* base[...] = c                                                             *)
StoreByte(l) ==
  /\ Turn(l) /\ phase[l] \in {"read", "moved", "wrapped"} /\ ~stored[l]
  /\ base' = [base EXCEPT ![index[l]] = Head(printing[l])]
  /\ used' = IF torn[l] THEN used ELSE IF used < Size THEN used + 1 ELSE Size
  /\ IF phase[l] = "wrapped" THEN Printed(l)
     ELSE stored' = [stored EXCEPT ![l] = TRUE] /\ UNCHANGED <<phase, index, torn, printing>>
  /\ UNCHANGED <<offset, image, latest>>

(* offset++                                                                  *)
Advance(l) ==
  /\ Turn(l) /\ phase[l] = "read"
  /\ offset' = [offset EXCEPT ![image[l]] = index[l] + 1]
  /\ phase' = [phase EXCEPT ![l] = "moved"]
  /\ UNCHANGED <<base, image, printing, stored, index, torn, latest, used>>

AfterWrap(l) ==
  IF stored[l] THEN Printed(l)
  ELSE phase' = [phase EXCEPT ![l] = "wrapped"] /\ UNCHANGED <<stored, index, torn, printing>>

(* Fault: the offset wraps one byte behind the region.                       *)
WrapLate(l) ==
  /\ Turn(l) /\ phase[l] = "moved"
  /\ \E seen \in {index[l] + 1, offset[image[l]]} :
       offset' = [offset EXCEPT ![image[l]] = IF seen > Size THEN 0 ELSE @]
  /\ AfterWrap(l)
  /\ UNCHANGED <<base, image, latest, used>>

(* if (offset >= size) offset = 0                                            *)
Wrap(l) ==
  /\ Turn(l) /\ phase[l] = "moved"
  /\ \E seen \in {index[l] + 1, offset[image[l]]} :
       offset' = [offset EXCEPT ![image[l]] = IF seen >= Size THEN 0 ELSE @]
  /\ AfterWrap(l)
  /\ UNCHANGED <<base, image, latest, used>>

RingNext ==
  \/ \E l \in Printer, i \in Images : Initialize(l, i)
  \/ \E l \in Printer, i \in Images, message \in RingMessages : PrintCall(l, i, message)
  \/ \E l \in Printer :
       ClearByte(l) \/ MemPutChar(l) \/ StoreByte(l) \/ Advance(l) \/ Wrap(l)

RingSpec == RingInit /\ [][RingNext]_ringVars

-----------------------------------------------------------------------------
(* Properties                                                                *)

(* Types; a level in a mem_putchar has a byte to print.                      *)
RingTypeOK ==
  /\ base \in [Memory -> Bytes \cup {Zero}]
  /\ offset \in [Images -> Nat] /\ image \in [Printer -> Images]
  /\ printing \in [Printer -> Seq(Bytes)]
  /\ phase \in [Printer -> {"none", "clear", "read", "moved", "wrapped"}]
  /\ stored \in [Printer -> BOOLEAN]
  /\ index \in [Printer -> Memory] /\ torn \in [Printer -> BOOLEAN]
  /\ latest \in Images /\ used \in 0..Size
  /\ \A l \in Printer : phase[l] \in {"read", "moved", "wrapped"} => printing[l] # <<>>

(* A byte that nothing has come in between of: it is in the log as soon as   *)
(* it is stored.                                                             *)
Whole(l)      == phase[l] \in {"read", "moved", "wrapped"} /\ ~torn[l]
CellBehind(p) == IF p + 1 >= Size THEN 0 ELSE p + 1
Place ==
  IF \E l \in Printer : Whole(l)
  THEN LET l == CHOOSE l \in Printer : Whole(l)
       IN IF stored[l] THEN CellBehind(index[l]) ELSE index[l]
  ELSE offset[latest]

(* The cell that was written k bytes ago, counted from the image that wrote  *)
(* last.                                                                     *)
Ago(k) == IF k <= Place THEN Place - k ELSE Place + Size - k

(* The log that a reader of the region finds who knows where the writer is.  *)
Shown == [n \in 1..used |-> base[Ago(used + 1 - n)]]

Rolling == INSTANCE RollingLog WITH log <- Shown

(* The region holds the last Size bytes that were written since it was       *)
(* cleared, wherever in it the writer stood then: the library keeps what     *)
(* SerialPortWrite says it does with the bytes.  A call that comes in        *)
(* between the accesses of another's mem_putchar or Initialize ruins the     *)
(* log; when both are over, a new one is kept.                               *)
KeepsTheLog == Rolling!LogSpec

-----------------------------------------------------------------------------
(* Claims of the source that the code does not keep                          *)

(* The region that Initialize clears is all the memory that the library      *)
(* writes to.  (False with two levels: the offset that a preempting call     *)
(* reads may be the size.)                                                   *)
StaysInRegion == [][\A p \in Memory \ Cell : base'[p] = base[p]]_ringVars

(* "Writes NumberOfBytes data bytes from Buffer to the serial device": no    *)
(* print takes the place of a byte that is yet to be stored.  (False with    *)
(* two levels.)                                                              *)
EveryByteIsKept ==
  \A k, l \in Printer :
    k < l /\ {phase[k], phase[l]} \subseteq {"read", "moved", "wrapped"} /\ ~stored[k]
      => index[k] # index[l]
=============================================================================
