--------------------------- MODULE MCConOutSplitter ---------------------------
(***************************************************************************)
(* Small instances of ConOutSplitter: graphics consoles (gfx, mode 0 is     *)
(* 90x80) and terminals (mode 0 is 80x25) with modes that overlap, are      *)
(* numbered differently, or lack mode 1.                                    *)
(***************************************************************************)
EXTENDS ConOutSplitter, TLC

CONSTANTS gfx, wide, term, slim

S80x25  == <<80, 25>>
S80x50  == <<80, 50>>
S90x80  == <<90, 80>>
S100x31 == <<100, 31>>
S128x40 == <<128, 40>>

Numbered(s) == [k \in 0..Len(s) - 1 |-> s[k + 1]]

(* Terminals of several kinds and one graphics console.                      *)
MCSizes ==
  [d \in Dev |->
     Numbered(CASE d = gfx  -> <<S90x80, S80x50, S100x31, S128x40>>
                [] d = wide -> <<S80x25, S80x50, S90x80, S128x40, S100x31>>
                [] d = term -> <<S80x25, S80x50, S100x31>>
                [] d = slim -> <<S80x25, NoSize, S128x40, S100x31>>)]

MCOrigin == {Origin}
MCCells  == {Origin, <<79, 24>>, <<99, 30>>, <<127, 39>>}

(* What the state invariants that do not look at the last call depend on.    *)
StateView == <<con, wanted, opened, dev>>
=============================================================================
