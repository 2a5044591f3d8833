------------------------------ MODULE ScreenPort ------------------------------
(***************************************************************************)
(* Library/FrameBufferSerialPortLib: a serial port that draws what is       *)
(* written to it on the frame buffer, in pages: behind the last line of a   *)
(* page the screen is cleared and the next line is the first one.  One      *)
(* action is one call.  A glyph of SCALE_FACTOR is that many lines of       *)
(* m_MaxPosition high, so m_Position.y grows by it; columns are counted in  *)
(* glyphs.  A byte that is neither a glyph nor one of the two control       *)
(* characters that do something is ignored.                                 *)
(*                                                                          *)
(* A call is one step because Write disables the interrupts.  Behind a line *)
(* end they may be enabled again, by the value of a variable that was never *)
(* set (the garbage below, kept in interrupts), and then a call of an event *)
(* could come in between the rest of this one.  Such behaviours are not     *)
(* modelled: the properties are about calls that nothing comes in between   *)
(* of.                                                                      *)
(***************************************************************************)
EXTENDS SerialBytes, Integers, Sequences, SequencesExt

CONSTANTS
  Columns,       \* m_MaxPosition.x / SCALE_FACTOR
  MaxY,          \* m_MaxPosition.y
  Scale,         \* SCALE_FACTOR
  Glyphs, Space, \* bytes that are drawn, and one of them
  ScreenMessages, \* what a call may write
  MaxPrinted     \* bound on the calls

ASSUME ScreenAssumption ==
  /\ Columns \in Nat \ {0} /\ MaxY \in Nat /\ Scale \in Nat \ {0} /\ MaxY >= Scale
  /\ Space \in Glyphs /\ Glyphs \subseteq Bytes \ {Newline, Return}
  /\ ScreenMessages \subseteq Seq(Bytes)

VARIABLES
  initialized,  \* m_Initialized
  port,         \* position x and y, what the screen shows, whether the code
                \* loops for ever, whether interrupts are enabled, and, as
                \* history, whether a glyph on this page was drawn over
  printed,      \* number of calls so far
  log           \* history: the glyphs that were to be drawn, each with the
                \* colour of its call

screenVars == <<initialized, port, printed, log>>

Blank == <<>>
Page  == [at \in (0..MaxY) \X (0..Columns) |-> Blank]

(* Nobody clears the screen when the library starts, and what it shows then  *)
(* is not of interest.                                                       *)
ScreenInit ==
  /\ initialized = FALSE
  /\ port \in [x : {0}, y : {0}, page : {Page}, over : {FALSE}, hangs : {FALSE}, interrupts : BOOLEAN]
  /\ printed = 0 /\ log = <<>>

(* SerialPortInitialize, which does nothing the second time                  *)
ScreenInitialize ==
  /\ initialized' = TRUE
  /\ UNCHANGED <<port, printed, log>>

-----------------------------------------------------------------------------
(* FbConPutCharWithFactor                                                    *)

Fits(y) == y < MaxY - Scale

Painted(p, c, colour) ==
  LET at == <<p.y, p.x>>
  IN [p EXCEPT !.page[at] = <<c, colour>>, !.over = @ \/ p.page[at] # Blank, !.x = @ + 1]

(* Fault: the first line of the page is not cleared.                         *)
ErasedBelow(p) ==
  [p EXCEPT !.page = [at \in (0..MaxY) \X (0..Columns) |-> IF at[1] = 0 THEN p.page[at] ELSE Blank],
            !.over = FALSE, !.x = 0, !.y = 0]

(* ResetFb                                                                   *)
Erased(p) == [p EXCEPT !.page = Page, !.over = FALSE, !.x = 0, !.y = 0]

(* A line end at the end of the page clears the screen and is then taken     *)
(* again, on the new page.  A page that has no second line ends again with   *)
(* it, for ever.                                                             *)
NewLine(p) ==
  IF Fits(p.y + Scale) THEN [p EXCEPT !.x = 0, !.y = @ + Scale]
  ELSE [Erased(p) EXCEPT !.y = Scale, !.hangs = ~Fits(Scale)]

(* Fault: the glyph is drawn once, on the page that is then cleared.         *)
DrawnOnce(p, c, colour) ==
  LET q == Painted(p, c, colour)
  IN IF q.x < Columns THEN q
     ELSE IF Fits(q.y + Scale) THEN [q EXCEPT !.x = 0, !.y = @ + Scale] ELSE Erased(q)

(* A glyph that fills the last line of the page is drawn once more on the    *)
(* new one, where it may fill the line again; not a space, which would be in *)
(* the first column.                                                         *)
Drawn(p, c, colour) ==
  LET q     == Painted(p, c, colour)
      again == Painted(Erased(q), c, colour)
  IN IF q.x < Columns THEN q
     ELSE IF Fits(q.y + Scale) THEN [q EXCEPT !.x = 0, !.y = @ + Scale]
     ELSE IF c = Space THEN Erased(q)
     ELSE IF again.x < Columns THEN again
     ELSE [again EXCEPT !.x = 0, !.y = Scale, !.hangs = ~Fits(Scale)]

(* A space in the first column is left out.                                  *)
Shows(p, c) == ~p.hangs /\ c \in Glyphs /\ ~(c = Space /\ p.x = 0)

(* The '\n' path restores the interrupts from a variable that it has not     *)
(* initialised: they may be enabled.                                         *)
PutCharWithFactor(p, c, colour, garbage) ==
  IF Shows(p, c) THEN Drawn(p, c, colour)
  ELSE IF p.hangs \/ c \notin {Newline, Return} THEN p
  ELSE IF c = Return THEN [p EXCEPT !.x = 0]
  ELSE [NewLine(p) EXCEPT !.interrupts = @ \/ garbage]

-----------------------------------------------------------------------------
(* SerialPortWrite and SerialPortWriteCritical, which writes in yellow.      *)
(* Interrupts are disabled, and enabled at the end if they were before.      *)

PutLogged(st, c, colour, garbage) ==
  [port |-> PutCharWithFactor(st.port, c, colour, garbage),
   log  |-> IF Shows(st.port, c) THEN Append(st.log, <<c, colour>>) ELSE st.log]

PutAll(message, colour, garbage) ==
  FoldLeft(LAMBDA st, c : PutLogged(st, c, colour, garbage),
           [port |-> [port EXCEPT !.interrupts = FALSE], log |-> log], message)

WriteIn(message, colour, garbage) ==
  /\ printed < MaxPrinted /\ printed' = printed + 1
  /\ ~port.hangs
  /\ IF initialized
     THEN LET after == PutAll(message, colour, garbage)
          IN /\ port' = [after.port EXCEPT !.interrupts = @ \/ port.interrupts]
             /\ log' = after.log
     ELSE UNCHANGED <<port, log>>
  /\ UNCHANGED initialized

ScreenWrite(message, garbage)  == WriteIn(message, "white", garbage)
WriteCritical(message, garbage) == WriteIn(message, "yellow", garbage)

ScreenNext ==
  \/ ScreenInitialize
  \/ \E message \in ScreenMessages, garbage \in BOOLEAN :
       ScreenWrite(message, garbage) \/ WriteCritical(message, garbage)

ScreenSpec == ScreenInit /\ [][ScreenNext]_screenVars

-----------------------------------------------------------------------------
(* Properties                                                                *)

(* The glyphs on the page as they are read.                                  *)
Inked(cell) == IF cell = Blank THEN <<>> ELSE <<cell>>
OnPage(page) ==
  FlattenSeq([k \in 1..(MaxY + 1) * Columns |-> Inked(page[<<(k-1) \div Columns, (k-1) % Columns>>])])

(* What is on the screen is the end of what was printed, in order and in the *)
(* colours of its calls: nothing of an older page is among it, and a line or *)
(* a page is never begun in the wrong place.  The next glyph fits, and on a  *)
(* screen with a second line no call hangs (FbConPutCharWithFactor).         *)
ScreenShowsTheEnd ==
  /\ ~port.over => IsSuffix(OnPage(port.page), log)
  /\ MaxY > 2 * Scale =>
       ~port.hangs /\ port.x \in 0..Columns-1 /\ port.y \in 0..MaxY-Scale-1

(* A call that ends with a glyph leaves that glyph on the screen, also when  *)
(* it fills the page: this is why it is drawn again (the "goto paint").      *)
LastGlyphShows ==
  [][\A message \in ScreenMessages, garbage \in BOOLEAN :
       initialized /\ message # <<>> /\ Last(message) \in Glyphs \ {Space}
       /\ (ScreenWrite(message, garbage) \/ WriteCritical(message, garbage))
       /\ ~port'.over /\ ~port'.hangs
         => OnPage(port'.page) # <<>> /\ Last(OnPage(port'.page)) = Last(log')]_screenVars

-----------------------------------------------------------------------------
(* Claims of the source that the code does not keep                          *)

(* SerialPortWrite restores the interrupts as it found them.                 *)
InterruptsAreRestored == [][port'.interrupts = port.interrupts]_screenVars

(* Every call returns, on every screen.                                      *)
WritesReturn == ~port.hangs
=============================================================================
