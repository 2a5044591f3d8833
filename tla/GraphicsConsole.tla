--------------------------- MODULE GraphicsConsole ---------------------------
(***************************************************************************)
(* Drivers/GraphicsConsoleDxe on one graphics output: a text console drawn  *)
(* on a screen.  One action is one call of the driver binding or of         *)
(* SimpleTextOutput, run to its end at TPL_NOTIFY; the steps of a call are  *)
(* operators on the console record                                          *)
(*   modes, res, gopMode   ModeData: text modes, their resolution and mode  *)
(*                         of the graphics output                           *)
(*   mode, cursor, attr, visible   SimpleTextOutputMode                     *)
(*   lineBuffer   none, live, or freed while the pointer still has it       *)
(*   gop          the graphics output's mode in force (external)            *)
(*   text         what the cells of the text window show                    *)
(*   marks        the cursor glyphs on the screen: the glyph is drawn and   *)
(*                erased by one XOR with the foreground colour              *)
(* The graphics output and the font are external: a Blt or a string outside *)
(* the screen draws nothing, SetMode may be refused and clears the screen.  *)
(* UGA Draw, which Start tries on a handle without a graphics output, is    *)
(* left out: nothing in the package produces it.                            *)
(***************************************************************************)
EXTENDS GraphicsModes, FiniteSets

CONSTANTS
  Resolutions,  \* what PcdVideoHorizontalResolution and its pair may ask for
  AskedSizes,   \* what PcdConOutColumn and PcdConOutRow may ask for
  Strings,      \* strings clients print
  Attributes,   \* attributes clients set
  MaxLoose      \* bound on the calls made while the screen is not the console's

ASSUME AskedAssumption ==
  Resolutions \subseteq Nat \X Nat /\ AskedSizes \subseteq Nat \X Nat
ASSUME AttributeAssumption == Attributes \subseteq 0..255
ASSUME StringAssumption == \A str \in Strings : str \in Seq(STRING)

VARIABLES
  started,   \* whether the driver manages the graphics output
  con,       \* GRAPHICS_CONSOLE_DEV and what is on the screen
  loose,     \* history: 0 while the screen holds what the console drew on it
             \* since it last cleared it; else how many calls ago it did not
  ret        \* history: the last call and its status

vars == <<started, con, loose, ret>>

Controls == {"BACKSPACE", "LINEFEED", "CARRIAGE_RETURN", "WIDE_CHAR", "NARROW_CHAR"}
Origin    == <<0, 0>>
LightGray == 7
Foreground(a) == a % 16

Size(c)    == IF c.mode = -1 THEN NoSize ELSE c.modes[c.mode + 1]
Columns(c) == Size(c)[1]
Rows(c)    == Size(c)[2]
Cells(c)   == (0..Columns(c) - 1) \X (0..Rows(c) - 1)
Filled(c, what) == [cell \in Cells(c) |-> what]

(* Whether a Blt to a block of cells lies on the screen.                     *)
OnScreen(c, cell, block) ==
  LET pixel  == CellPixel(cell, Size(c), c.res)
      screen == ResolutionOf(c.gop)
  IN \A i \in 1..2 : pixel[i] + block[i] * Glyph[i] <= screen[i]

(* Whether the screen is as large as the console takes it to be.             *)
OwnScreen(c) == ResolutionOf(c.gop) = c.res

(* mGraphicsConsoleDevTemplate                                               *)
Stopped(gop) ==
  [modes |-> <<>>, res |-> NoSize, gopMode |-> 0, mode |-> -1, cursor |-> Origin,
   attr |-> LightGray, visible |-> FALSE, lineBuffer |-> "none",
   gop |-> gop, text |-> <<>>, marks |-> {}]

Init ==
  /\ started = FALSE
  /\ con = Stopped(0)
  /\ loose = 0
  /\ ret = [op |-> "Init", status |-> "SUCCESS"]

-----------------------------------------------------------------------------
(* Drawing                                                                   *)

(* FlushCursor: draws the cursor, or erases it if it is drawn.  Black XORs   *)
(* nothing.                                                                  *)
FlushCursor(c) ==
  IF ~c.visible \/ Foreground(c.attr) = 0 \/ ~OnScreen(c, c.cursor, <<1, 1>>) THEN c
  ELSE [c EXCEPT !.marks = SymDiff(@, {<<c.cursor, Foreground(c.attr)>>})]

(* DrawUnicodeWeightAtCursorN of one character that takes n cells.           *)
Draw(c, ch, n, draws) ==
  LET block == {<<c.cursor[1] + k, c.cursor[2]>> : k \in 0..n - 1}
  IN IF ~draws \/ ~OnScreen(c, c.cursor, <<n, 1>>) THEN c
     ELSE [c EXCEPT !.text  = [cell \in DOMAIN @ |-> IF cell \in block THEN ch ELSE @[cell]],
                    !.marks = {m \in @ : m[1] \notin block}]

(* Fault: the last row is not blanked.                                       *)
ScrollKeepsRow(c) ==
  IF ~OnScreen(c, <<0, Rows(c) - 1>>, <<Columns(c), 1>>) THEN c
  ELSE [c EXCEPT !.text = [cell \in DOMAIN @ |->
          IF cell[2] < Rows(c) - 1 THEN @[<<cell[1], cell[2] + 1>>] ELSE @[cell]]]

(* The screen moves up by one row, cursor glyphs in the window included, and *)
(* the last row is filled with the background.                               *)
Scroll(c) ==
  IF ~OnScreen(c, <<0, Rows(c) - 1>>, <<Columns(c), 1>>) THEN c
  ELSE [c EXCEPT
    !.text  = [cell \in DOMAIN @ |->
                 IF cell[2] < Rows(c) - 1 THEN @[<<cell[1], cell[2] + 1>>] ELSE " "],
    !.marks = {m \in @ : m[1][1] >= Columns(c)} \cup
              {<<<<m[1][1], m[1][2] - 1>>, m[2]>> :
                 m \in {k \in @ : k[1][1] < Columns(c) /\ k[1][2] > 0}}]

-----------------------------------------------------------------------------
(* GraphicsConsoleConOutOutputString.  It calls itself for mCrLfString and   *)
(* SpaceStr, so each of the two is an operator; a run of characters that is  *)
(* drawn in one go is drawn one by one.                                      *)

CarriageReturn(c) == [c EXCEPT !.cursor[1] = 0]
LineFeed(c) == IF c.cursor[2] = Rows(c) - 1 THEN Scroll(c) ELSE [c EXCEPT !.cursor[2] = @ + 1]
CrLfString(c) == FlushCursor(LineFeed(CarriageReturn(FlushCursor(c))))

(* Fault: the cursor that the inner call has drawn is not erased.            *)
WrapKeepsCursor(c) == IF c.cursor[1] >= Columns(c) THEN CrLfString(FlushCursor(c)) ELSE c

Wrap(c) == IF c.cursor[1] >= Columns(c) THEN FlushCursor(CrLfString(FlushCursor(c))) ELSE c

PutNarrow(c, ch, draws) == Wrap([Draw(c, ch, 1, draws) EXCEPT !.cursor[1] = @ + 1])
SpaceStr(c, draws) == FlushCursor(PutNarrow(FlushCursor(c), " ", draws))

(* A wide character that has only the last column left goes to the next row, *)
(* after a space.                                                            *)
PutWide(c, ch, draws) ==
  LET at == IF c.cursor[1] + 1 < Columns(c) THEN c ELSE Wrap(SpaceStr(c, draws))
  IN Wrap([Draw(at, ch, 2, draws) EXCEPT !.cursor[1] = @ + 2])

(* Fault: the cursor moves back before the space is printed, not after.      *)
BackspaceOnce(c, draws) ==
  LET before == IF c.cursor[1] > 0 THEN <<c.cursor[1] - 1, c.cursor[2]>>
                                   ELSE <<Columns(c) - 1, c.cursor[2] - 1>>
  IN IF c.cursor = Origin THEN c ELSE FlushCursor(SpaceStr([c EXCEPT !.cursor = before], draws))

(* A backspace prints a space in the cell before and moves back again.       *)
Backspace(c, draws) ==
  LET before == IF c.cursor[1] > 0 THEN <<c.cursor[1] - 1, c.cursor[2]>>
                                   ELSE <<Columns(c) - 1, c.cursor[2] - 1>>
  IN IF c.cursor = Origin THEN c
     ELSE [FlushCursor(SpaceStr([c EXCEPT !.cursor = before], draws)) EXCEPT !.cursor = before]

(* One character of a string; wide is EFI_WIDE_ATTRIBUTE.                    *)
Put(c, wide, ch, draws) ==
  CASE ch = "BACKSPACE"       -> [con |-> Backspace(c, draws), wide |-> wide]
    [] ch = "LINEFEED"        -> [con |-> LineFeed(c), wide |-> wide]
    [] ch = "CARRIAGE_RETURN" -> [con |-> CarriageReturn(c), wide |-> wide]
    [] ch = "WIDE_CHAR"       -> [con |-> c, wide |-> TRUE]
    [] ch = "NARROW_CHAR"     -> [con |-> c, wide |-> FALSE]
    [] OTHER -> [con |-> IF wide THEN PutWide(c, ch, draws) ELSE PutNarrow(c, ch, draws), wide |-> wide]

OutputStringFn(c, str, draws) ==
  FlushCursor(FoldLeft(LAMBDA st, ch : Put(st.con, st.wide, ch, draws),
                       [con |-> FlushCursor(c), wide |-> FALSE], str).con)

-----------------------------------------------------------------------------
(* The other functions of SimpleTextOutput                                   *)

(* A fill of the console's resolution clears a screen that has it.           *)
ClearScreenFn(c) ==
  LET fits  == FitsIn(c.res, ResolutionOf(c.gop))
      clear == IF fits THEN [c EXCEPT !.text = Filled(c, " "), !.marks = {}] ELSE c
  IN [con |-> FlushCursor([clear EXCEPT !.cursor = Origin]),
      status |-> IF fits THEN "SUCCESS" ELSE "DEVICE_ERROR"]

SetAttributeFn(c, a) == IF a = c.attr THEN c ELSE FlushCursor([FlushCursor(c) EXCEPT !.attr = a])

(* The screen is cleared, by the graphics output or by a fill, and the mode  *)
(* is committed.                                                             *)
Committed(c, n) ==
  LET moved == [c EXCEPT !.gop = c.gopMode, !.mode = n, !.cursor = Origin]
  IN FlushCursor([moved EXCEPT !.text = Filled(moved, " "), !.marks = {}])

(* SetMode: a mode in force is only cleared.  Otherwise the cursor is erased *)
(* and the line buffer freed before the new one is allocated and the         *)
(* graphics mode is set, and neither is taken back if these fail.            *)
SetModeFn(c, n, alloc, accepts) ==
  LET erased == IF c.lineBuffer = "none" THEN c ELSE [FlushCursor(c) EXCEPT !.lineBuffer = "freed"]
      ready  == [erased EXCEPT !.lineBuffer = "live"]
  IN IF n >= Len(c.modes) \/ c.modes[n + 1] = NoSize THEN [con |-> c, status |-> "UNSUPPORTED"]
     ELSE IF c.lineBuffer # "none" /\ n = c.mode
     THEN [con |-> ClearScreenFn(c).con, status |-> "SUCCESS"]
     ELSE IF ~alloc THEN [con |-> erased, status |-> "OUT_OF_RESOURCES"]
     ELSE IF c.gop # c.gopMode /\ ~accepts THEN [con |-> ready, status |-> "DEVICE_ERROR"]
     ELSE [con |-> Committed(ready, n), status |-> "SUCCESS"]

-----------------------------------------------------------------------------
(* Actions                                                                   *)

(* A call that ends with the console c.  clears: the screen is the console's *)
(* from now on; disturbs: it no longer is.                                   *)
Call(op, c, status, clears, disturbs) ==
  /\ con' = c
  /\ ret' = [op |-> op, status |-> status]
  /\ loose' = CASE clears -> 0
                [] status # "UNSUPPORTED" /\ (loose > 0 \/ disturbs) -> loose + 1
                [] OTHER -> loose
  /\ loose' <= MaxLoose
  /\ UNCHANGED started

(* GraphicsConsoleControllerDriverStart.  refused: the modes the graphics    *)
(* output does not accept.                                                   *)
Start(asked, size, refused) ==
  LET g     == Chosen(asked, con.gop, refused)
      modes == TextModes(g.res)
      new   == [Stopped(g.gop) EXCEPT !.modes = modes, !.res = g.res, !.gopMode = g.mode,
                                      !.mode = PreferMode(modes, size)]
  IN /\ ~started /\ g.ok
     /\ FitsIn(MinSize, MaxSize(g.res))
     /\ started' = TRUE
     /\ con' = [new EXCEPT !.text = Filled(new, "stale")]
     /\ loose' = 1
     /\ ret' = [op |-> "Start", status |-> "SUCCESS"]

(* No memory, no graphics mode, or the protocol could not be installed.      *)
StartFails(asked, refused) ==
  /\ ~started
  /\ \E gop \in {con.gop, Chosen(asked, con.gop, refused).gop} : con' = Stopped(gop)
  /\ ret' = [op |-> "Start", status |-> "ERROR"]
  /\ UNCHANGED <<started, loose>>

(* GraphicsConsoleControllerDriverStop.  Freeing a line buffer that SetMode   *)
(* freed before, here or in SetMode, harms others and not this console.      *)
Stop ==
  /\ started
  /\ started' = FALSE
  /\ con' = Stopped(con.gop)
  /\ loose' = 0
  /\ ret' = [op |-> "Stop", status |-> "SUCCESS"]

(* Another program sets the graphics mode.                                   *)
OtherSetsGraphicsMode(n) ==
  /\ n # con.gop
  /\ Call("GopSetMode", [con EXCEPT !.gop = n, !.marks = {},
                           !.text = [cell \in DOMAIN @ |-> " "]], "SUCCESS", FALSE, started)

SetMode(n, alloc, accepts) ==
  LET r == SetModeFn(con, n, alloc, accepts)
  IN /\ started
     /\ Call("SetMode", r.con, r.status, r.status = "SUCCESS" /\ OwnScreen(r.con),
             r.status \in {"OUT_OF_RESOURCES", "DEVICE_ERROR"})

(* GraphicsConsoleConOutReset: mode 0, on a black background.                *)
Reset(alloc, accepts) ==
  LET r == SetModeFn(con, 0, alloc, accepts)
      c == IF r.status = "SUCCESS" THEN SetAttributeFn(r.con, Foreground(r.con.attr)) ELSE r.con
  IN /\ started
     /\ Call("Reset", c, r.status, r.status = "SUCCESS" /\ OwnScreen(c),
             r.status \in {"OUT_OF_RESOURCES", "DEVICE_ERROR"})

OutputString(str, draws) ==
  /\ started
  /\ IF con.mode = -1 THEN Call("OutputString", con, "UNSUPPORTED", FALSE, FALSE)
     ELSE Call("OutputString", OutputStringFn(con, str, draws),
               IF draws THEN "SUCCESS" ELSE "WARN_UNKNOWN_GLYPH", FALSE, ~draws)

SetAttribute(a) ==
  /\ started
  /\ IF a > 127 THEN Call("SetAttribute", con, "UNSUPPORTED", FALSE, FALSE)
     ELSE Call("SetAttribute", SetAttributeFn(con, a), "SUCCESS", FALSE, FALSE)

ClearScreen ==
  LET r == ClearScreenFn(con)
  IN /\ started
     /\ IF con.mode = -1 THEN Call("ClearScreen", con, "UNSUPPORTED", FALSE, FALSE)
        ELSE Call("ClearScreen", r.con, r.status, OwnScreen(con), FALSE)

SetCursorPosition(cell) ==
  LET moved == [FlushCursor(con) EXCEPT !.cursor = cell]
  IN /\ started
     /\ IF con.mode = -1 \/ cell \notin Cells(con)
        THEN Call("SetCursorPosition", con, "UNSUPPORTED", FALSE, FALSE)
        ELSE Call("SetCursorPosition", IF cell = con.cursor THEN con ELSE FlushCursor(moved),
                  "SUCCESS", FALSE, FALSE)

EnableCursor(visible) ==
  /\ started
  /\ IF con.mode = -1 THEN Call("EnableCursor", con, "UNSUPPORTED", FALSE, FALSE)
     ELSE Call("EnableCursor", FlushCursor([FlushCursor(con) EXCEPT !.visible = visible]),
               "SUCCESS", FALSE, FALSE)

Refusals == SUBSET GopNumbers

Next ==
  \/ \E asked \in Resolutions, size \in AskedSizes, refused \in Refusals : Start(asked, size, refused)
  \/ \E asked \in Resolutions, refused \in Refusals : StartFails(asked, refused)
  \/ Stop
  \/ \E n \in GopNumbers : OtherSetsGraphicsMode(n)
  \/ \E n \in 0..Len(con.modes), alloc, accepts \in BOOLEAN : SetMode(n, alloc, accepts)
  \/ \E alloc, accepts \in BOOLEAN : Reset(alloc, accepts)
  \/ \E str \in Strings, draws \in BOOLEAN : OutputString(str, draws)
  \/ \E a \in Attributes : SetAttribute(a)
  \/ ClearScreen
  \/ \E cell \in Cells(con) \cup {Size(con)} : SetCursorPosition(cell)
  \/ \E visible \in BOOLEAN : EnableCursor(visible)

Spec == Init /\ [][Next]_vars

-----------------------------------------------------------------------------
(* Properties                                                                *)

(* The mode list: the full screen is offered, every mode other than mode 0   *)
(* fits the screen, and no size is listed twice                              *)
(* (InitializeGraphicsConsoleTextMode).                                      *)
ModesAreUsable ==
  started =>
    LET max == MaxSize(con.res)
    IN /\ HasZero(max) \/ max \in ToSet(con.modes)
       /\ \A i \in 2..Len(con.modes) : FitsIn(con.modes[i], max)
       /\ \A i, j \in 1..Len(con.modes) :
            con.modes[i] = con.modes[j] /\ con.modes[i] # NoSize => i = j

(* A console starts on the screen that its text modes were computed for: the *)
(* searches of DriverStart agree on a graphics mode and its resolution,      *)
(* whatever is asked for and whatever the output refuses.                    *)
StartsOnItsScreen ==
  [][~started /\ started' => OwnScreen(con') /\ ResolutionOf(con'.gopMode) = con'.res]_vars

(* The cursor is in the text window, and what is drawn of it is one glyph at *)
(* its cell if it is visible, and nothing otherwise.  Each function must     *)
(* toggle it an even number of times, in the colour and the cell in which it *)
(* was drawn (FlushCursor).                                                  *)
CursorShown ==
  /\ started /\ con.mode # -1 => con.cursor \in Cells(con)
  /\ started /\ loose = 0 => con.marks = IF con.visible /\ Foreground(con.attr) # 0 /\ OnScreen(con, con.cursor, <<1, 1>>)
                THEN {<<con.cursor, Foreground(con.attr)>>} ELSE {}

(* Consoles whose text window is on the screen, on which text can be read.   *)
Readable == started /\ con.mode # -1 /\ OnScreen(con, Origin, Size(con))

(* The window as one row of cells.                                           *)
Length == Columns(con) * Rows(con)
Place(cell) == cell[2] * Columns(con) + cell[1]
CellAt(k)   == <<k % Columns(con), k \div Columns(con)>>

(* Printing characters is writing on paper, of which the window shows the    *)
(* last rows: what was above the cursor and what was printed stay together,  *)
(* whatever wraps and scrolls (OutputString).                                *)
PrintsAsOnPaper ==
  Readable =>
    \A str \in {s \in Strings : ToSet(s) \cap Controls = {}} :
      LET after   == OutputStringFn(con, str, TRUE)
          end     == Place(con.cursor) + Len(str)
          above   == end \div Columns(con) - (Rows(con) - 1)
          shift   == IF above > 0 THEN above * Columns(con) ELSE 0
          paper   == [k \in 0..Length + shift - 1 |->
                        IF k \in Place(con.cursor)..end - 1 THEN str[k - Place(con.cursor) + 1]
                        ELSE IF k < Length THEN con.text[CellAt(k)] ELSE " "]
      IN /\ Place(after.cursor) = end - shift
         /\ \A k \in 0..Length - 1 : after.text[CellAt(k)] = paper[k + shift]

(* A backspace after a character leaves the cursor at the character's cell,  *)
(* which is blank, also when the character filled its row (OutputString).    *)
BackspaceErases ==
  Readable /\ con.cursor # <<Columns(con) - 1, Rows(con) - 1>> =>
    LET after == OutputStringFn(con, <<"x", "BACKSPACE">>, TRUE)
    IN after.cursor = con.cursor /\ after.text = [con.text EXCEPT ![con.cursor] = " "]

-----------------------------------------------------------------------------
(* Claims of the source's comments that the code does not keep               *)

(* "Here we make sure that the final mode exposed [...] does not include the *)
(* invalid modes which exceed the max column and row."                       *)
EveryModeFits == started => \A i \in 1..Len(con.modes) : FitsIn(con.modes[i], MaxSize(con.res))

(* "The new line buffer could not be allocated, so return an error.  No      *)
(* changes to the state of the current console have been made".              *)
OutOfResourcesChangesNothing ==
  [][ret'.op = "SetMode" /\ ret'.status = "OUT_OF_RESOURCES" => con' = con]_vars
=============================================================================
