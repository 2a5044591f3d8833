---------------------------- MODULE GraphicsModes ----------------------------
(***************************************************************************)
(* The pure part of Drivers/GraphicsConsoleDxe: which graphics mode the     *)
(* console chooses when it starts, which text modes it offers on a screen   *)
(* of that resolution, and where on the screen a text mode lies.  Sizes and *)
(* resolutions are pairs <<columns, rows>>, <<width, height>>.  Modes are   *)
(* numbered from 0, so that mode m is element m + 1 of its list.            *)
(***************************************************************************)
EXTENDS Integers, Sequences, SequencesExt

CONSTANTS
  Glyph,        \* <<EFI_GLYPH_WIDTH, EFI_GLYPH_HEIGHT>>, 8 by 19
  Mode0,        \* the size of mode 0, 90 by 80
  Mode1,        \* the size of mode 1, 80 by 50
  MinSize,      \* what the ASSERT requires of a screen, 80 by 25
  Predefined,   \* the sizes of mGraphicsConsoleModeData but the last
  Fallback,     \* 800 by 600
  GopModes,     \* the resolutions of the graphics output's modes
  Word          \* 2^64

ASSUME GlyphAssumption == Glyph \in (Nat \ {0}) \X (Nat \ {0})
ASSUME GopAssumption   == GopModes \in Seq(Nat \X Nat) /\ GopModes # <<>>
ASSUME WordAssumption  == Word \in Nat \ {0}
ASSUME SizeAssumption  ==
  /\ {Mode0, Mode1, MinSize} \subseteq Nat \X Nat /\ Predefined \in Seq(Nat \X Nat)
  /\ Mode0 # Mode1
  /\ \A size \in {Mode0, Mode1, MinSize} \cup ToSet(Predefined) : size[1] >= 2 /\ size[2] >= 1

(* Screens and sizes are far from overflow.                                  *)
ASSUME RoomAssumption ==
  /\ \A size \in {Mode0, Mode1} \cup ToSet(Predefined), i \in 1..2 : 4 * (size[i] * Glyph[i]) <= Word
  /\ \A k \in 1..Len(GopModes), i \in 1..2 : 4 * GopModes[k][i] <= Word

NoSize == <<0, 0>>
HasZero(size)   == size[1] = 0 \/ size[2] = 0
FitsIn(a, b)    == a[1] <= b[1] /\ a[2] <= b[2]
MaxSize(res)    == <<res[1] \div Glyph[1], res[2] \div Glyph[2]>>
GopNumbers      == 0..Len(GopModes) - 1
ResolutionOf(n) == GopModes[n + 1]

-----------------------------------------------------------------------------
(* Fault: a size that is listed already is listed again.                     *)
OfferTwice(list, size, max) == IF HasZero(size) \/ ~FitsIn(size, max) THEN list ELSE Append(list, size)

(* A size is offered if the screen holds it and it is not listed yet.        *)
Offer(list, size, max) ==
  IF HasZero(size) \/ ~FitsIn(size, max) \/ size \in ToSet(list) THEN list ELSE Append(list, size)

(* InitializeGraphicsConsoleTextMode: modes 0 and 1, whether or not the      *)
(* screen holds mode 0, then the predefined sizes and the full screen.       *)
TextModes(res) ==
  LET max == MaxSize(res)
  IN FoldLeft(LAMBDA list, size : Offer(list, size, max),
              <<Mode0, IF FitsIn(Mode1, max) THEN Mode1 ELSE NoSize>>,
              Append(Predefined, max))

(* Mode n if it is wider and higher than the one taken before it, or if none *)
(* was.                                                                      *)
Larger(modes, best, n) ==
  LET size == modes[n + 1]
      old  == IF best = -1 THEN NoSize ELSE modes[best + 1]
  IN IF size[1] > old[1] /\ size[2] > old[2] THEN n ELSE best

(* The mode a console starts in, -1 for none: the one of the size that       *)
(* PcdConOutColumn and PcdConOutRow ask for or, if they ask for none, the    *)
(* last of the larger and larger ones.                                       *)
PreferMode(modes, asked) ==
  IF HasZero(asked)
  THEN FoldLeft(LAMBDA best, n : Larger(modes, best, n), -1, [k \in 1..Len(modes) |-> k - 1])
  ELSE SelectInSeq(modes, LAMBDA size : size = asked) - 1

-----------------------------------------------------------------------------
(* CheckModeSupported: the first mode with that resolution; unless the       *)
(* screen has the resolution, the first of them that the output accepts.     *)
CheckModeSupported(res, gop, refused) ==
  LET alike  == {n \in GopNumbers : ResolutionOf(n) = res}
      usable == IF ResolutionOf(gop) = res THEN alike ELSE alike \ refused
  IN IF usable = {} THEN [ok |-> FALSE, mode |-> Len(GopModes), gop |-> gop]
     ELSE LET n == Min(usable)
          IN [ok |-> TRUE, mode |-> n, gop |-> IF ResolutionOf(gop) = res THEN gop ELSE n]

Higher(best, n) ==
  LET r == ResolutionOf(n)
  IN IF r[1] > best.res[1] \/ (r[1] = best.res[1] /\ r[2] > best.res[2])
     THEN [res |-> r, mode |-> n] ELSE best

(* The search for the highest resolution begins with the asked-for one, one  *)
(* side of which is zero.                                                    *)
Highest(asked) == FoldLeft(Higher, [res |-> asked, mode |-> 0], [k \in 1..Len(GopModes) |-> k - 1])

(* Fault: without a mode of 800 by 600 the resolution is taken to be that.  *)
FallbackAssumed(gop, refused) ==
  LET f == CheckModeSupported(Fallback, gop, refused)
  IN [ok |-> TRUE, set |-> f.ok, res |-> Fallback, mode |-> IF f.ok THEN f.mode ELSE gop, gop |-> f.gop]

(* 800 by 600 or, without such a mode, the graphics mode in force.           *)
FallbackMode(gop, refused) ==
  LET f == CheckModeSupported(Fallback, gop, refused)
  IN IF f.ok THEN [ok |-> TRUE, set |-> TRUE, res |-> Fallback, mode |-> f.mode, gop |-> f.gop]
     ELSE [ok |-> TRUE, set |-> FALSE, res |-> ResolutionOf(gop), mode |-> gop, gop |-> gop]

(* The graphics mode that Start wants: the highest if no resolution is asked *)
(* for, else that one or the fallback.  set tells that a search succeeded.   *)
Wanted(asked, gop, refused) ==
  IF HasZero(asked)
  THEN LET h == Highest(asked)
       IN [ok |-> ~HasZero(h.res), set |-> TRUE, res |-> h.res, mode |-> h.mode, gop |-> gop]
  ELSE LET c == CheckModeSupported(asked, gop, refused)
       IN IF c.ok THEN [ok |-> TRUE, set |-> TRUE, res |-> asked, mode |-> c.mode, gop |-> c.gop]
          ELSE FallbackMode(gop, refused)

(* And sets it, unless it was found and is in force.                         *)
Chosen(asked, gop, refused) ==
  LET w == Wanted(asked, gop, refused)
  IN IF ~w.ok \/ (w.set /\ w.mode = w.gop) THEN w
     ELSE IF w.mode \in refused THEN [w EXCEPT !.ok = FALSE]
     ELSE [w EXCEPT !.gop = w.mode]

-----------------------------------------------------------------------------
(* DeltaX or DeltaY: half of what the text leaves of the screen, in unsigned *)
(* arithmetic; text that is too large for the screen wraps around.           *)
Delta(have, need) == ((have - need) % Word) \div 2

(* The pixel of a cell of a text mode of that size.                          *)
CellPixel(cell, size, res) ==
  [i \in 1..2 |-> (cell[i] * Glyph[i] + Delta(res[i], size[i] * Glyph[i])) % Word]
=============================================================================
