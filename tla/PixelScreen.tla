----------------------------- MODULE PixelScreen -----------------------------
(***************************************************************************)
(* What a Blt promises (EFI_GRAPHICS_OUTPUT_PROTOCOL, as the comments of     *)
(* Library/FrameBufferBltLib give it): a screen of pixels, of which a call  *)
(* changes one rectangle, at once.  A screen keeps some bits of a colour.   *)
(***************************************************************************)
EXTENDS Integers, Sequences

CONSTANTS Callers, Requests, Nothing

VARIABLES
  keeps,   \* the bits of a colour that the screen can show
  screen,  \* [x, y] |-> colour
  asked,   \* per caller: the request it waits for, or Nothing
  refused  \* whether the last answer was a refusal

screenVars == <<keeps, screen, asked, refused>>

Rect(x, y, w, h) == (x .. x + w - 1) \X (y .. y + h - 1)
OnScreen(area)   == area # {} /\ area \subseteq DOMAIN screen
Drawn(area, P(_)) == [at \in DOMAIN screen |-> IF at \in area THEN P(at) ELSE screen[at]]

(* The pixel of the buffer that goes to a place: of the rectangle at         *)
(* (sx, sy), in rows of delta pixels, or of the width when delta is 0.       *)
BufferPixel(r, at) ==
  r.buffer[1 + (r.sy + at[2] - r.y) * (IF r.delta = 0 THEN r.w ELSE r.delta) + r.sx + at[1] - r.x]

Good(r) ==
  /\ OnScreen(Rect(r.x, r.y, r.w, r.h))
  /\ r.op = "VideoToVideo" => OnScreen(Rect(r.sx, r.sy, r.w, r.h))

Answer(r) ==
  LET area == Rect(r.x, r.y, r.w, r.h)
  IN CASE r.op = "VideoFill"     -> Drawn(area, LAMBDA at : r.color \cap keeps)
       [] r.op = "BufferToVideo" -> Drawn(area, LAMBDA at : BufferPixel(r, at) \cap keeps)
       [] r.op = "VideoToVideo"  ->
            Drawn(area, LAMBDA at : screen[<<at[1] - r.x + r.sx, at[2] - r.y + r.sy>>])

(* What a read of a rectangle finds (EfiBltVideoToBltBuffer).                *)
Seen(r) == [at \in Rect(0, 0, r.w, r.h) |-> screen[<<r.x + at[1], r.y + at[2]>>]]

ScreenInit == asked = [c \in Callers |-> Nothing] /\ refused = FALSE

Ask(c, r) ==
  /\ asked[c] = Nothing /\ asked' = [asked EXCEPT ![c] = r]
  /\ UNCHANGED <<keeps, screen, refused>>

Serve(c) ==
  /\ asked[c] # Nothing /\ asked' = [asked EXCEPT ![c] = Nothing]
  /\ screen' = IF Good(asked[c]) THEN Answer(asked[c]) ELSE screen
  /\ refused' = ~Good(asked[c])
  /\ UNCHANGED keeps

ScreenNext == \E c \in Callers : Serve(c) \/ \E r \in Requests : Ask(c, r)

ScreenSpec == ScreenInit /\ [][ScreenNext]_screenVars
==============================================================================
