--------------------------- MODULE FrameBufferBlt ----------------------------
(***************************************************************************)
(* Library/FrameBufferBltLib: rectangles of pixels in a frame buffer of     *)
(* bytes.  A colour and a byte are the sets of their bits; a colour of the  *)
(* client's has blue in bits 0..7, green in 8..15, red in 16..23 and        *)
(* reserved ones above.  A call is made line by line here, so that          *)
(* SimpleFb can say what comes between; the library alone runs it at once.  *)
(***************************************************************************)
EXTENDS Words, Integers, Sequences, FiniteSets, FiniteSetsExt, SequencesExt

CONSTANTS
  Infos,      \* mode informations: see InfoAssumption
  Asked(_),   \* what clients draw on a frame buffer
  AskedReads, \* rectangles that clients read
  Left,       \* what the firmware before left in each byte of the pixels
  Nothing

Channels == 1..3   \* red, green and blue

mRgbPixelMasks == <<0..7, 8..15, 16..23, 24..31>>
mBgrPixelMasks == <<16..23, 8..15, 0..7, 24..31>>

ASSUME InfoAssumption ==
  \A i \in Infos :
    /\ i.format \in {"RGB", "BGR", "BitMask", "BltOnly"}
    /\ i.masks \in [1..4 -> SUBSET Bits]
    /\ i.format = "RGB" => i.masks = mRgbPixelMasks
    /\ i.format = "BGR" => i.masks = mBgrPixelMasks
    /\ {i.width, i.height, i.pixelsPerScanLine} \subseteq Nat \ {0}

(* Numbers are unsigned, and a buffer has all the pixels that a call takes   *)
(* of it.                                                                    *)
IsRequest(r) ==
  /\ r.op \in {"VideoFill", "BufferToVideo", "VideoToVideo"}
  /\ {r.x, r.y, r.w, r.h} \subseteq Nat
  /\ r.op = "VideoFill" => r.color \in SUBSET Bits
  /\ r.op = "BufferToVideo" =>
       /\ {r.sx, r.sy, r.delta} \subseteq Nat /\ r.buffer \in Seq(SUBSET Bits)
       /\ (r.sy + r.h - 1) * (IF r.delta = 0 THEN r.w ELSE r.delta) + r.sx + r.w <= Len(r.buffer)
  /\ r.op = "VideoToVideo" => {r.sx, r.sy} \subseteq Nat

VARIABLES
  config,      \* FRAME_BUFFER_CONFIGURE, with its shifts as one number
  frameBuffer, \* the bytes of the frame, and of one more line behind it
  asked,       \* what the client waits for
  refused      \* whether the last call returned RETURN_INVALID_PARAMETER

bltVars == <<config, frameBuffer, asked, refused>>

-----------------------------------------------------------------------------
(* FrameBufferBltConfigure                                                   *)

(* A frame buffer without a linear layout, or with lines that are too short, *)
(* is not supported.                                                         *)
Supported(i) == i.format # "BltOnly" /\ i.pixelsPerScanLine >= i.width

HighBitSet(s) == IF s = {} THEN -1 ELSE Max(s)

(* Fault: the places of red and blue are exchanged.                          *)
PixelShiftOfRgb(m, k) == HighBitSet(m[k]) - 7 - 8 * (k - 1)

(* PixelShl, or the negation of PixelShr: how far a colour's channel is from *)
(* its place in the frame buffer.                                            *)
PixelShift(m, k) == HighBitSet(m[k]) - 23 + 8 * (k - 1)

(* FrameBufferBltLibConfigurePixelFormat and what Configure copies           *)
Configured(i) ==
  [format        |-> i.format,
   masks         |-> i.masks,
   shift         |-> [k \in Channels |-> PixelShift(i.masks, k)],
   bytesPerPixel |-> (HighBitSet(UNION {i.masks[k] : k \in 1..4}) + 7) \div 8,
   width         |-> i.width,
   height        |-> i.height,
   pixelsPerScanLine |-> i.pixelsPerScanLine]

ASSUME RequestAssumption ==
  /\ \A i \in Infos : Supported(i) =>
       Nothing \notin Asked(Configured(i)) /\ \A r \in Asked(Configured(i)) : IsRequest(r)
  /\ \A r \in AskedReads : {r.x, r.y, r.w, r.h} \subseteq Nat

BytesPerPixel == config.bytesPerPixel
Width         == config.width
Height        == config.height
Stride        == BytesPerPixel * config.pixelsPerScanLine
Offset(x, y)  == BytesPerPixel * (y * config.pixelsPerScanLine + x)
FrameBytes    == 0 .. Stride * (Height + 1) - 1
NoLine        == [b \in 0 .. Width * BytesPerPixel - 1 |-> {}]

BltInit ==
  /\ config \in {Configured(i) : i \in {j \in Infos : Supported(j)}}
  /\ frameBuffer = [b \in FrameBytes |->
       IF b < Stride * Height /\ b % Stride < Width * BytesPerPixel THEN Left ELSE {}]
  /\ asked = Nothing /\ refused = FALSE

-----------------------------------------------------------------------------
(* Pixels                                                                    *)

(* A colour as it is stored, and the way back.                               *)
Stored(c) == UNION {Shifted(c, config.shift[k]) \cap config.masks[k] : k \in Channels}
Loaded(p) == UNION {Shifted(p \cap config.masks[k], -config.shift[k]) : k \in Channels}

ByteOf(p, k)   == {b - 8 * k : b \in {a \in p : a \div 8 = k}}
StoredBytes(c) == LET p == Stored(c) IN [k \in 0..BytesPerPixel - 1 |-> ByteOf(p, k)]

(* The pixel of the BltBuffer in line n of it, column x.                     *)
BufferPixel(r, x, n) == r.buffer[1 + n * (IF r.delta = 0 THEN r.w ELSE r.delta) + x]

(* CopyMem and SetMem: the bytes are put where memory has room for them.     *)
Copied(memory, to, bytes) ==
  [b \in DOMAIN memory |-> IF b - to \in DOMAIN bytes THEN bytes[b - to] ELSE memory[b]]

-----------------------------------------------------------------------------
(* The operations: what line k = 0, 1, ... of request r makes of m, which    *)
(* has the frame buffer, the line buffer and whether that holds the colour.  *)

(* WideFill: the pixel repeated, or its byte if all its bytes are the same.  *)
UseWideFill(pixel) ==
  8 % BytesPerPixel = 0 \/ \A k \in DOMAIN pixel : pixel[k] = pixel[0]
WideFill(pixel) ==
  [k \in 0..7 |-> pixel[IF 8 % BytesPerPixel = 0 THEN k % BytesPerPixel ELSE 0]]

OneShot(r) == UseWideFill(StoredBytes(r.color)) /\ r.x = 0 /\ r.w = config.pixelsPerScanLine

(* All lines with words of 32 bits; what is left, and less than 8 bytes, is  *)
(* set to the first byte.                                                    *)
FillAtOnce(m, r) ==
  LET n    == r.w * BytesPerPixel * r.h
      wide == WideFill(StoredBytes(r.color))
      all  == [b \in 0..n - 1 |-> wide[IF n >= 8 /\ b < n - (n % 4) THEN b % 4 ELSE 0]]
  IN [m EXCEPT !.frame = Copied(m.frame, Offset(0, r.y), all)]

(* A line that starts at a multiple of 8 is written with words of 64 bits,   *)
(* another is copied from the line buffer, which is filled for the first.    *)
FillLine(m, r, k) ==
  LET to     == Offset(r.x, r.y + k)
      n      == r.w * BytesPerPixel
      pixel  == StoredBytes(r.color)
      wide   == WideFill(pixel)
      line   == IF m.ready THEN m.line
                ELSE Copied(m.line, 0, [b \in 0..n - 1 |-> pixel[b % BytesPerPixel]])
  IN IF UseWideFill(pixel) /\ to % 8 = 0
     THEN [m EXCEPT !.frame = Copied(m.frame, to, [b \in 0..n - 1 |-> wide[b % 8]])]
     ELSE [frame |-> Copied(m.frame, to, [b \in 0..n - 1 |-> line[b]]), line |-> line, ready |-> TRUE]

VideoFill(m, r, k) == IF OneShot(r) THEN FillAtOnce(m, r) ELSE FillLine(m, r, k)

(* A line of a BGR frame buffer is copied from the start of the buffer's     *)
(* line, another is converted in the line buffer.                            *)
BufferToVideo(m, r, k) ==
  LET to     == Offset(r.x, r.y + k)
      n      == r.w * BytesPerPixel
      copied == [b \in 0..n - 1 |-> ByteOf(BufferPixel(r, b \div 4, r.sy + k), b % 4)]
      pixels == [x \in 0..r.w - 1 |-> StoredBytes(BufferPixel(r, r.sx + x, r.sy + k))]
      bytes  == [b \in 0..n - 1 |-> pixels[b \div BytesPerPixel][b % BytesPerPixel]]
  IN IF config.format = "BGR"
     THEN [m EXCEPT !.frame = Copied(m.frame, to, copied)]
     ELSE [m EXCEPT !.frame = Copied(m.frame, to, bytes), !.line = Copied(m.line, 0, bytes)]

(* A move to a higher address goes from the line behind the last upwards.    *)
VideoToVideo(m, r, k) ==
  LET up == Offset(r.x, r.y) > Offset(r.sx, r.sy)
      d  == IF up THEN (r.h - k) * Stride ELSE k * Stride
      n  == r.w * BytesPerPixel
  IN [m EXCEPT !.frame = Copied(m.frame, Offset(r.x, r.y) + d,
                                [b \in 0..n - 1 |-> m.frame[Offset(r.sx, r.sy) + d + b]])]

Line(m, r, k) ==
  CASE r.op = "VideoFill"     -> VideoFill(m, r, k)
    [] r.op = "BufferToVideo" -> BufferToVideo(m, r, k)
    [] r.op = "VideoToVideo"  -> VideoToVideo(m, r, k)

Lines(r) == IF r.op = "VideoFill" /\ OneShot(r) THEN 1 ELSE r.h

(* VideoToBltBuffer: what is put in the buffer, by place in the rectangle.   *)
PixelOf(frame, x, y) ==
  UNION {Shifted(frame[Offset(x, y) + k], 8 * k) : k \in 0..BytesPerPixel - 1}
FramePixel(x, y) == PixelOf(frameBuffer, x, y)

VideoToBltBuffer(r) ==
  [at \in (0..r.w - 1) \X (0..r.h - 1) |->
     LET p == FramePixel(r.x + at[1], r.y + at[2]) IN IF config.format = "BGR" THEN p ELSE Loaded(p)]

(* The checks that every operation starts with.                              *)
Invalid(x, y, w, h) == y + h > Height \/ x + w > Width \/ w = 0 \/ h = 0

Refused(r) ==
  Invalid(r.x, r.y, r.w, r.h) \/ (r.op = "VideoToVideo" /\ Invalid(r.sx, r.sy, r.w, r.h))

-----------------------------------------------------------------------------
(* The library alone                                                         *)

Ask(r) ==
  /\ asked = Nothing /\ asked' = r
  /\ UNCHANGED <<config, frameBuffer, refused>>

(* FrameBufferBlt                                                            *)
Serve ==
  LET before == [frame |-> frameBuffer, line |-> NoLine, ready |-> FALSE]
      after  == FoldLeft(LAMBDA m, k : Line(m, asked, k - 1), before, [k \in 1..Lines(asked) |-> k])
  IN /\ asked # Nothing /\ asked' = Nothing
     /\ refused' = Refused(asked)
     /\ frameBuffer' = IF Refused(asked) THEN frameBuffer ELSE after.frame
     /\ UNCHANGED config

BltNext == Serve \/ \E r \in Asked(config) : Ask(r)

BltSpec == BltInit /\ [][BltNext]_bltVars

-----------------------------------------------------------------------------
(* Properties                                                                *)

(* The colours on the screen, of which a mask keeps the highest bits.        *)
Keeps == {b \in 0..23 : 7 - (b % 8) < Cardinality(config.masks[3 - b \div 8])}

ShownOf(frame) ==
  [at \in (0..Width - 1) \X (0..Height - 1) |-> Loaded(PixelOf(frame, at[1], at[2]))]

Screen == INSTANCE PixelScreen WITH
  Callers <- {1}, Requests <- UNION {Asked(Configured(i)) : i \in Infos},
  keeps <- Keeps, screen <- ShownOf(frameBuffer), asked <- <<asked>>

(* Whatever a frame buffer's format, padding and alignment, a call changes   *)
(* the pixels of its rectangle to what was asked, all others stay, and it is *)
(* refused exactly if the rectangle is not on the screen.                    *)
DoesTheBlt == Screen!ScreenSpec

(* What clients read back is what the screen shows (VideoToBltBuffer).       *)
ReadsTheScreen ==
  asked = Nothing => \A r \in AskedReads :
    ~Invalid(r.x, r.y, r.w, r.h) =>
      \A at \in (0..r.w - 1) \X (0..r.h - 1) :
        VideoToBltBuffer(r)[at] \cap (0..23) = Screen!Seen(r)[at]

(* The padding of lines and what lies behind the frame is never written.     *)
OnlyPixelsAreWritten ==
  \A b \in FrameBytes :
    b \div Stride >= Height \/ b % Stride >= Width * BytesPerPixel => frameBuffer[b] = {}
==============================================================================
