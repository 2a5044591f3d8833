-------------------------- MODULE MCFrameBufferBlt --------------------------
EXTENDS FrameBufferBlt

(* A colour with bits that 5-6-5 bits keep and bits that they drop, and one  *)
(* with reserved bits whose bytes are the same.                              *)
Mixed == {0, 4, 7, 9, 10, 15, 19, 22}
Grey  == {1, 7, 9, 15, 17, 23, 25, 31}

Eight(n) == n .. n + 7
Frame(format, r, g, b, x, w, h, line) ==
  [format |-> format, masks |-> <<r, g, b, x>>, width |-> w, height |-> h, pixelsPerScanLine |-> line]
Bgr(w, h, line)    == Frame("BGR", Eight(16), Eight(8), Eight(0), Eight(24), w, h, line)
Rgb(w, h, line)    == Frame("RGB", Eight(0), Eight(8), Eight(16), Eight(24), w, h, line)
Packed(w, h, line) == Frame("BitMask", Eight(16), Eight(8), Eight(0), {}, w, h, line)
Short(w, h, line)  == Frame("BitMask", 11..15, 5..10, 0..4, {}, w, h, line)
Wide(w, h, line)   == Frame("BitMask", 20..29, 10..19, 0..9, {}, w, h, line)
Nine(w, h, line)   == Frame("BitMask", 6..8, 3..5, 0..2, {}, w, h, line)

MCInfos == {Bgr(2, 2, 2), Rgb(2, 2, 3), Packed(2, 2, 2), Short(2, 2, 3), Wide(2, 2, 2),
            Frame("BltOnly", {}, {}, {}, {}, 2, 2, 2), Bgr(3, 2, 2)}

(* The whole, a line, a column, a pixel, nothing and one past each edge.     *)
Rects == {<<0, 0, 2, 2>>, <<0, 1, 2, 1>>, <<1, 0, 1, 2>>, <<1, 1, 1, 1>>, <<0, 0, 0, 1>>,
          <<1, 0, 2, 1>>, <<0, 1, 1, 2>>}

Fills == {[op |-> "VideoFill", color |-> c[1], x |-> c[2][1], y |-> c[2][2], w |-> c[2][3], h |-> c[2][4]] :
          c \in ({Mixed} \X Rects) \cup ({Grey} \X {<<0, 0, 2, 2>>, <<0, 0, 1, 2>>})}

(* From a buffer of two lines of three pixels.                               *)
Writes(sx) ==
  {[op |-> "BufferToVideo", buffer |-> <<Mixed, Grey, {}, Grey, {}, Mixed>>, delta |-> 3,
    sx |-> sx, sy |-> 2 - q[4], x |-> q[1], y |-> q[2], w |-> q[3], h |-> q[4]] :
   q \in {<<0, 0, 2, 2>>, <<0, 1, 2, 1>>, <<1, 0, 1, 2>>, <<1, 0, 2, 1>>}}
WholeBuffer ==
  {[op |-> "BufferToVideo", buffer |-> <<Mixed, Grey, {}, Grey>>, delta |-> 0,
    sx |-> 0, sy |-> 0, x |-> 0, y |-> 0, w |-> 2, h |-> 2]}

Moves ==
  {[op |-> "VideoToVideo", sx |-> q[1], sy |-> q[2], x |-> q[3], y |-> q[4], w |-> q[5], h |-> q[6]] :
   q \in {<<1, 0, 0, 0, 1, 2>>, <<0, 1, 0, 0, 2, 1>>, <<0, 1, 1, 0, 1, 1>>, <<1, 1, 0, 0, 1, 1>>,
          <<1, 0, 0, 0, 2, 1>>}}
MovesUp ==
  {[op |-> "VideoToVideo", sx |-> 0, sy |-> 0, x |-> 0, y |-> 1, w |-> 2, h |-> 1],
   [op |-> "VideoToVideo", sx |-> 0, sy |-> 0, x |-> 1, y |-> 0, w |-> 1, h |-> 2]}

(* Without moves to a higher address and, for BGR, writes from another       *)
(* column of the buffer than the first.                                      *)
MCAsked(c) == Fills \cup WholeBuffer \cup Moves \cup Writes(IF c.format = "BGR" THEN 0 ELSE 1)

MCAskedUp(c)  == Fills \cup MovesUp
MCAskedSub(c) == Writes(1)
MCAskedAll(c) ==
  {[op |-> "VideoFill", color |-> Mixed \cup {23}, x |-> 0, y |-> 0, w |-> c.width, h |-> c.height]}

MCBgr  == {Bgr(2, 2, 2)}
MCOne  == {Bgr(1, 1, 1)}
MCOdd  == {Short(3, 3, 3)}
MCNine == {Nine(2, 2, 2)}

(* Channels that share bits, one with a hole, and a long one between two     *)
(* short ones.                                                               *)
MCOverlap == {Frame("BitMask", 11..15, 8..12, 0..4, {}, 2, 2, 2)}
MCHole    == {Frame("BitMask", {13, 15}, 5..10, 0..4, {}, 2, 2, 2)}
MCUneven  == {Frame("BitMask", 8..9, 10..21, 0..1, {}, 2, 2, 2)}

MCReads == {[x |-> 0, y |-> 0, w |-> 2, h |-> 2], [x |-> 1, y |-> 1, w |-> 1, h |-> 1]}
=============================================================================
