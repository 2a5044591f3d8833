---------------------------- MODULE MCPeripherals ----------------------------
EXTENDS Peripherals, MCSunxiGpio, MCFrameBufferBlt

(* What events of two levels draw on a screen of two by two pixels: all, a   *)
(* column, a buffer, a line moved, and a rectangle that is not on the screen. *)
MCDriverAsked ==
  {[op |-> "VideoFill", color |-> Mixed, x |-> 0, y |-> 0, w |-> 2, h |-> 2],
   [op |-> "VideoFill", color |-> Grey, x |-> 1, y |-> 0, w |-> 1, h |-> 2],
   [op |-> "VideoFill", color |-> Grey, x |-> 1, y |-> 1, w |-> 1, h |-> 2],
   [op |-> "BufferToVideo", buffer |-> <<Grey, {}, Mixed, Grey>>, delta |-> 0,
    sx |-> 0, sy |-> 0, x |-> 0, y |-> 0, w |-> 2, h |-> 2],
   [op |-> "VideoToVideo", sx |-> 0, sy |-> 1, x |-> 0, y |-> 0, w |-> 2, h |-> 1]}

(* And a line moved towards the end of the frame.                            *)
MCDriverUp ==
  MCDriverAsked \cup {[op |-> "VideoToVideo", sx |-> 0, sy |-> 0, x |-> 0, y |-> 1, w |-> 2, h |-> 1]}
==============================================================================
