SPECIFICATION FairPortSpec
CONSTANTS
  nl = nl
  cr = cr
  sp = sp
  a = a
  Zero = Zero
  i1 = i1
  Bytes = {nl, cr, sp, a}
  Newline = nl
  Return = cr
  Levels = 2
  Readers = {1}
  Messages <- MCMessages
  ReadLengths <- MCOneByte
  FifoDepth = 2
  RxDepth = 2
  MaxAbove = 1
  Images = {i1}
  Printers = 2
  RingMessages <- MCRingMessages
  Size = 3
  Columns = 2
  MaxY = 5
  Scale = 2
  Glyphs = {sp, a}
  Space = sp
  ScreenMessages <- MCScreenMessages
  MaxPrinted = 4
INVARIANTS
  RoomWhenReady
  ScreenShowsTheEnd
PROPERTIES
  KeepsThePromise
  WriteReturns
  KeepsTheLog
  LastGlyphShows
