SPECIFICATION FairSpec
CONSTANTS
  s1 = s1
  s2 = s2
  a1 = a1
  a2 = a2
  SimpleDev = {s1, s2}
  AbsoluteDev = {a1, a2}
  Axes = {"X", "Z"}
  Buttons = {"Left"}
  Half = 6
  VirtualSide = 4
  Resolution <- MCResolution
  Side <- MCSide
  Flaky = {s2}
  MayRunOut = TRUE
  AllocUnit = 1
  MaxMoves = 2
INVARIANTS
  MotionIsConserved
  PositionIsInRange
PROPERTIES
  EveryChangeIsRead
