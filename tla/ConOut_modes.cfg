SPECIFICATION Spec
CONSTANTS
  gfx = gfx
  wide = wide
  term = term
  slim = slim
  Dev = {gfx, slim, wide}
  Sizes <- MCSizes
  ConOutDev = {gfx, wide, slim}
  StdErrDev = {}
  HasGop = {gfx}
  Flaky = {}
  MayStop = TRUE
  MayRunOut = TRUE
  AllocUnit = 1
  Attributes = {}
  Cells <- MCOrigin
INVARIANTS
  MapIsSound
  MapIsComplete
VIEW StateView
