SPECIFICATION Spec
CONSTANTS
  gfx = gfx
  wide = wide
  term = term
  slim = slim
  Dev = {slim, term, wide}
  Sizes <- MCSizes
  ConOutDev = {slim, wide}
  StdErrDev = {wide, term}
  HasGop = {}
  Flaky = {}
  MayStop = FALSE
  MayRunOut = FALSE
  AllocUnit = 1
  Attributes = {23}
  Cells <- MCCells
INVARIANTS
  ConsolesInStep
  FirstSharedMeansSynced
VIEW StateView
