SPECIFICATION Spec
CONSTANTS
  Glyph <- MCGlyph
  Mode0 <- MCMode0
  Mode1 <- MCMode1
  MinSize <- MCMinSize
  Predefined <- MCPredefined
  Fallback <- MCFallback
  GopModes <- MCGopModes
  Word = 1024
  Resolutions <- MCResolutions
  AskedSizes <- MCAskedSizes
  Strings <- MCStrings
  Attributes <- MCAttributes
  MaxLoose = 1
INVARIANTS
  ModesAreUsable
  CursorShown
  PrintsAsOnPaper
  BackspaceErases
PROPERTIES
  StartsOnItsScreen
VIEW StateView
