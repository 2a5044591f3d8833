SPECIFICATION GopSpec
CONSTANTS
  g1 = g1
  g2 = g2
  g3 = g3
  small = small
  default = default
  wide = wide
  odd = odd
  Gop = {g1, g2, g3}
  ModesOf <- MCModesOf
  Home <- MCHome
  Default = default
  Flaky = {g1}
  FlakyStart = {}
  MayRunOut = FALSE
  Pictures = {p}
  Blank = Blank
  Nobody = Nobody
INVARIANTS
  ModesAreTheIntersection
  CurrentModeIsOffered
  OfferIsSound
PROPERTIES
  ReadsBackWhatItDrew
  QueryTellsTheMode
