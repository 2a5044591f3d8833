SPECIFICATION PeripheralSpec
CONSTANTS
  Pins <- MCPins
  Called <- MCCalled
  Configs <- MCConfigs
  Drives <- MCDrives
  Enables <- MCEnables
  Levels = 2
  ResetWords <- MCReset
  Infos <- MCInfos
  Asked <- MCAsked
  AskedReads <- MCReads
  Left = {1, 7}
  Nothing = Nothing
  TPL_NOTIFY = 2
  DriverAsked <- MCDriverAsked
INVARIANTS
  LedsAreSet
PROPERTIES
  ImplementsPins
  LibraryDoesTheBlt
  BltsAreAtomic
  ReturnsShown
CHECK_DEADLOCK FALSE
