SPECIFICATION LidSpec
CONSTANTS
  Dog = 3
  PubEvery = 3
  ScanTicks = 2
  Rest = 12
INVARIANTS LidTypeOK MapIsFed OneScanTwice FrameTurnsOnce
PROPERTY ImuIsThatOfTheScans
