SPECIFICATION LinkFairSpec
CONSTANTS
  HeadSize = 2
  TailSize = 1
  DataSizes <- MCDataSizes
  MaxReadOnce = 4
  DogThreshold = 1
  MaxFrames = 3
  MaxFaults = 1
INVARIANTS LinkTypeOK InOrderOnce LossesBounded
PROPERTY SilenceIsNoticed
