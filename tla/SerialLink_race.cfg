SPECIFICATION LinkSpec
CONSTANTS
  HeadSize = 2
  TailSize = 1
  DataSizes <- MCOneSize
  MaxReadOnce = 4
  DogThreshold = 2
  MaxFrames = 2
  MaxFaults = 0
INVARIANT EndsOnlyInSilence
