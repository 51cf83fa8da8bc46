SPECIFICATION HeadingLiveSpec
CONSTANTS
  Targets <- MCTargets
  Starts <- MCStarts
  Driver = Driver
  None = None
  Deadband = 30
  Step = 30
  MaxTurn = 360
PROPERTIES
  BearingAsDemanded
  HeadingSettles
