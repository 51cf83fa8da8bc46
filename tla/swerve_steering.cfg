SPECIFICATION WheelLiveSpec
CONSTANTS
  Directions <- MCDirections
  CancoderValues <- MCCancoderValues
  Step = 30
  RezeroLoops = 2
  NoSetpoint = NoSetpoint
  MaxWind = 270
INVARIANTS
  SteersTheShortWay
  DriveFollowsWheel
PROPERTY
  WheelAligns
