CONSTANTS
  Length = 16
  Grip = 2
  Noise = 1
  Drifts <- MCDrifts
  SpeedLimit = 4
  MaxSpeed = 3
  MaxAcceleration = 1
  MaxDeceleration = 1
  Points <- MCPoints
  DriveToSubtract = 1
  VelStoppedThresh = 2
  StoppedNumLoops = 2
  ReefLocation = 13
  ReefDriveEarly = 4
  ReefDriveFvel = 1
  LockGains <- MCLockGains
  LockDivisor = 2
  LockDeadband = 2
  LockMaxSpeed = 2
  MaxAdjust = 1
  Sightings <- MCSightings
  MaxGPDiff = 2
  UseDiffThresh = 6
  GPFast = 2
  ThreeInches = 1
  SixInches = 1
SPECIFICATION LiveSpec
PROPERTIES EndsNear DriveEnds LockSettles PieceSettles
