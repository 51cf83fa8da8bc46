\* One mechanism of each kind, targets inside and far outside its range.
CONSTANTS
  FullDuty = 2
  AllowedSlip = 1
  LimitedSlip = 1
  Gain = 1
  Damping = 1
  Top = 13
  Switch = 11
  Limits <- WristLimits
  HomingDuty = 1
  SlowSpeed = 1
  Targets = {0, 6, 20}
  FrameAge = 2
  Overshoot = 2
SPECIFICATION LiveSpec
INVARIANT StaysInside
INVARIANT HomedIsTrue
PROPERTY HomingEnds
PROPERTY RestFindsTruth
