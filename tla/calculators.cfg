CONSTANTS
  Horizontal = 1
  Forward = 2
  RotationIterDec = 2
  CameraOffset <- MCCameraOffset
  Freshness = 3
  IntakeToCam <- MCIntakeToCam
  StickFull = 3
  Deadband = 1
  Exponent = 2
  SpeedPerStick = 20
  RcSpeed = 15
  Gravity = 13
  Tokens <- MCTokens
  Zero = "0"
  FullDuty = 10
  SimConductance = 1
  TorquePerAmpere = 1
  Inertia = 24
SPECIFICATION Spec
INVARIANTS WheelsAsAsked OdometrySeesMotion SightingsAgree NearestSide MirrorsAgree TipsOverChosenWheel TeleopAsDriven LogTextSurvives ScriptRunsAsWritten SimulationObeys
