\* One motor, a sagging battery, brownouts: the power limit.
CONSTANTS
  Slots = {s1}
  DutyCycles = {3}
  Positions = {0}
  Velocities = {}
  Speeds = {0}
  Conductance <- UnitConductance
  Voltages = {2, 4}
  BatteryCC = 20
  VoltageMin = 1
  RecalThresh = 3
  DefaultMaxDraw = 8
  MinMaxDraw = 5
  MaxMaxDraw = 12
  BrownoutPermLoops = 2
  InitialLoops = 4
  NaN = NaN
  NoCommand = NoCommand
  MaxBacklog = 2
  DefSize = 3
  MaxSyncDiff = 2
  Huge = 1000
SPECIFICATION Spec
INVARIANT BrownoutPinsLimit
