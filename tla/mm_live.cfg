\* One motor whose transfers may fail, a longer backlog: requests arrive.
CONSTANTS
  Slots = {s1}
  DutyCycles = {3}
  Positions = {0}
  Velocities = {1}
  Speeds = {0}
  Conductance <- UnitConductance
  Voltages = {1}
  BatteryCC = 20
  VoltageMin = 0
  RecalThresh = 0
  DefaultMaxDraw = 4
  MinMaxDraw = 4
  MaxMaxDraw = 12
  BrownoutPermLoops = 2
  InitialLoops = 4
  NaN = NaN
  NoCommand = NoCommand
  MaxBacklog = 3
  DefSize = 1
  MaxSyncDiff = 1
  Huge = 1000
SPECIFICATION LiveSpec
PROPERTY RequestsArrive
