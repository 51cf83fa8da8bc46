\* Two motors, duty cycles and positions, changing speeds, failing transfers.
CONSTANTS
  Slots = {s1, s2}
  DutyCycles = {3}
  Positions = {0}
  Velocities = {}
  Speeds = {0, 3}
  Conductance <- UnitConductance
  Voltages = {1}
  BatteryCC = 20
  VoltageMin = 0
  RecalThresh = 0
  DefaultMaxDraw = 4
  MinMaxDraw = 4
  MaxMaxDraw = 12
  BrownoutPermLoops = 2
  InitialLoops = 4
  NaN = NaN
  NoCommand = NoCommand
  MaxBacklog = 2
  DefSize = 1
  MaxSyncDiff = 1
  Huge = 1000
SPECIFICATION Spec
SYMMETRY Symmetry
INVARIANT LatestCommandWins
INVARIANT BatchWithinBudget
PROPERTY ImplementsMailbox
