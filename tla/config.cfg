SPECIFICATION Spec
CONSTANTS
  Talons = {talon}
  Sparks = {spark}
  Stored = Stored
  On = On
  MaxControllers = 1
  MaxRestarts = 1
  ValuesOf <- MCValues
  Construction <- MCConstruction
  Params <- MCParams
INVARIANT AskedIsInForceOrLogged
PROPERTY OneTransferRepairsASpark
