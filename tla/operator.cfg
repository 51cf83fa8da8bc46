\* Four driver and five operator inputs, every mode and switch at any pass.
CONSTANTS
  DriverInputs <- MCDriverInputs
  OperatorInputs <- MCOperatorInputs
  Sightings <- MCSightings
  Children <- MCChildren
  override_distance_sensor = FALSE
SPECIFICATION LiveSpec
INVARIANT ActsOnReading
PROPERTY ScoringEnds
