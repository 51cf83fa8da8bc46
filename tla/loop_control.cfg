SPECIFICATION LiveSpec
CONSTANT MaxTeleops = 2
INVARIANTS AssistEndsWithCommand AutoOnlyInAutonomous TargetsFollow
PROPERTY DriverRegainsControl
