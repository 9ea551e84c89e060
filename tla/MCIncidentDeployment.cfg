SPECIFICATION Spec
CONSTANTS
  None = None
  AutoSensors = {"co2"}
  ApproveSensors = {"lux"}
  Hardware = TRUE
  MaxReplans = 0
  MaxIncidents = 2
  MaxInjections = 1
  MaxFaults = 1
INVARIANTS
  TypeOK
  NothingForgotten
PROPERTIES
  CustodySpec
CHECK_DEADLOCK FALSE
