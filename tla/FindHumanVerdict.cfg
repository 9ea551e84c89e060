SPECIFICATION Spec
CONSTANTS
  None = None
  AutoSensors = {"co2"}
  ApproveSensors = {"lux"}
  Hardware = FALSE
  MaxReplans = 1
  MaxIncidents = 1
  MaxInjections = 0
  MaxFaults = 0
PROPERTY HumanVerdictStands
CHECK_DEADLOCK FALSE
