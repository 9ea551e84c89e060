SPECIFICATION Spec
CONSTANTS
  None = None
  AutoSensors = {"co2"}
  ApproveSensors = {}
  Hardware = FALSE
  MaxReplans = 2
  MaxIncidents = 2
  MaxInjections = 0
  MaxFaults = 0
INVARIANT NoDuplicateIncident
CHECK_DEADLOCK FALSE
