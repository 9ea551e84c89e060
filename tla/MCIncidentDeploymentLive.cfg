SPECIFICATION FairSpec
CONSTANTS
  None = None
  AutoSensors = {"co2"}
  ApproveSensors = {}
  Hardware = TRUE
  MaxReplans = 2
  MaxIncidents = 2
  MaxInjections = 1
  MaxFaults = 1
INVARIANTS
  OneActiveUnlessReopened
PROPERTIES
  RegistryDrains
  ClickIsServed
CHECK_DEADLOCK FALSE
