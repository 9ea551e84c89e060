SPECIFICATION Spec
CONSTANTS
  None = None
  AutoSensors = {"co2"}
  ApproveSensors = {"lux"}
  MaxInjections = 2
INVARIANTS
  TypeOK
PROPERTIES
  GraceIsRespected
  DemoKeepsItsWorld
  ReloadProtects
  RecoveryIsRead
  SelfHeals
CHECK_DEADLOCK FALSE
