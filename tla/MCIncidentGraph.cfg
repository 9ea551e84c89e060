SPECIFICATION Spec
CONSTANTS
  None = None
  SubtaskIds = {"S1", "S2", "S3"}
  Plans <- AllPlans
  AnomalySensors = {"co2", "temperature", "window"}
  MaxReplans = 2
  Hardware = TRUE
  OperatorAnswers = FALSE
  MaxFaults = 2
INVARIANTS
  TypeOK
  AttemptsAreSeparate
  DependencyClosed
  TicketAgreesAtEnd
  BudgetSpentBeforeFailing
  MemoryAgreesAtEnd
  ParkedAfterIntervention
PROPERTIES
  OnlyApprovedActuation
  LifecycleSpec
CHECK_DEADLOCK FALSE
