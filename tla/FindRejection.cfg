SPECIFICATION Spec
CONSTANTS
  None = None
  SubtaskIds = {"S1", "S2", "S3"}
  Plans <- FewPlans
  AnomalySensors = {"co2", "temperature"}
  MaxReplans = 2
  Hardware = FALSE
  OperatorAnswers = TRUE
  MaxFaults = 0
PROPERTY RejectionStopsActuation
CHECK_DEADLOCK FALSE
