SPECIFICATION FairSpec
CONSTANTS
  None = None
  SubtaskIds = {"S1", "S2", "S3"}
  Plans <- FewPlans
  AnomalySensors = {"co2", "temperature"}
  MaxReplans = 1
  Hardware = TRUE
  OperatorAnswers = TRUE
  MaxFaults = 1
PROPERTIES
  WavesTerminate
  ThreadSettles
CHECK_DEADLOCK FALSE
