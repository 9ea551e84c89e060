SPECIFICATION Spec
CONSTANTS
  STT_ATTEMPTS = 3
  TTS_DIAL_ATTEMPTS = 3
  MaxTokens = 2
  MaxFrames = 2
INVARIANTS
  TypeOK
  OneModelSpeaks
  AnswerAccountedFor
PROPERTIES
  RequestEnds
CHECK_DEADLOCK FALSE
